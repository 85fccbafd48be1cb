------------------------------ MODULE VfsProofs ------------------------------
(***************************************************************************)
(* Proofs about open files, for every number of descriptors, size of the   *)
(* cache, capacity of the disk and set of callers' requests: first what    *)
(* holds of all programs and disks, then what files hold, for programs     *)
(* that open each file once, do not seek past its end and close what they  *)
(* wrote, on a disk that works but may be full.                            *)
(***************************************************************************)
EXTENDS VfsFiles, SequenceTheorems, FiniteSetTheorems, Extremes

Flags == {"read", "write", "append", "create", "truncate"}

InodeRecord == [used : BOOLEAN, size : 0 .. MaxWords,
                blocks : [Logical -> Block \cup {Hole}]]

SlotRecord == [index : Logical, words : Block, dirty : BOOLEAN]

Descriptor == [open : BOOLEAN, inode : Inode, flags : SUBSET Flags,
               pos : 0 .. MaxWords, size : 0 .. MaxWords,
               valid : 0 .. CacheClusters, recent : Seq(Slot),
               slot : [Slot -> SlotRecord]]

\* The time stamps order valid slots: each has at most one place.
Stamps(q, valid) ==
  /\ q \in Seq(Slot)
  /\ \A k \in 1 .. Len(q) : q[k] \in 1 .. valid
  /\ \A j, k \in 1 .. Len(q) : q[j] = q[k] => j = k

Ordered(d) == Stamps(d.recent, d.valid)

\* What is to be written back is in a valid slot, and of those that hold one
\* cluster it is the one that is found: no later slot writes over it.
Flushable(d) ==
  /\ \A s \in Slot : d.slot[s].dirty => s <= d.valid
  /\ \A s, t \in 1 .. d.valid :
       d.slot[s].dirty /\ d.slot[t].index = d.slot[s].index => s <= t

CacheOK(d) == d \in Descriptor /\ Ordered(d) /\ Flushable(d)

\* A call has room for what is left of it.
CallOK ==
  /\ call \in [op : {"none", "read", "write", "destroy"}, fd : Fd, left : Nat,
               word : AllWords]
  /\ call.op \in {"read", "write"} =>
       /\ fds[call.fd].open
       /\ call.left > 0
       /\ fds[call.fd].pos + call.left <= MaxWords
  /\ call.op = "read" => fds[call.fd].pos + call.left <= fds[call.fd].size
  /\ call.op = "write" => call.word \in WordOf[fds[call.fd].inode]
  /\ call.op = "destroy" => \E f \in Fd : fds[f].open

IInv ==
  /\ inodes \in [Inode -> InodeRecord]
  /\ fds \in [Fd -> Descriptor]
  /\ \A f \in Fd :
       /\ CacheOK(fds[f])
       /\ fds[f].open => inodes[fds[f].inode].used
       /\ ~fds[f].open => \A s \in Slot : ~fds[f].slot[s].dirty
  /\ CallOK
  /\ ret.status \in {"none", "ok", "error"}

------------------------------------------------------------------------------
(***************************************************************************)
(* Numbers and blocks.                                                     *)
(***************************************************************************)
LEMMA Sizes ==
  /\ MaxOpenFiles \in Nat \ {0} /\ CacheClusters \in Nat \ {0}
  /\ ClusterWords \in Nat \ {0} /\ MaxWords \in Nat /\ Capacity \in Nat
BY SizesAssumption

LEMMA ZerosType == Zeros \in Block
BY DEF Zeros, Block, AllWords

\* A position lies in a cluster, and in front of the end of that cluster.
LEMMA Place ==
  ASSUME NEW p \in 0 .. MaxWords
  PROVE  /\ p \div ClusterWords \in Logical
         /\ (p \div ClusterWords) + 1 \in Logical
         /\ p % ClusterWords \in 0 .. ClusterWords - 1
         /\ p = ClusterWords * (p \div ClusterWords) + (p % ClusterWords)
<1> DEFINE c == ClusterWords
           q == p \div c
           m == MaxWords \div c
<1>1. c \in Nat \ {0} /\ p \in Nat /\ MaxWords \in Nat /\ p <= MaxWords
  BY Sizes
<1>2. /\ q \in Nat /\ m \in Nat
      /\ p % c \in 0 .. c - 1 /\ MaxWords % c \in 0 .. c - 1
  BY <1>1
<1>3. p = c * q + (p % c) /\ MaxWords = c * m + (MaxWords % c)
  BY <1>1
<1> HIDE DEF q, m
<1>4. q <= m
  <2>1. SUFFICES ASSUME q >= m + 1 PROVE FALSE
    BY <1>2
  <2>2. c * q >= c * (m + 1)
    BY <1>1, <1>2, <2>1
  <2>3. c * (m + 1) = c * m + c
    BY <1>1, <1>2
  <2>4. c * q \in Nat /\ c * m \in Nat
    BY <1>1, <1>2
  <2> HIDE DEF c
  <2> QED  BY <1>1, <1>2, <1>3, <2>2, <2>3, <2>4
<1>5. q \in 0 .. m + 1 /\ q + 1 \in 0 .. m + 1
  BY <1>2, <1>4
<1> QED  BY <1>2, <1>3, <1>5 DEF Logical, q, m

\* The first of some numbers is one of them.
LEMMA FirstIs ==
  ASSUME NEW S \in SUBSET Nat, S # {}
  PROVE  First(S) \in S /\ \A t \in S : First(S) <= t
<1>1. \E s \in S : \A t \in S : s <= t
  BY LeastNatural
<1> QED  BY <1>1, Zenon DEF First

\* A cluster read from the disk, with zeros behind the end of the file.
LEMMA DiskWordsType ==
  ASSUME NEW n \in InodeRecord, NEW l \in Logical, Readable(n, l)
  PROVE  DiskWords(n, l) \in Block
<1>1. l \in Nat /\ n.size \in Nat /\ n.blocks[l] \in Block \cup {Hole}
  BY Sizes DEF InodeRecord, Logical
<1>2. ASSUME NEW o \in At
      PROVE  DiskWords(n, l)[o] \in AllWords
  <2>1. DiskWords(n, l)[o] = IF l * ClusterWords + o <= n.size
                             THEN n.blocks[l][o] ELSE 0
    BY DEF DiskWords
  <2>2. CASE l * ClusterWords + o <= n.size
    <3>1. l * ClusterWords \in Nat /\ o \in Nat \ {0}
      BY <1>1, Sizes DEF At
    <3>2. ~(l * ClusterWords >= n.size)
      <4> DEFINE k == l * ClusterWords
      <4> HIDE DEF k
      <4>1. k \in Nat /\ k + o <= n.size
        BY <2>2, <3>1 DEF k
      <4>2. ~(k >= n.size)
        BY <1>1, <3>1, <4>1
      <4> QED  BY <4>2 DEF k
    <3>3. n.blocks[l] \in Block
      BY <1>1, <3>2 DEF Readable
    <3> QED  BY <2>1, <2>2, <3>3 DEF Block
  <2>3. CASE ~(l * ClusterWords + o <= n.size)
    BY <2>1, <2>3 DEF AllWords
  <2> QED  BY <2>2, <2>3
<1> QED  BY <1>2 DEF DiskWords, Block

------------------------------------------------------------------------------
(***************************************************************************)
(* The order of the time stamps.                                           *)
(***************************************************************************)
\* The stamps of the slots but one.
LEMMA StampRemoved ==
  ASSUME NEW q \in Seq(Slot), NEW p \in 1 .. Len(q)
  PROVE  /\ RemoveAt(q, p) \in Seq(Slot)
         /\ Len(RemoveAt(q, p)) = Len(q) - 1
         /\ \A k \in 1 .. Len(q) - 1 :
              RemoveAt(q, p)[k] = IF k < p THEN q[k] ELSE q[k + 1]
<1> DEFINE left == SubSeq(q, 1, p - 1)
           right == SubSeq(q, p + 1, Len(q))
<1>1. Len(q) \in Nat /\ p \in Nat /\ p >= 1 /\ p <= Len(q)
      /\ \A i \in 1 .. Len(q) : q[i] \in Slot
  BY LenProperties, ElementOfSeq
<1>2. /\ left \in Seq(Slot) /\ Len(left) = p - 1
      /\ \A k \in 1 .. p - 1 : left[k] = q[k]
  <2>1. \A i \in 1 .. p - 1 : q[i] \in Slot
    BY <1>1
  <2>2. /\ left \in Seq(Slot)
        /\ Len(left) = IF 1 <= p - 1 THEN p - 1 - 1 + 1 ELSE 0
        /\ \A k \in 1 .. p - 1 - 1 + 1 : left[k] = q[1 + k - 1]
    BY <1>1, <2>1, SubSeqProperties
  <2> HIDE DEF left
  <2>3. \A k \in 1 .. p - 1 : left[k] = q[k]
    BY <1>1, <2>2
  <2> QED  BY <1>1, <2>2, <2>3
<1>3. /\ right \in Seq(Slot) /\ Len(right) = Len(q) - p
      /\ \A k \in 1 .. Len(q) - p : right[k] = q[k + p]
  <2>1. \A i \in p + 1 .. Len(q) : q[i] \in Slot
    BY <1>1
  <2>2. /\ right \in Seq(Slot)
        /\ Len(right) = IF p + 1 <= Len(q) THEN Len(q) - (p + 1) + 1 ELSE 0
        /\ \A k \in 1 .. Len(q) - (p + 1) + 1 : right[k] = q[(p + 1) + k - 1]
    BY <1>1, <2>1, SubSeqProperties
  <2> HIDE DEF right
  <2>3. \A k \in 1 .. Len(q) - p : (p + 1) + k - 1 = k + p
    BY <1>1
  <2>4. Len(q) - (p + 1) + 1 = Len(q) - p
    BY <1>1
  <2>5. \A k \in 1 .. Len(q) - p : right[k] = q[k + p]
    BY <2>2, <2>3, <2>4
  <2>6. Len(right) = Len(q) - p
    BY <1>1, <2>2
  <2> QED  BY <2>2, <2>5, <2>6
<1>4. RemoveAt(q, p) = left \o right
  BY DEF RemoveAt
<1> HIDE DEF left, right
<1>5. /\ left \o right \in Seq(Slot)
      /\ Len(left \o right) = Len(left) + Len(right)
      /\ \A k \in 1 .. Len(left) + Len(right) :
           (left \o right)[k] = IF k <= Len(left) THEN left[k] ELSE right[k - Len(left)]
  BY <1>2, <1>3, ConcatProperties
<1> DEFINE u == left \o right
<1> HIDE DEF u
<1>6. /\ u \in Seq(Slot) /\ Len(u) = (p - 1) + (Len(q) - p)
      /\ \A k \in 1 .. (p - 1) + (Len(q) - p) :
           u[k] = IF k <= p - 1 THEN left[k] ELSE right[k - (p - 1)]
  BY <1>2, <1>3, <1>5 DEF u
<1>7. (p - 1) + (Len(q) - p) = Len(q) - 1
  BY <1>1
<1>8. ASSUME NEW k \in 1 .. Len(q) - 1
      PROVE  u[k] = IF k < p THEN q[k] ELSE q[k + 1]
  <2>1. CASE k < p
    BY <1>1, <1>2, <1>6, <1>7, <2>1
  <2>2. CASE ~(k < p)
    <3>1. k - (p - 1) \in 1 .. Len(q) - p /\ (k - (p - 1)) + p = k + 1
      BY <1>1, <2>2
    <3>2. u[k] = right[k - (p - 1)]
      BY <1>1, <1>6, <1>7, <2>2
    <3> QED  BY <1>3, <2>2, <3>1, <3>2
  <2> QED  BY <2>1, <2>2
<1> QED  BY <1>4, <1>6, <1>7, <1>8 DEF u

\* A slot that is used gives up the stamp it had.
LEMMA StampGivenUp ==
  ASSUME NEW v \in 0 .. CacheClusters, NEW q, Stamps(q, v), NEW s \in 1 .. v
  PROVE  /\ Stamps(RemoveFirst(q, s), v)
         /\ \A i \in 1 .. Len(RemoveFirst(q, s)) : RemoveFirst(q, s)[i] # s
<1> DEFINE P == {i \in 1 .. Len(q) : q[i] = s}
           p == Min(P)
           w == RemoveAt(q, p)
<1>1. q \in Seq(Slot) /\ Len(q) \in Nat
  BY LenProperties DEF Stamps
<1>2. CASE \A i \in 1 .. Len(q) : q[i] # s
  <2>1. RemoveFirst(q, s) = q
    BY <1>1, <1>2 DEF RemoveFirst
  <2> QED  BY <1>2, <2>1
<1>3. CASE \E i \in 1 .. Len(q) : q[i] = s
  <2>1. PICK k \in 1 .. Len(q) : q[k] = s
    BY <1>3
  <2>2. P = {k}
    <3>1. \A i \in 1 .. Len(q) : q[i] = q[k] => i = k
      BY <2>1 DEF Stamps
    <3> QED  BY <2>1, <3>1
  <2>3. p = k
    BY <2>2 DEF Min
  <2>4. RemoveFirst(q, s) = w
    BY <1>1, <2>1 DEF RemoveFirst, SelectInSeq
  <2> HIDE DEF p
  <2>5. /\ w \in Seq(Slot) /\ Len(w) = Len(q) - 1
        /\ \A i \in 1 .. Len(q) - 1 : w[i] = IF i < k THEN q[i] ELSE q[i + 1]
    BY <1>1, <2>1, <2>3, StampRemoved
  <2> HIDE DEF w, P
\* Where the stamps came from.
  <2> DEFINE from(i) == IF i < k THEN i ELSE i + 1
  <2>6. \A i \in 1 .. Len(q) - 1 :
          from(i) \in 1 .. Len(q) /\ from(i) # k /\ w[i] = q[from(i)]
    BY <1>1, <2>1, <2>5
  <2>7. \A i, j \in 1 .. Len(q) - 1 : from(i) = from(j) => i = j
    BY <1>1, <2>1
  <2> HIDE DEF from
  <2>8. \A i \in 1 .. Len(q) - 1 : w[i] \in 1 .. v
    BY <2>6 DEF Stamps
  <2>9. ASSUME NEW i \in 1 .. Len(q) - 1
        PROVE  w[i] # s
    <3>1. from(i) \in 1 .. Len(q) /\ from(i) # k /\ w[i] = q[from(i)]
      BY <2>6
    <3> QED  BY <2>1, <3>1 DEF Stamps
  <2>10. ASSUME NEW i \in 1 .. Len(q) - 1, NEW j \in 1 .. Len(q) - 1, w[i] = w[j]
         PROVE  i = j
    <3>1. /\ from(i) \in 1 .. Len(q) /\ from(j) \in 1 .. Len(q)
          /\ q[from(i)] = q[from(j)]
      BY <2>6, <2>10
    <3>2. from(i) = from(j)
      BY <3>1 DEF Stamps
    <3> QED  BY <2>7, <3>2
  <2>11. Stamps(w, v)
    BY <2>5, <2>8, <2>10 DEF Stamps
  <2> QED  BY <2>4, <2>5, <2>9, <2>11
<1> QED  BY <1>2, <1>3

\* A slot that is used gets the newest stamp, whether or not it had one.
LEMMA TouchHeld ==
  ASSUME NEW v \in 0 .. CacheClusters, NEW q, Stamps(q, v), NEW s \in 1 .. v
  PROVE  Stamps(Append(RemoveFirst(q, s), s), v)
<1> DEFINE w == RemoveFirst(q, s)
           n == Len(w)
           r == Append(w, s)
<1>1. Stamps(w, v) /\ \A i \in 1 .. n : w[i] # s
  BY StampGivenUp
<1>2. s \in Slot
  BY Sizes DEF Slot
<1> HIDE DEF w
<1>3. /\ w \in Seq(Slot) /\ n \in Nat
      /\ \A i \in 1 .. n : w[i] \in 1 .. v
      /\ \A i, j \in 1 .. n : w[i] = w[j] => i = j
  BY <1>1, LenProperties DEF Stamps
<1>4. /\ r \in Seq(Slot) /\ Len(r) = n + 1
      /\ \A i \in 1 .. n : r[i] = w[i]
      /\ r[n + 1] = s
  BY <1>2, <1>3, AppendProperties
<1> HIDE DEF n, r
<1>5. \A i \in 1 .. n + 1 : i \in 1 .. n \/ i = n + 1
  BY <1>3
<1>6. \A i \in 1 .. n + 1 : r[i] \in 1 .. v
  BY <1>3, <1>4, <1>5
<1>7. \A i, j \in 1 .. n + 1 : r[i] = r[j] => i = j
  BY <1>1, <1>3, <1>4, <1>5 DEF n
<1>8. Stamps(r, v)
  BY <1>4, <1>6, <1>7 DEF Stamps
<1> QED  BY <1>8 DEF r, w

\* The stamps do not change when one more slot becomes valid.
LEMMA StampsStay ==
  ASSUME NEW v \in 0 .. CacheClusters, NEW q, Stamps(q, v)
  PROVE  Stamps(q, v + 1)
<1>1. 1 .. v \subseteq 1 .. v + 1
  BY Sizes
<1> QED  BY <1>1 DEF Stamps

\* That slot gets the newest stamp once it is loaded.
LEMMA TouchNew ==
  ASSUME NEW v \in 0 .. CacheClusters, v < CacheClusters, NEW q, Stamps(q, v)
  PROVE  Stamps(Append(RemoveFirst(q, v + 1), v + 1), v + 1)
<1>1. v + 1 \in 0 .. CacheClusters /\ v + 1 \in 1 .. v + 1
  BY Sizes
<1>2. Stamps(q, v + 1)
  BY StampsStay
<1> QED  BY <1>1, <1>2, TouchHeld

------------------------------------------------------------------------------
(***************************************************************************)
(* Flushing.                                                               *)
(***************************************************************************)
\* m is n after the slots F of d have been written to it, and perhaps after a
\* hole became zeros on the way to the next one.
Stored(d, n, m, F) ==
  /\ m \in InodeRecord /\ m.used = n.used
  /\ m.size \in {n.size, d.size}
  /\ \A l \in Logical :
       \/ \E s \in F : d.slot[s].index = l /\ m.blocks[l] = d.slot[s].words
       \/ /\ \A s \in F : d.slot[s].index # l
          /\ \/ m.blocks[l] = n.blocks[l]
             \/ n.blocks[l] = Hole /\ m.blocks[l] = Zeros

\* The descriptor looks as before, but for its cache.
SameFile(d, e) ==
  /\ e.open = d.open /\ e.inode = d.inode /\ e.flags = d.flags
  /\ e.pos = d.pos /\ e.size = d.size

LEMMA StoreSound ==
  ASSUME NEW d \in Descriptor, NEW n \in InodeRecord, NEW F \in SUBSET Slot
  PROVE  /\ Stored(d, n, Store(d, n, F), F)
         /\ \A l \in Logical :
              (\A s \in F : d.slot[s].index # l)
                => Store(d, n, F).blocks[l] = n.blocks[l]
         /\ Store(d, n, F).size = IF F = {} THEN n.size ELSE d.size
<1> DEFINE last(l) == CHOOSE s \in F : /\ d.slot[s].index = l
                                       /\ \A t \in F : d.slot[t].index = l => t <= s
           stored == {d.slot[s].index : s \in F}
           m == Store(d, n, F)
           new == [l \in Logical |->
                     IF l \in stored THEN d.slot[last(l)].words ELSE n.blocks[l]]
<1>1. /\ n.used \in BOOLEAN /\ n.size \in 0 .. MaxWords /\ d.size \in 0 .. MaxWords
      /\ n.blocks \in [Logical -> Block \cup {Hole}]
      /\ \A s \in Slot : d.slot[s].words \in Block
  BY DEF InodeRecord, Descriptor, SlotRecord
<1>2. ASSUME NEW l \in stored
      PROVE  last(l) \in F /\ d.slot[last(l)].index = l
  <2> DEFINE T == {s \in F : d.slot[s].index = l}
  <2>1. T \in SUBSET Nat /\ T # {} /\ \A s \in T : s <= CacheClusters
    <3>1. \A s \in F : s \in Nat /\ s <= CacheClusters
      <4>1. CacheClusters \in Nat /\ Slot = 1 .. CacheClusters
        BY Sizes DEF Slot
      <4>2. \A s \in Slot : s \in Nat /\ s <= CacheClusters
        BY ONLY <4>1
      <4> QED  BY <4>2
    <3>2. \E s \in F : d.slot[s].index = l
      OBVIOUS
    <3> QED  BY <3>1, <3>2
  <2>2. PICK s \in T : \A t \in T : t <= s
    BY <2>1, Sizes, GreatestNatural
  <2>3. \E x \in F : d.slot[x].index = l /\ \A t \in F : d.slot[t].index = l => t <= x
    BY <2>2
  <2> QED  BY <2>3, Zenon
<1>3. m = [n EXCEPT !.size = IF F = {} THEN n.size ELSE d.size, !.blocks = new]
  BY Zenon DEF Store
<1> HIDE DEF last
<1>4. new \in [Logical -> Block \cup {Hole}]
  <2>1. ASSUME NEW l \in Logical
        PROVE  new[l] \in Block \cup {Hole}
    <3>1. CASE l \in stored
      <4>1. last(l) \in Slot
        BY <1>2, <3>1
      <4> QED  BY <1>1, <3>1, <4>1
    <3>2. CASE l \notin stored
      BY <1>1, <3>2
    <3> QED  BY <3>1, <3>2
  <2> QED  BY <2>1
<1>5. \A l \in Logical : new[l] = IF l \in stored THEN d.slot[last(l)].words
                                  ELSE n.blocks[l]
  OBVIOUS
<1> HIDE DEF new
<1>6. /\ m \in InodeRecord /\ m.used = n.used /\ m.blocks = new
      /\ m.size = IF F = {} THEN n.size ELSE d.size
  BY <1>1, <1>3, <1>4 DEF InodeRecord
<1> HIDE DEF m
<1>7. ASSUME NEW l \in Logical
      PROVE  \/ \E s \in F : d.slot[s].index = l /\ m.blocks[l] = d.slot[s].words
             \/ /\ \A s \in F : d.slot[s].index # l
                /\ m.blocks[l] = n.blocks[l]
  <2>1. CASE l \in stored
    BY <1>2, <1>5, <1>6, <2>1
  <2>2. CASE l \notin stored
    BY <1>5, <1>6, <2>2
  <2> QED  BY <2>1, <2>2
<1> QED  BY <1>6, <1>7 DEF Stored, m

LEMMA CleanIs ==
  ASSUME NEW d \in Descriptor, NEW S
  PROVE  /\ Clean(d, S) \in Descriptor
         /\ SameFile(d, Clean(d, S))
         /\ Clean(d, S).valid = d.valid /\ Clean(d, S).recent = d.recent
         /\ \A s \in Slot :
              /\ Clean(d, S).slot[s].index = d.slot[s].index
              /\ Clean(d, S).slot[s].words = d.slot[s].words
              /\ Clean(d, S).slot[s].dirty = (d.slot[s].dirty /\ s \notin S)
<1> DEFINE new == [s \in Slot |-> IF s \in S THEN [d.slot[s] EXCEPT !.dirty = FALSE]
                                  ELSE d.slot[s]]
<1>1. d.slot \in [Slot -> SlotRecord]
  BY DEF Descriptor
<1>2. ASSUME NEW s \in Slot
      PROVE  /\ new[s] \in SlotRecord
             /\ new[s].index = d.slot[s].index /\ new[s].words = d.slot[s].words
             /\ new[s].dirty = (d.slot[s].dirty /\ s \notin S)
  <2>1. d.slot[s] \in SlotRecord
    BY <1>1
  <2>2. CASE s \in S
    BY <2>1, <2>2 DEF SlotRecord
  <2>3. CASE s \notin S
    BY <2>1, <2>3 DEF SlotRecord
  <2> QED  BY <2>2, <2>3
<1>3. new \in [Slot -> SlotRecord]
  BY <1>2
<1>4. Clean(d, S) = [d EXCEPT !.slot = new]
  BY DEF Clean
<1> HIDE DEF new
<1>5. /\ Clean(d, S) \in Descriptor /\ SameFile(d, Clean(d, S))
      /\ Clean(d, S).valid = d.valid /\ Clean(d, S).recent = d.recent
      /\ Clean(d, S).slot = new
  BY <1>3, <1>4 DEF Descriptor, SameFile
<1> QED  BY <1>2, <1>5

\* Cleaning slots leaves a cache in order.
LEMMA CleanOK ==
  ASSUME NEW d, CacheOK(d), NEW S
  PROVE  CacheOK(Clean(d, S))
<1>1. d \in Descriptor /\ d.valid \in 0 .. CacheClusters
  BY DEF CacheOK, Descriptor
<1>2. /\ Clean(d, S) \in Descriptor
      /\ Clean(d, S).valid = d.valid /\ Clean(d, S).recent = d.recent
      /\ \A s \in Slot :
           /\ Clean(d, S).slot[s].index = d.slot[s].index
           /\ Clean(d, S).slot[s].dirty = (d.slot[s].dirty /\ s \notin S)
  BY <1>1, CleanIs
<1>3. 1 .. d.valid \subseteq Slot
  BY <1>1, Sizes DEF Slot
<1> DEFINE e == Clean(d, S)
<1> HIDE DEF e
<1>4. /\ e \in Descriptor /\ e.valid = d.valid /\ e.recent = d.recent
      /\ \A s \in Slot : e.slot[s].index = d.slot[s].index
                         /\ (e.slot[s].dirty => d.slot[s].dirty)
  BY <1>2 DEF e
<1>5. Ordered(e)
  BY <1>4 DEF CacheOK, Ordered
<1>6. Flushable(e)
  BY <1>3, <1>4 DEF CacheOK, Flushable
<1> QED  BY <1>4, <1>5, <1>6 DEF CacheOK, e

\* A flush of the slots from a to b has written and cleaned those up to some k,
\* which is b when it succeeds.
LEMMA FlushSound ==
  ASSUME NEW d \in Descriptor, NEW n \in InodeRecord, NEW budget,
         NEW a \in Slot, NEW b \in a - 1 .. CacheClusters,
         NEW r \in Flush(d, n, budget, a, b)
  PROVE  /\ r.ok \in BOOLEAN
         /\ \E k \in a - 1 .. b :
              /\ r.d = Clean(d, a .. k)
              /\ Stored(d, n, r.n, Dirty(d, a .. k))
              /\ r.ok => k = b
         /\ r.ok => r.n = Store(d, n, Dirty(d, a .. b))
         /\ r.ok \/ \E k \in a .. b : d.slot[k].dirty
<1> DEFINE stored(k) == Store(d, n, Dirty(d, a .. k))
           failsAt(k) == d.slot[k].dirty /\ (DiskFaults \/ ~Fits(stored(k), budget))
           zeroed(k) ==
             IF DiskFaults /\ Fits(stored(k), budget)
                /\ stored(k - 1).blocks[d.slot[k].index] = Hole
             THEN {[stored(k - 1) EXCEPT !.blocks[d.slot[k].index] = Zeros]} ELSE {}
<1>1. a \in Nat \ {0} /\ b \in Nat
  BY Sizes DEF Slot
<1>2. ASSUME NEW k \in a - 1 .. b
      PROVE  Dirty(d, a .. k) \in SUBSET Slot
  BY <1>1, <1>2, Sizes DEF Dirty, Slot
<1>3. ASSUME NEW k \in a - 1 .. b
      PROVE  /\ Stored(d, n, stored(k), Dirty(d, a .. k))
             /\ \A l \in Logical : (\A s \in Dirty(d, a .. k) : d.slot[s].index # l)
                                     => stored(k).blocks[l] = n.blocks[l]
  BY <1>2, StoreSound
<1>4. CASE r = [ok |-> TRUE, d |-> Clean(d, a .. b), n |-> stored(b)]
  <2>1. r.ok = TRUE /\ r.d = Clean(d, a .. b) /\ r.n = stored(b)
    BY <1>4
  <2>2. b \in a - 1 .. b
    BY <1>1
  <2>3. Stored(d, n, stored(b), Dirty(d, a .. b))
    BY <1>3, <2>2
  <2> HIDE DEF stored
  <2>4. Stored(d, n, r.n, Dirty(d, a .. b))
    BY <2>1, <2>3
  <2> QED  BY <2>1, <2>2, <2>4 DEF stored
<1>5. ASSUME NEW k \in a .. b, failsAt(k),
             NEW m \in {stored(k - 1)} \cup zeroed(k),
             r = [ok |-> FALSE, d |-> Clean(d, a .. k - 1), n |-> m]
      PROVE  /\ r.ok = FALSE /\ d.slot[k].dirty
             /\ \E j \in a - 1 .. b : /\ r.d = Clean(d, a .. j)
                                      /\ Stored(d, n, r.n, Dirty(d, a .. j))
  <2>1. k - 1 \in a - 1 .. b /\ k \in Slot
    BY <1>1, Sizes DEF Slot
  <2> DEFINE l == d.slot[k].index
             p == stored(k - 1)
             F == Dirty(d, a .. k - 1)
  <2>2. l \in Logical
    BY <2>1 DEF Descriptor, SlotRecord
  <2>3. /\ Stored(d, n, p, F)
        /\ \A i \in Logical : (\A s \in F : d.slot[s].index # i)
                                => p.blocks[i] = n.blocks[i]
    BY <1>3, <2>1
  <2>4. r.ok = FALSE /\ r.d = Clean(d, a .. k - 1) /\ r.n = m
    BY <1>5
  <2>5. Stored(d, n, m, F)
    <3>1. CASE m = p
      <4> HIDE DEF p, F
      <4> QED  BY <2>3, <3>1
    <3>2. CASE m \in zeroed(k)
      <4>1. p.blocks[l] = Hole /\ m = [p EXCEPT !.blocks[l] = Zeros]
        BY <3>2
      <4> HIDE DEF p, F, l
      <4>2. p \in InodeRecord /\ p.blocks \in [Logical -> Block \cup {Hole}]
        BY <2>3 DEF Stored, InodeRecord
      <4>3. m \in InodeRecord /\ m.used = p.used /\ m.size = p.size
            /\ \A i \in Logical : m.blocks[i] = IF i = l THEN Zeros ELSE p.blocks[i]
        BY <2>2, <4>1, <4>2, ZerosType DEF InodeRecord
      <4>4. \A s \in F : d.slot[s].index # l
        <5> SUFFICES ASSUME NEW s \in F, d.slot[s].index = l
                     PROVE  FALSE
          OBVIOUS
        <5>1. PICK t \in F : d.slot[t].index = l /\ p.blocks[l] = d.slot[t].words
          BY <2>2, <2>3 DEF Stored
        <5>2. t \in Slot
          BY <1>2, <2>1 DEF F
        <5>3. d.slot[t].words \in Block
          BY <5>2 DEF Descriptor, SlotRecord
        <5> QED  BY <4>1, <5>1, <5>3, HoleAssumption
      <4>5. n.blocks[l] = Hole /\ m.blocks[l] = Zeros
        BY <2>2, <2>3, <4>1, <4>3, <4>4
      <4>6. ASSUME NEW i \in Logical
            PROVE  \/ \E s \in F : d.slot[s].index = i /\ m.blocks[i] = d.slot[s].words
                   \/ /\ \A s \in F : d.slot[s].index # i
                      /\ \/ m.blocks[i] = n.blocks[i]
                         \/ n.blocks[i] = Hole /\ m.blocks[i] = Zeros
        <5>1. CASE i = l
          BY <4>4, <4>5, <5>1
        <5>2. CASE i # l
          BY <2>3, <4>3, <5>2 DEF Stored
        <5> QED  BY <5>1, <5>2
      <4> QED  BY <2>3, <4>3, <4>6 DEF Stored
    <3> QED  BY <3>1, <3>2
  <2> QED  BY <1>5, <2>1, <2>4, <2>5
<1>6. \/ r = [ok |-> TRUE, d |-> Clean(d, a .. b), n |-> stored(b)]
      \/ \E k \in a .. b : /\ failsAt(k)
                           /\ \E m \in {stored(k - 1)} \cup zeroed(k) :
                                r = [ok |-> FALSE, d |-> Clean(d, a .. k - 1), n |-> m]
  <2> HIDE DEF stored, failsAt, zeroed
  <2>1. r \in {[ok |-> TRUE, d |-> Clean(d, a .. b), n |-> stored(b)] :
                 x \in {y \in {TRUE} : Fits(stored(b), budget)}}
          \cup UNION {{[ok |-> FALSE, d |-> Clean(d, a .. k - 1), n |-> m] :
                         m \in {stored(k - 1)} \cup zeroed(k)} :
                      k \in {j \in a .. b : failsAt(j) /\ Fits(stored(j - 1), budget)}}
    BY Zenon DEF Flush, stored, failsAt, zeroed
  <2> QED  BY <2>1
<1> HIDE DEF stored, failsAt, zeroed
<1>7. CASE r # [ok |-> TRUE, d |-> Clean(d, a .. b), n |-> stored(b)]
  <2>1. PICK k \in a .. b : /\ failsAt(k)
                            /\ \E m \in {stored(k - 1)} \cup zeroed(k) :
                                 r = [ok |-> FALSE, d |-> Clean(d, a .. k - 1), n |-> m]
    BY <1>6, <1>7
  <2>2. /\ r.ok = FALSE /\ d.slot[k].dirty
        /\ \E j \in a - 1 .. b : /\ r.d = Clean(d, a .. j)
                                 /\ Stored(d, n, r.n, Dirty(d, a .. j))
    BY <1>5, <2>1
  <2> QED  BY <2>2
<1> QED  BY <1>4, <1>7

\* A flush that was asked for the slots S, all valid, has written some of the
\* dirty ones, and they are clean now; m is the inode after it and e the
\* descriptor.
Flushed(d, n, e, m, S) ==
  /\ CacheOK(e) /\ SameFile(d, e) /\ e.valid = d.valid /\ e.recent = d.recent
  /\ \A s \in Slot : e.slot[s].index = d.slot[s].index
                     /\ e.slot[s].words = d.slot[s].words
  /\ \E F \in SUBSET Dirty(d, S) :
       /\ Stored(d, n, m, F)
       /\ \A s \in Slot : e.slot[s].dirty = (d.slot[s].dirty /\ s \notin F)

LEMMA FlushKeeps ==
  ASSUME NEW d, CacheOK(d), NEW n \in InodeRecord, NEW budget,
         NEW a \in Slot, NEW b \in a - 1 .. d.valid,
         NEW r \in Flush(d, n, budget, a, b)
  PROVE  /\ Flushed(d, n, r.d, r.n, a .. b)
         /\ r.ok \in BOOLEAN
         /\ r.ok => /\ \A s \in a .. b : ~r.d.slot[s].dirty
                    /\ r.n = Store(d, n, Dirty(d, a .. b))
         /\ r.ok \/ \E s \in a .. b : d.slot[s].dirty
<1>1. d \in Descriptor /\ d.valid \in 0 .. CacheClusters
  BY DEF CacheOK, Descriptor
<1>2. b \in a - 1 .. CacheClusters /\ a \in Nat \ {0} /\ b \in Nat
      /\ a .. b \subseteq Slot
  BY <1>1, Sizes DEF Slot
<1>3. /\ r.ok \in BOOLEAN
      /\ \E k \in a - 1 .. b :
           /\ r.d = Clean(d, a .. k)
           /\ Stored(d, n, r.n, Dirty(d, a .. k))
           /\ r.ok => k = b
      /\ r.ok => r.n = Store(d, n, Dirty(d, a .. b))
      /\ r.ok \/ \E k \in a .. b : d.slot[k].dirty
  BY <1>1, <1>2, FlushSound
<1>4. PICK k \in a - 1 .. b :
        /\ r.d = Clean(d, a .. k)
        /\ Stored(d, n, r.n, Dirty(d, a .. k))
        /\ r.ok => k = b
  BY <1>3
<1> DEFINE e == r.d
           F == Dirty(d, a .. k)
<1>5. /\ CacheOK(e) /\ SameFile(d, e) /\ e.valid = d.valid /\ e.recent = d.recent
      /\ \A s \in Slot :
           /\ e.slot[s].index = d.slot[s].index
           /\ e.slot[s].words = d.slot[s].words
           /\ e.slot[s].dirty = (d.slot[s].dirty /\ s \notin a .. k)
  <2> DEFINE c == Clean(d, a .. k)
  <2>1. /\ SameFile(d, c) /\ c.valid = d.valid /\ c.recent = d.recent
        /\ \A s \in Slot :
             /\ c.slot[s].index = d.slot[s].index
             /\ c.slot[s].words = d.slot[s].words
             /\ c.slot[s].dirty = (d.slot[s].dirty /\ s \notin a .. k)
    BY <1>1, CleanIs
  <2>2. CacheOK(c)
    BY CleanOK
  <2>3. e = c
    BY <1>4
  <2> HIDE DEF c, e
  <2> QED  BY <2>1, <2>2, <2>3
<1>6. F \in SUBSET Dirty(d, a .. b)
  BY <1>2 DEF Dirty
<1>7. ASSUME NEW s \in Slot
      PROVE  e.slot[s].dirty = (d.slot[s].dirty /\ s \notin F)
  <2>1. d.slot[s].dirty \in BOOLEAN
    BY <1>1 DEF Descriptor, SlotRecord
  <2>2. e.slot[s].dirty = (d.slot[s].dirty /\ s \notin a .. k)
    BY <1>5
  <2>3. s \in F <=> s \in a .. k /\ d.slot[s].dirty
    BY DEF Dirty
  <2> QED  BY <2>1, <2>2, <2>3, Zenon
<1>8. Stored(d, n, r.n, F)
  BY <1>4
<1>9. r.ok => \A s \in a .. b : ~e.slot[s].dirty
  BY <1>2, <1>4, <1>5
<1> HIDE DEF F
<1>10. Flushed(d, n, r.d, r.n, a .. b)
  BY <1>5, <1>6, <1>7, <1>8 DEF Flushed
<1> QED  BY <1>3, <1>9, <1>10

------------------------------------------------------------------------------
(***************************************************************************)
(* Loading a cluster.                                                      *)
(***************************************************************************)
\* A slot gets its content and the newest stamp.
LEMMA SlotFilled ==
  ASSUME NEW d \in Descriptor, NEW s \in Slot, NEW rec \in SlotRecord,
         Stamps(Append(RemoveFirst(d.recent, s), s), d.valid)
  PROVE  LET e == Touch([d EXCEPT !.slot[s] = rec], s)
         IN  /\ e \in Descriptor /\ SameFile(d, e) /\ e.valid = d.valid
             /\ Ordered(e)
             /\ \A t \in Slot : e.slot[t] = IF t = s THEN rec ELSE d.slot[t]
<1> DEFINE q == Append(RemoveFirst(d.recent, s), s)
           g == [d EXCEPT !.slot[s] = rec]
           e == [g EXCEPT !.recent = q]
<1>1. g \in Descriptor /\ SameFile(d, g) /\ g.valid = d.valid /\ g.recent = d.recent
      /\ \A t \in Slot : g.slot[t] = IF t = s THEN rec ELSE d.slot[t]
  BY DEF Descriptor, SameFile
<1>2. Touch(g, s) = e
  BY <1>1, Zenon DEF Touch
<1>3. q \in Seq(Slot) /\ Stamps(q, d.valid)
  BY Zenon DEF Stamps
<1> HIDE DEF g, q
<1>4. e \in Descriptor /\ SameFile(g, e) /\ e.valid = g.valid /\ e.recent = q
      /\ e.slot = g.slot
  BY <1>1, <1>3 DEF Descriptor, SameFile
<1> HIDE DEF e
<1>5. SameFile(d, e)
  BY <1>1, <1>4 DEF SameFile
<1>6. Ordered(e)
  BY <1>1, <1>3, <1>4 DEF Ordered
<1> QED  BY <1>1, <1>2, <1>4, <1>5, <1>6 DEF g

\* A slot that is found is only stamped.
LEMMA SlotTouched ==
  ASSUME NEW d, CacheOK(d), NEW s \in 1 .. d.valid
  PROVE  /\ CacheOK(Touch(d, s)) /\ SameFile(d, Touch(d, s))
         /\ Touch(d, s).valid = d.valid /\ Touch(d, s).slot = d.slot
<1> DEFINE q == Append(RemoveFirst(d.recent, s), s)
           e == [d EXCEPT !.recent = q]
<1>1. d \in Descriptor /\ d.valid \in 0 .. CacheClusters /\ Stamps(d.recent, d.valid)
  BY DEF CacheOK, Descriptor, Ordered
<1>2. Stamps(q, d.valid)
  BY <1>1, TouchHeld
<1>3. q \in Seq(Slot)
  BY <1>2 DEF Stamps
<1> HIDE DEF q
<1>4. e \in Descriptor /\ SameFile(d, e) /\ e.valid = d.valid /\ e.recent = q
      /\ e.slot = d.slot
  BY <1>1, <1>3 DEF Descriptor, SameFile
<1>5. Touch(d, s) = e
  BY Zenon DEF Touch, q
<1> HIDE DEF e
<1>6. CacheOK(e)
  BY <1>2, <1>4 DEF CacheOK, Ordered, Flushable
<1> QED  BY <1>4, <1>5, <1>6

\* A descriptor with one more valid slot, not yet loaded.
LEMMA SlotAdded ==
  ASSUME NEW d, CacheOK(d), d.valid < CacheClusters
  PROVE  LET g == [d EXCEPT !.valid = d.valid + 1]
         IN  /\ g \in Descriptor /\ SameFile(d, g)
             /\ g.valid = d.valid + 1 /\ g.recent = d.recent /\ g.slot = d.slot
             /\ d.valid + 1 \in Slot
             /\ ~d.slot[d.valid + 1].dirty
<1>1. d \in Descriptor /\ d.valid \in 0 .. CacheClusters /\ CacheClusters \in Nat \ {0}
  BY Sizes DEF CacheOK, Descriptor
<1>2. d.valid + 1 \in 0 .. CacheClusters /\ d.valid + 1 \in Slot
  BY <1>1 DEF Slot
<1>3. d.slot[d.valid + 1].dirty => d.valid + 1 <= d.valid
  BY <1>2 DEF CacheOK, Flushable
<1> QED  BY <1>1, <1>2, <1>3 DEF Descriptor, SameFile

\* The descriptor once cluster l is in slot s.
Filled(d, n, l, s) ==
  Touch([d EXCEPT !.slot[s] =
           [index |-> l, words |-> DiskWords(n, l), dirty |-> FALSE]], s)

LEMMA FillIs ==
  ASSUME NEW d, NEW n, NEW l, NEW s, NEW failed, NEW r \in Fill(d, n, l, s, failed)
  PROVE  /\ r.n = n /\ r.s = s
         /\ \/ Readable(n, l) /\ r.ok = TRUE /\ r.d = Filled(d, n, l, s)
            \/ /\ DiskFaults \/ ~Readable(n, l)
               /\ r.ok = FALSE /\ r.d \in failed
<1> DEFINE e == Filled(d, n, l, s)
<1>1. r \in {[ok |-> TRUE, n |-> n, s |-> s, d |-> e] : x \in {y \in {l} : Readable(n, y)}}
           \cup {[ok |-> FALSE, n |-> n, s |-> s, d |-> f] :
                   f \in {y \in failed : DiskFaults \/ ~Readable(n, l)}}
  BY Zenon DEF Fill, Filled
<1> HIDE DEF e
<1>2. CASE r \in {[ok |-> TRUE, n |-> n, s |-> s, d |-> e] : x \in {y \in {l} : Readable(n, y)}}
  <2>1. Readable(n, l) /\ r = [ok |-> TRUE, n |-> n, s |-> s, d |-> e]
    BY <1>2
  <2>2. r.ok = TRUE /\ r.n = n /\ r.s = s /\ r.d = e
    BY <2>1
  <2> QED  BY <2>1, <2>2, Zenon DEF e
<1>3. CASE r \in {[ok |-> FALSE, n |-> n, s |-> s, d |-> f] :
                    f \in {y \in failed : DiskFaults \/ ~Readable(n, l)}}
  <2>1. PICK f \in failed : /\ DiskFaults \/ ~Readable(n, l)
                            /\ r = [ok |-> FALSE, n |-> n, s |-> s, d |-> f]
    BY <1>3
  <2>2. r.ok = FALSE /\ r.n = n /\ r.s = s /\ r.d = f
    BY <2>1
  <2> QED  BY <2>1, <2>2, Zenon
<1> QED  BY <1>1, <1>2, <1>3

\* The slot that goes when the cache is full is a valid one.
LEMMA OldestIs ==
  ASSUME NEW d, NEW o \in LeastRecentlyUsed(d)
  PROVE  o \in 1 .. d.valid
BY DEF LeastRecentlyUsed

\* The three ways to a cluster: it is there; there is room for it; or another
\* has to go, which must be flushed first.
FoundThere(d, n, l, r) ==
  /\ Holding(d, l) # {}
  /\ r.ok = TRUE /\ r.n = n /\ r.s = First(Holding(d, l))
  /\ r.d = Touch(d, First(Holding(d, l)))

RoomForIt(d, n, l, r) ==
  LET s == d.valid + 1
      grown == [d EXCEPT !.valid = s]
  IN  /\ Holding(d, l) = {} /\ d.valid < CacheClusters
      /\ r.n = n /\ r.s = s
      /\ \/ Readable(n, l) /\ r.ok = TRUE /\ r.d = Filled(grown, n, l, s)
         \/ /\ DiskFaults \/ ~Readable(n, l)
            /\ r.ok = FALSE /\ r.d = grown

OldestGoes(d, n, budget, l, r) ==
  /\ Holding(d, l) = {} /\ ~(d.valid < CacheClusters)
  /\ r.s \in LeastRecentlyUsed(d)
  /\ \E q \in FlushSlot(d, n, budget, r.s) :
       /\ r.n = q.n
       /\ \/ /\ q.ok /\ Readable(q.n, l) /\ r.ok = TRUE
             /\ r.d = Filled(q.d, q.n, l, r.s)
          \/ /\ r.ok = FALSE /\ r.d = q.d
             /\ q.ok => DiskFaults \/ ~Readable(q.n, l)

LEMMA LoadCases ==
  ASSUME NEW d, NEW n, NEW budget, NEW l, NEW r \in Load(d, n, budget, l)
  PROVE  \/ FoundThere(d, n, l, r) \/ RoomForIt(d, n, l, r)
         \/ OldestGoes(d, n, budget, l, r)
<1> DEFINE s == d.valid + 1
           grown == [d EXCEPT !.valid = s]
           h == First(Holding(d, l))
           late == {grown}
<1>1. CASE Holding(d, l) # {}
  <2>1. r \in {[ok |-> TRUE, n |-> n, s |-> h, d |-> Touch(d, h)]}
    BY <1>1, Zenon DEF Load
  <2> HIDE DEF h
  <2>2. r.ok = TRUE /\ r.n = n /\ r.s = h /\ r.d = Touch(d, h)
    BY <2>1
  <2> QED  BY <1>1, <2>2 DEF FoundThere, h
<1>2. CASE Holding(d, l) = {} /\ d.valid < CacheClusters
  <2>1. r \in Fill(grown, n, l, s, late)
    BY <1>2, Zenon DEF Load
  <2> HIDE DEF grown, s, late
  <2>2. /\ r.n = n /\ r.s = s
        /\ \/ Readable(n, l) /\ r.ok = TRUE /\ r.d = Filled(grown, n, l, s)
           \/ /\ DiskFaults \/ ~Readable(n, l)
              /\ r.ok = FALSE /\ r.d \in late
    BY <2>1, FillIs
  <2>3. r.d \in late => r.d = grown
    BY DEF late
  <2> QED  BY <1>2, <2>2, <2>3, Zenon DEF RoomForIt, grown, s
<1>3. CASE Holding(d, l) = {} /\ ~(d.valid < CacheClusters)
  <2>1. r \in UNION {UNION {IF q.ok THEN Fill(q.d, q.n, l, old, {q.d})
                            ELSE {[ok |-> FALSE, n |-> q.n, s |-> old, d |-> q.d]} :
                            q \in FlushSlot(d, n, budget, old)} :
                     old \in LeastRecentlyUsed(d)}
    BY <1>3, Zenon DEF Load
  <2>2. PICK old \in LeastRecentlyUsed(d) :
          \E q \in FlushSlot(d, n, budget, old) :
            r \in IF q.ok THEN Fill(q.d, q.n, l, old, {q.d})
                  ELSE {[ok |-> FALSE, n |-> q.n, s |-> old, d |-> q.d]}
    BY <2>1
  <2>3. PICK q \in FlushSlot(d, n, budget, old) :
          r \in IF q.ok THEN Fill(q.d, q.n, l, old, {q.d})
                ELSE {[ok |-> FALSE, n |-> q.n, s |-> old, d |-> q.d]}
    BY <2>2
  <2>4. CASE q.ok
    <3> DEFINE e == q.d
               m == q.n
               alone == {e}
    <3>1. r \in Fill(e, m, l, old, alone)
      BY <2>3, <2>4
    <3> HIDE DEF e, m, alone, s, grown, h, late
    <3>2. /\ r.n = m /\ r.s = old
          /\ \/ Readable(m, l) /\ r.ok = TRUE /\ r.d = Filled(e, m, l, old)
             \/ /\ DiskFaults \/ ~Readable(m, l)
                /\ r.ok = FALSE /\ r.d \in alone
      BY <3>1, FillIs
    <3> QED  BY <1>3, <2>3, <2>4, <3>2 DEF OldestGoes, alone, e, m
  <2>5. CASE ~q.ok
    <3>1. r = [ok |-> FALSE, n |-> q.n, s |-> old, d |-> q.d]
      BY <2>3, <2>5
    <3>2. r.n = q.n /\ r.s = old /\ r.ok = FALSE /\ r.d = q.d
      BY <3>1
    <3> QED  BY <1>3, <2>3, <2>5, <3>2 DEF OldestGoes
  <2> QED  BY <2>4, <2>5
<1> QED  BY <1>1, <1>2, <1>3

\* What holds after a load: what was to be written back still is, in its slot,
\* or it is on the disk, where the cluster that is loaded is another one.
Loaded(d, n, l, r) ==
  /\ CacheOK(r.d) /\ SameFile(d, r.d) /\ d.valid <= r.d.valid
  /\ r.n \in InodeRecord /\ r.n.used = n.used /\ r.n.size \in {n.size, d.size}
  /\ r.ok \in BOOLEAN
  /\ r.ok => /\ r.s \in 1 .. r.d.valid
             /\ r.d.slot[r.s].index = l
             /\ \A t \in 1 .. r.d.valid : r.d.slot[t].index = l => r.s <= t
  /\ \A s \in Slot : d.slot[s].dirty =>
       \/ /\ d.slot[s].index # l
          /\ r.n.blocks[d.slot[s].index] = d.slot[s].words
       \/ /\ r.d.slot[s].index = d.slot[s].index
          /\ r.d.slot[s].words = d.slot[s].words
          /\ r.d.slot[s].dirty

LEMMA HoldingType ==
  ASSUME NEW d, NEW l, d.valid \in 0 .. CacheClusters
  PROVE  Holding(d, l) \in SUBSET Nat /\ Holding(d, l) \in SUBSET Slot
BY Sizes DEF Holding, Slot

LEMMA FoundSound ==
  ASSUME NEW d, CacheOK(d), NEW n \in InodeRecord, NEW l \in Logical, NEW r,
         FoundThere(d, n, l, r)
  PROVE  Loaded(d, n, l, r)
<1> DEFINE h == First(Holding(d, l))
<1>1. d \in Descriptor /\ d.valid \in 0 .. CacheClusters
  BY DEF CacheOK, Descriptor
<1>2. Holding(d, l) \in SUBSET Nat /\ Holding(d, l) # {}
  BY <1>1, HoldingType DEF FoundThere
<1>3. h \in Holding(d, l) /\ \A t \in Holding(d, l) : h <= t
  BY <1>2, FirstIs
<1> HIDE DEF h
<1>4. h \in 1 .. d.valid /\ d.slot[h].index = l
      /\ \A t \in 1 .. d.valid : d.slot[t].index = l => h <= t
  BY <1>3 DEF Holding
<1>5. r.ok = TRUE /\ r.n = n /\ r.s = h /\ r.d = Touch(d, h)
  BY DEF FoundThere, h
<1>6. /\ CacheOK(r.d) /\ SameFile(d, r.d)
      /\ r.d.valid = d.valid /\ r.d.slot = d.slot
  BY <1>4, <1>5, SlotTouched
<1>7. r.s \in 1 .. r.d.valid /\ r.d.slot[r.s].index = l
      /\ \A t \in 1 .. r.d.valid : r.d.slot[t].index = l => r.s <= t
  BY <1>4, <1>5, <1>6
<1>8. d.valid <= r.d.valid
  BY <1>1, <1>6
<1>10. r.ok \in BOOLEAN
  BY <1>5
<1>9. r.n \in InodeRecord /\ r.n.used = n.used /\ r.n.size \in {n.size, d.size}
  BY <1>5
<1> QED  BY <1>6, <1>7, <1>8, <1>9, <1>10, <1>5 DEF Loaded

LEMMA RoomSound ==
  ASSUME NEW d, CacheOK(d), NEW n \in InodeRecord, NEW l \in Logical, NEW r,
         RoomForIt(d, n, l, r)
  PROVE  Loaded(d, n, l, r)
<1> DEFINE s == d.valid + 1
           g == [d EXCEPT !.valid = s]
           rec == [index |-> l, words |-> DiskWords(n, l), dirty |-> FALSE]
<1>1. /\ d \in Descriptor /\ d.valid \in 0 .. CacheClusters
      /\ d.valid < CacheClusters /\ Stamps(d.recent, d.valid)
  BY DEF CacheOK, Descriptor, RoomForIt, Ordered
<1>2. /\ g \in Descriptor /\ SameFile(d, g)
      /\ g.valid = s /\ g.recent = d.recent /\ g.slot = d.slot
      /\ s \in Slot /\ ~d.slot[s].dirty
  BY <1>1, SlotAdded
<1>3. \A t \in 1 .. d.valid : d.slot[t].index # l
  BY DEF RoomForIt, Holding
<1>4. r.n = n /\ r.s = s
  BY DEF RoomForIt
<1>5. \A t \in Slot : d.slot[t].dirty => t \in 1 .. d.valid
  BY <1>1 DEF CacheOK, Flushable, Slot
<1>6. CASE Readable(n, l) /\ r.ok = TRUE /\ r.d = Filled(g, n, l, s)
  <2>1. rec \in SlotRecord
    BY <1>6, DiskWordsType DEF SlotRecord
  <2>2. Stamps(Append(RemoveFirst(d.recent, s), s), s)
    BY <1>1, TouchNew
  <2> DEFINE e == r.d
  <2>3. e = Touch([g EXCEPT !.slot[s] = rec], s)
    BY <1>6 DEF Filled
  <2>4. rec.index = l /\ rec.dirty = FALSE
    OBVIOUS
  <2> HIDE DEF g, rec, s
  <2>5. Stamps(Append(RemoveFirst(g.recent, s), s), g.valid)
    BY <1>2, <2>2
  <2>6. /\ e \in Descriptor /\ SameFile(g, e) /\ e.valid = s
        /\ Ordered(e)
        /\ \A t \in Slot : e.slot[t] = IF t = s THEN rec ELSE d.slot[t]
    BY <1>2, <2>1, <2>3, <2>5, SlotFilled
  <2> HIDE DEF e
  <2>7. s = d.valid + 1 /\ s \in 1 .. CacheClusters
    BY <1>2 DEF s, Slot
  <2>8. ASSUME NEW t \in 1 .. s
        PROVE  /\ t \in Slot
               /\ t # s => /\ t \in 1 .. d.valid /\ e.slot[t] = d.slot[t]
                           /\ e.slot[t].index # l
    BY <1>1, <1>3, <2>6, <2>7, Sizes DEF Slot
  <2>9. e.slot[s] = rec
    BY <1>2, <2>6
  <2>10. Flushable(e)
    <3>1. ASSUME NEW t \in Slot, e.slot[t].dirty
          PROVE  t <= e.valid
      <4>1. t # s
        BY <2>4, <2>9, <3>1
      <4>2. d.slot[t].dirty
        BY <2>6, <3>1, <4>1
      <4> QED  BY <1>1, <1>5, <2>6, <2>7, <4>2
    <3>2. ASSUME NEW t \in 1 .. s, NEW u \in 1 .. s,
                 e.slot[t].dirty, e.slot[u].index = e.slot[t].index
          PROVE  t <= u
      <4>1. t # s
        BY <2>4, <2>9, <3>2
      <4>2. CASE u = s
        BY <2>4, <2>8, <2>9, <3>2, <4>1, <4>2
      <4>3. CASE u # s
        BY <2>8, <3>2, <4>1, <4>3 DEF CacheOK, Flushable
      <4> QED  BY <4>2, <4>3
    <3> QED  BY <2>6, <3>1, <3>2 DEF Flushable
  <2>11. CacheOK(e) /\ SameFile(d, e)
    BY <1>2, <2>6, <2>10 DEF CacheOK, SameFile
  <2>12. \A t \in 1 .. s : e.slot[t].index = l => s <= t
    BY <2>7, <2>8
  <2>13. ASSUME NEW t \in Slot, d.slot[t].dirty
         PROVE  e.slot[t] = d.slot[t]
    BY <1>1, <1>5, <2>6, <2>7, <2>13
  <2>14. n.size \in {n.size, d.size} /\ d.valid <= s /\ s \in 1 .. s
    BY <1>1, <2>7
  <2>15. e.slot[s].index = l
    BY <2>4, <2>9
  <2> QED  BY <1>4, <1>6, <2>6, <2>11, <2>12, <2>13, <2>14, <2>15 DEF Loaded, e
<1>7. CASE r.ok = FALSE /\ r.d = g
  <2>1. Stamps(d.recent, s)
    BY <1>1, StampsStay
  <2>2. s = d.valid + 1
    OBVIOUS
  <2> HIDE DEF g, s
  <2>3. Ordered(g)
    BY <1>2, <2>1 DEF Ordered
  <2>4. Flushable(g)
    <3>1. ASSUME NEW t \in 1 .. s, NEW u \in 1 .. s,
                 d.slot[t].dirty, d.slot[u].index = d.slot[t].index
          PROVE  t <= u
      <4>1. t \in 1 .. d.valid
        BY <1>1, <1>2, <1>5, <2>2, <3>1 DEF Slot
      <4>2. CASE u = s
        BY <1>1, <2>2, <4>1, <4>2
      <4>3. CASE u # s
        BY <1>1, <2>2, <3>1, <4>1, <4>3 DEF CacheOK, Flushable
      <4> QED  BY <4>2, <4>3
    <3>2. \A t \in Slot : d.slot[t].dirty => t <= s
      BY <1>1, <1>5, <2>2
    <3> QED  BY <1>2, <3>1, <3>2 DEF Flushable
  <2>5. CacheOK(g)
    BY <1>2, <2>3, <2>4 DEF CacheOK
  <2>6. d.valid <= s /\ n.size \in {n.size, d.size}
    BY <1>1, <2>2
  <2> QED  BY <1>2, <1>4, <1>7, <2>5, <2>6 DEF Loaded
<1> QED  BY <1>6, <1>7 DEF RoomForIt

\* A flush of one slot.
LEMMA FlushSlotKeeps ==
  ASSUME NEW d, CacheOK(d), NEW n \in InodeRecord, NEW budget,
         NEW s \in 1 .. d.valid, NEW r \in FlushSlot(d, n, budget, s)
  PROVE  /\ Flushed(d, n, r.d, r.n, {s})
         /\ r.ok \in BOOLEAN
         /\ r.ok => ~r.d.slot[s].dirty
         /\ r.ok => r.n = Store(d, n, Dirty(d, {s}))
<1>1. d.valid \in 0 .. CacheClusters
  BY DEF CacheOK, Descriptor
<1>2. s \in Slot /\ s \in s - 1 .. d.valid /\ s .. s = {s}
  BY <1>1, Sizes DEF Slot
<1>3. r \in Flush(d, n, budget, s, s)
  BY DEF FlushSlot
<1>4. /\ Flushed(d, n, r.d, r.n, s .. s)
      /\ r.ok \in BOOLEAN
      /\ r.ok => /\ \A t \in s .. s : ~r.d.slot[t].dirty
                 /\ r.n = Store(d, n, Dirty(d, s .. s))
  BY <1>2, <1>3, FlushKeeps
<1> QED  BY <1>2, <1>4

\* What a flush has not written back is still to be written back, and what it
\* has written is on the disk.
LEMMA FlushedKeeps ==
  ASSUME NEW d, CacheOK(d), NEW n \in InodeRecord, NEW e, NEW m,
         NEW S \in SUBSET (1 .. d.valid), Flushed(d, n, e, m, S),
         NEW s \in Slot, d.slot[s].dirty
  PROVE  \/ e.slot[s].dirty
         \/ s \in S /\ m.blocks[d.slot[s].index] = d.slot[s].words
<1>1. PICK F \in SUBSET Dirty(d, S) :
        /\ Stored(d, n, m, F)
        /\ \A t \in Slot : e.slot[t].dirty = (d.slot[t].dirty /\ t \notin F)
  BY DEF Flushed
<1>2. CASE s \notin F
  BY <1>1, <1>2
<1>3. CASE s \in F
  <2> DEFINE l == d.slot[s].index
  <2>1. l \in Logical /\ d.valid \in 0 .. CacheClusters
    BY DEF CacheOK, Descriptor, SlotRecord
  <2>2. PICK t \in F : d.slot[t].index = l /\ m.blocks[l] = d.slot[t].words
    BY <1>1, <1>3, <2>1 DEF Stored
  <2>3. s \in S /\ t \in S /\ d.slot[t].dirty
    BY <1>1, <1>3 DEF Dirty
  <2>4. s \in 1 .. d.valid /\ t \in 1 .. d.valid
    BY <2>3
  <2>5. s <= t /\ t <= s
    BY <2>2, <2>3, <2>4 DEF CacheOK, Flushable
  <2>6. s = t
    BY <2>1, <2>4, <2>5
  <2> QED  BY <2>2, <2>3, <2>6
<1> QED  BY <1>2, <1>3

LEMMA OldestSound ==
  ASSUME NEW d, CacheOK(d), NEW n \in InodeRecord, NEW l \in Logical, NEW r,
         NEW budget, OldestGoes(d, n, budget, l, r)
  PROVE  Loaded(d, n, l, r)
<1> DEFINE o == r.s
<1>1. /\ d \in Descriptor /\ d.valid \in 0 .. CacheClusters
      /\ d.valid = CacheClusters /\ CacheClusters \in Nat \ {0}
  BY Sizes DEF CacheOK, Descriptor, OldestGoes
<1>2. o \in 1 .. d.valid /\ o \in Slot /\ Slot = 1 .. d.valid
  BY <1>1, OldestIs DEF OldestGoes, Slot
<1> HIDE DEF o
<1>3. PICK q \in FlushSlot(d, n, budget, o) :
        /\ r.n = q.n /\ r.s = o
        /\ \/ /\ q.ok /\ Readable(q.n, l) /\ r.ok = TRUE
              /\ r.d = Filled(q.d, q.n, l, o)
           \/ r.ok = FALSE /\ r.d = q.d
  BY DEF OldestGoes, o
<1> DEFINE e == q.d
           m == q.n
<1>4. /\ Flushed(d, n, e, m, {o})
      /\ q.ok => ~e.slot[o].dirty
  BY <1>2, <1>3, FlushSlotKeeps
<1>5. \A s \in Slot : d.slot[s].index # l
  BY <1>2 DEF OldestGoes, Holding
<1> HIDE DEF e, m
<1>6. /\ CacheOK(e) /\ SameFile(d, e) /\ e.valid = d.valid
      /\ \A s \in Slot : e.slot[s].index = d.slot[s].index
                         /\ e.slot[s].words = d.slot[s].words
      /\ m \in InodeRecord /\ m.used = n.used /\ m.size \in {n.size, d.size}
  BY <1>4 DEF Flushed, Stored
<1>7. ASSUME NEW s \in Slot, d.slot[s].dirty
      PROVE  \/ e.slot[s].dirty
             \/ s = o /\ m.blocks[d.slot[s].index] = d.slot[s].words
  <2>1. {o} \in SUBSET (1 .. d.valid)
    BY <1>2
  <2>2. \/ e.slot[s].dirty
        \/ s \in {o} /\ m.blocks[d.slot[s].index] = d.slot[s].words
    BY <1>4, <1>7, <2>1, FlushedKeeps
  <2> QED  BY <2>2
<1>8. CASE r.ok = FALSE /\ r.d = e
  <2>1. d.valid <= e.valid
    BY <1>1, <1>6
  <2> QED  BY <1>3, <1>5, <1>6, <1>7, <1>8, <2>1 DEF Loaded, m
<1>9. CASE q.ok /\ Readable(m, l) /\ r.ok = TRUE /\ r.d = Filled(e, m, l, o)
  <2> DEFINE rec == [index |-> l, words |-> DiskWords(m, l), dirty |-> FALSE]
             g == r.d
  <2>1. rec \in SlotRecord
    BY <1>6, <1>9, DiskWordsType DEF SlotRecord
  <2>2. rec.index = l /\ rec.dirty = FALSE
    OBVIOUS
  <2>3. g = Touch([e EXCEPT !.slot[o] = rec], o)
    BY <1>9 DEF Filled
  <2>4. e \in Descriptor /\ Stamps(e.recent, e.valid) /\ e.valid \in 0 .. CacheClusters
        /\ o \in 1 .. e.valid
    BY <1>1, <1>2, <1>6 DEF CacheOK, Ordered
  <2>5. Stamps(Append(RemoveFirst(e.recent, o), o), e.valid)
    BY <2>4, TouchHeld
  <2> HIDE DEF rec
  <2>6. /\ g \in Descriptor /\ SameFile(e, g) /\ g.valid = e.valid
        /\ Ordered(g)
        /\ \A t \in Slot : g.slot[t] = IF t = o THEN rec ELSE e.slot[t]
    BY <1>2, <2>1, <2>3, <2>4, <2>5, SlotFilled
  <2> HIDE DEF g
  <2>7. g.slot[o] = rec /\ \A t \in Slot : t # o => g.slot[t] = e.slot[t]
    BY <1>2, <2>6
  <2>8. Flushable(g)
    <3>1. ASSUME NEW t \in Slot, g.slot[t].dirty
          PROVE  t <= g.valid
      BY <1>1, <1>2, <1>6, <2>6
    <3>2. ASSUME NEW t \in 1 .. g.valid, NEW u \in 1 .. g.valid,
                 g.slot[t].dirty, g.slot[u].index = g.slot[t].index
          PROVE  t <= u
      <4>1. t \in Slot /\ u \in Slot /\ t # o
        BY <1>2, <1>6, <2>2, <2>6, <2>7, <3>2
      <4>2. u # o
        BY <1>5, <1>6, <2>2, <2>7, <3>2, <4>1
      <4>3. e.slot[t].dirty /\ e.slot[u].index = e.slot[t].index
        BY <2>7, <3>2, <4>1, <4>2
      <4> QED  BY <1>6, <2>6, <4>3 DEF CacheOK, Flushable
    <3> QED  BY <3>1, <3>2 DEF Flushable
  <2>9. CacheOK(g) /\ SameFile(d, g)
    BY <1>6, <2>6, <2>8 DEF CacheOK, SameFile
  <2>10. /\ o \in 1 .. g.valid /\ d.valid <= g.valid
         /\ g.slot[o].index = l
         /\ \A t \in 1 .. g.valid : g.slot[t].index = l => o <= t
    <3>1. ASSUME NEW t \in 1 .. g.valid, g.slot[t].index = l
          PROVE  o <= t
      <4>1. t \in Slot
        BY <1>2, <1>6, <2>6
      <4>2. t = o
        BY <1>5, <1>6, <2>7, <3>1, <4>1
      <4> QED  BY <1>1, <1>2, <4>2
    <3> QED  BY <1>1, <1>2, <1>6, <2>2, <2>6, <2>7, <3>1
  <2>11. ASSUME NEW s \in Slot, d.slot[s].dirty
         PROVE  \/ /\ d.slot[s].index # l
                   /\ m.blocks[d.slot[s].index] = d.slot[s].words
                \/ /\ g.slot[s].index = d.slot[s].index
                   /\ g.slot[s].words = d.slot[s].words
                   /\ g.slot[s].dirty
    <3>1. CASE s = o
      <4>1. ~e.slot[s].dirty
        BY <1>4, <1>9, <3>1
      <4> QED  BY <1>5, <1>7, <2>11, <4>1
    <3>2. CASE s # o
      <4>1. e.slot[s].dirty
        BY <1>7, <2>11, <3>2
      <4> QED  BY <1>6, <2>7, <3>2, <4>1
    <3> QED  BY <3>1, <3>2
  <2> QED  BY <1>3, <1>6, <1>9, <2>9, <2>10, <2>11 DEF Loaded, g, m
<1> QED  BY <1>3, <1>8, <1>9 DEF e, m

LEMMA LoadSound ==
  ASSUME NEW d, CacheOK(d), NEW n \in InodeRecord, NEW budget, NEW l \in Logical,
         NEW r \in Load(d, n, budget, l)
  PROVE  Loaded(d, n, l, r)
<1>1. \/ FoundThere(d, n, l, r) \/ RoomForIt(d, n, l, r)
      \/ OldestGoes(d, n, budget, l, r)
  BY LoadCases
<1> QED  BY <1>1, FoundSound, RoomSound, OldestSound

\* Reading ahead gives at most one more slot its content.
LEMMA PrefetchSound ==
  ASSUME NEW d, CacheOK(d), NEW n \in InodeRecord, NEW l \in Logical,
         NEW e \in Prefetch(d, n, l)
  PROVE  /\ CacheOK(e) /\ SameFile(d, e) /\ d.valid <= e.valid
         /\ \A s \in Slot : d.slot[s].dirty => e.slot[s] = d.slot[s]
         /\ e = d \/ \E r : RoomForIt(d, n, l, r) /\ r.ok = TRUE /\ r.d = e
<1>1. d \in Descriptor /\ d.valid \in 0 .. CacheClusters
  BY DEF CacheOK, Descriptor
<1>2. CASE e = d
  BY <1>1, <1>2 DEF SameFile
<1>3. CASE e # d
  <2> DEFINE s == d.valid + 1
             grown == [d EXCEPT !.valid = @ + 1]
             alone == {d}
  <2>1. Holding(d, l) = {} /\ d.valid # CacheClusters
        /\ e \in {r.d : r \in Fill(grown, n, l, s, alone)}
    BY <1>3 DEF Prefetch
  <2>2. grown = [d EXCEPT !.valid = s]
    OBVIOUS
  <2> HIDE DEF grown, s, alone
  <2>3. PICK r \in Fill(grown, n, l, s, alone) : e = r.d
    BY <2>1
  <2>4. /\ r.n = n /\ r.s = s
        /\ \/ Readable(n, l) /\ r.ok = TRUE /\ r.d = Filled(grown, n, l, s)
           \/ /\ DiskFaults \/ ~Readable(n, l)
              /\ r.ok = FALSE /\ r.d \in alone
    BY <2>3, FillIs
  <2>5. /\ r.n = n /\ r.s = s
        /\ Readable(n, l) /\ r.ok = TRUE /\ r.d = Filled(grown, n, l, s)
    BY <1>3, <2>3, <2>4 DEF alone
  <2>6. d.valid < CacheClusters
    BY <1>1, <2>1, Sizes
  <2>7. RoomForIt(d, n, l, r)
    BY <2>1, <2>2, <2>5, <2>6, Zenon DEF RoomForIt, s
  <2>8. Loaded(d, n, l, r)
    BY <2>7, RoomSound
  <2>9. \A t \in Slot : d.slot[t].dirty => e.slot[t] = d.slot[t]
    <3> DEFINE rec == [index |-> l, words |-> DiskWords(n, l), dirty |-> FALSE]
    <3>1. /\ grown \in Descriptor /\ grown.valid = s /\ grown.recent = d.recent
          /\ grown.slot = d.slot
          /\ s \in Slot /\ ~d.slot[s].dirty
      BY <2>2, <2>6, SlotAdded DEF s
    <3>2. rec \in SlotRecord
      BY <2>5, DiskWordsType DEF SlotRecord
    <3>3. Stamps(Append(RemoveFirst(d.recent, s), s), s)
      BY <1>1, <2>6, TouchNew DEF CacheOK, Ordered, s
    <3>4. e = Touch([grown EXCEPT !.slot[s] = rec], s)
      BY <2>3, <2>5 DEF Filled
    <3> HIDE DEF rec
    <3>5. Stamps(Append(RemoveFirst(grown.recent, s), s), grown.valid)
      BY <3>1, <3>3
    <3>6. \A t \in Slot : e.slot[t] = IF t = s THEN rec ELSE grown.slot[t]
      BY <3>1, <3>2, <3>4, <3>5, SlotFilled
    <3> QED  BY <3>1, <3>6
  <2> QED  BY <2>3, <2>5, <2>7, <2>8, <2>9 DEF Loaded
<1> QED  BY <1>2, <1>3

------------------------------------------------------------------------------
(***************************************************************************)
(* The calls keep the invariant, and what was accepted survives them.      *)
(***************************************************************************)
Survives(f, s) ==
  LET l == fds[f].slot[s].index
      disk == inodes'[fds[f].inode].blocks[l]
  IN  \/ disk = fds[f].slot[s].words
      \/ \E t \in 1 .. fds'[f].valid :
           /\ fds'[f].slot[t].index = l
           /\ fds'[f].slot[t].dirty \/ fds'[f].slot[t].words = disk

Accepted == \A f \in Fd, s \in Slot : fds[f].slot[s].dirty => Survives(f, s)

\* The words of d, when its cache becomes that of e and its inode m.
Carried(d, e, m) ==
  \A s \in Slot : d.slot[s].dirty =>
    LET l == d.slot[s].index
    IN  \/ m.blocks[l] = d.slot[s].words
        \/ \E t \in 1 .. e.valid :
             /\ e.slot[t].index = l
             /\ e.slot[t].dirty \/ e.slot[t].words = m.blocks[l]

LEMMA ValidSlots ==
  ASSUME IInv, NEW f \in Fd, NEW s \in Slot, fds[f].slot[s].dirty
  PROVE  s \in 1 .. fds[f].valid /\ fds[f].open
<1>1. fds[f] \in Descriptor /\ Flushable(fds[f])
  BY DEF IInv, CacheOK
<1>2. s <= fds[f].valid /\ fds[f].valid \in 0 .. CacheClusters
  BY <1>1 DEF Flushable, Descriptor
<1>3. fds[f].open
  BY DEF IInv
<1> QED  BY <1>2, <1>3, Sizes DEF Slot

\* A step on one descriptor and its inode.
LEMMA OneFile ==
  ASSUME IInv, NEW f \in Fd, NEW e, NEW m \in InodeRecord,
         m.used = inodes[fds[f].inode].used,
         CacheOK(e),
         e.open => e.inode = fds[f].inode /\ fds[f].open,
         ~e.open => \A s \in Slot : ~e.slot[s].dirty,
         fds' = [fds EXCEPT ![f] = e],
         inodes' = [inodes EXCEPT ![fds[f].inode] = m],
         CallOK', ret'.status \in {"none", "ok", "error"}
  PROVE  IInv' /\ (Carried(fds[f], e, m) => Accepted)
<1> DEFINE i == fds[f].inode
<1>1. /\ inodes \in [Inode -> InodeRecord] /\ fds \in [Fd -> Descriptor]
      /\ \A g \in Fd :
           /\ CacheOK(fds[g])
           /\ fds[g].open => inodes[fds[g].inode].used
           /\ ~fds[g].open => \A s \in Slot : ~fds[g].slot[s].dirty
  BY DEF IInv
<1>2. i \in Inode /\ e \in Descriptor
  BY <1>1 DEF Descriptor, CacheOK
<1>3. /\ inodes' \in [Inode -> InodeRecord] /\ fds' \in [Fd -> Descriptor]
      /\ fds'[f] = e /\ \A g \in Fd : g # f => fds'[g] = fds[g]
      /\ inodes'[i] = m /\ \A j \in Inode : j # i => inodes'[j] = inodes[j]
  BY <1>1, <1>2
<1>4. \A j \in Inode : inodes'[j].used = inodes[j].used
  BY <1>3
<1>5. ASSUME NEW g \in Fd
      PROVE  /\ CacheOK(fds'[g])
             /\ fds'[g].open => inodes'[fds'[g].inode].used
             /\ ~fds'[g].open => \A s \in Slot : ~fds'[g].slot[s].dirty
  <2>1. CASE g = f
    BY <1>1, <1>2, <1>3, <1>4, <2>1
  <2>2. CASE g # f
    <3>1. fds[g].inode \in Inode
      BY <1>1 DEF Descriptor
    <3> QED  BY <1>1, <1>3, <1>4, <2>2, <3>1
  <2> QED  BY <2>1, <2>2
<1>6. IInv'
  BY <1>3, <1>5 DEF IInv, CacheOK, Descriptor, Ordered, Flushable, InodeRecord,
    SlotRecord, Stamps, Fd, Slot, Logical, Block, At, AllWords
<1>7. ASSUME Carried(fds[f], e, m), NEW g \in Fd, NEW s \in Slot, fds[g].slot[s].dirty
      PROVE  Survives(g, s)
  <2>1. CASE g = f
    BY <1>3, <1>7, <2>1 DEF Carried, Survives
  <2>2. CASE g # f
    <3>1. s \in 1 .. fds[g].valid
      BY <1>7, ValidSlots
    <3> QED  BY <1>3, <1>7, <2>2, <3>1 DEF Survives
  <2> QED  BY <2>1, <2>2
<1> QED  BY <1>6, <1>7 DEF Accepted

\* A call that does not touch the descriptors forgets nothing.
LEMMA Unmoved ==
  ASSUME IInv, UNCHANGED fds
  PROVE  Accepted
<1>1. ASSUME NEW f \in Fd, NEW s \in Slot, fds[f].slot[s].dirty
      PROVE  Survives(f, s)
  <2>1. s \in 1 .. fds[f].valid
    BY <1>1, ValidSlots
  <2> QED  BY <1>1, <2>1 DEF Survives
<1> QED  BY <1>1 DEF Accepted

LEMMA NoCallType == NoCall \in [op : {"none", "read", "write", "destroy"}, fd : Fd,
                                left : Nat, word : AllWords]
<1>1. 0 \in Fd /\ 0 \in AllWords
  BY Sizes DEF Fd, AllWords
<1> QED  BY <1>1 DEF NoCall

\* Between calls there is nothing a call must have room for.
LEMMA NothingRuns ==
  ASSUME IInv, \/ call' = NoCall
               \/ Idle /\ UNCHANGED call
  PROVE  CallOK'
<1>1. /\ call' \in [op : {"none", "read", "write", "destroy"}, fd : Fd,
                    left : Nat, word : AllWords]
      /\ call'.op = "none"
  <2>1. CASE call' = NoCall
    <3>1. NoCall.op = "none"
      BY DEF NoCall
    <3> QED  BY <2>1, <3>1, NoCallType
  <2>2. CASE Idle /\ UNCHANGED call
    BY <2>2 DEF IInv, CallOK, Idle
  <2> QED  BY <2>1, <2>2
<1>2. call' \in [op : {"none", "read", "write", "destroy"}, fd : Fd,
                 left : Nat, word : AllWords]'
  BY <1>1 DEF Fd, AllWords
<1> QED  BY <1>1, <1>2 DEF CallOK

LEMMA Statuses ==
  ASSUME NEW status
  PROVE  Return(status).status = status
BY DEF Return

\* A descriptor without valid slots has nothing to write back.
LEMMA NoValidSlots ==
  ASSUME NEW e \in Descriptor, e.valid = 0, e.recent = << >>,
         \A s \in Slot : ~e.slot[s].dirty
  PROVE  CacheOK(e)
<1>1. Stamps(<< >>, 0)
  BY DEF Stamps
<1>2. Ordered(e)
  BY <1>1 DEF Ordered
<1>3. Flushable(e)
  BY DEF Flushable
<1> QED  BY <1>2, <1>3 DEF CacheOK

LEMMA Fresh ==
  /\ FreshFd \in Descriptor /\ CacheOK(FreshFd)
  /\ FreshFd.open = FALSE /\ FreshFd.valid = 0 /\ FreshFd.recent = << >>
  /\ \A s \in Slot : ~FreshFd.slot[s].dirty
<1>1. (CHOOSE i \in Inode : TRUE) \in Inode
  BY SizesAssumption
<1>2. 0 \in 0 .. MaxWords /\ 0 \in 0 .. CacheClusters
  BY Sizes
<1>3. 0 \in Logical
  <2>1. 0 \div ClusterWords \in Logical
    BY <1>2, Place
  <2>2. 0 \div ClusterWords = 0
    BY Sizes
  <2> QED  BY <2>1, <2>2
<1>4. EmptySlot \in SlotRecord /\ EmptySlot.dirty = FALSE
  BY <1>3, ZerosType DEF EmptySlot, SlotRecord
<1> DEFINE slots == [s \in Slot |-> EmptySlot]
           c == CHOOSE i \in Inode : TRUE
<1>5. slots \in [Slot -> SlotRecord] /\ \A s \in Slot : ~slots[s].dirty
  BY <1>4
<1>6. FreshFd = [open |-> FALSE, inode |-> c, flags |-> {}, pos |-> 0, size |-> 0,
                 valid |-> 0, recent |-> << >>, slot |-> slots]
  BY DEF FreshFd
<1> HIDE DEF slots, c
<1>7. << >> \in Seq(Slot)
  OBVIOUS
<1>8. FreshFd \in Descriptor
  BY <1>1, <1>2, <1>5, <1>6, <1>7 DEF Descriptor, c
<1>9. /\ FreshFd.open = FALSE /\ FreshFd.valid = 0 /\ FreshFd.recent = << >>
      /\ FreshFd.slot = slots
  BY <1>6
<1>10. \A s \in Slot : ~FreshFd.slot[s].dirty
  BY <1>5, <1>9
<1> QED  BY <1>8, <1>9, <1>10, NoValidSlots

LEMMA NoFileType == NoFile \in InodeRecord /\ NoFile.used = FALSE
BY Sizes DEF NoFile, InodeRecord

\* fs_vfs_create_context.
LEMMA Initially == Init => IInv
<1> SUFFICES ASSUME Init PROVE IInv
  OBVIOUS
<1>1. inodes \in [Inode -> InodeRecord]
  BY NoFileType DEF Init
<1>2. fds \in [Fd -> Descriptor] /\ \A f \in Fd : fds[f] = FreshFd
  BY Fresh DEF Init
<1>3. CallOK
  <2>1. call = NoCall /\ NoCall.op = "none"
    BY DEF Init, NoCall
  <2> QED  BY <2>1, NoCallType DEF CallOK
<1>4. ret.status = "ok"
  BY Statuses DEF Init
<1> QED  BY <1>1, <1>2, <1>3, <1>4, Fresh DEF IInv

\* A flush of the whole cache.
LEMMA AllFlushed ==
  ASSUME NEW d, CacheOK(d), NEW n \in InodeRecord, NEW budget,
         NEW r \in FlushAll(d, n, budget)
  PROVE  /\ CacheOK(r.d) /\ SameFile(d, r.d)
         /\ r.n \in InodeRecord /\ r.n.used = n.used
         /\ r.ok => \A s \in Slot : ~r.d.slot[s].dirty
         /\ Carried(d, r.d, r.n)
         /\ r.ok => \A e, m : m.blocks = r.n.blocks => Carried(d, e, m)
<1> DEFINE S == 1 .. d.valid
<1>1. d \in Descriptor /\ d.valid \in 0 .. CacheClusters
  BY DEF CacheOK, Descriptor
<1>2. 1 \in Slot /\ d.valid \in 1 - 1 .. d.valid
  BY <1>1, Sizes DEF Slot
<1>3. r \in Flush(d, n, budget, 1, d.valid)
  BY DEF FlushAll
<1>4. /\ Flushed(d, n, r.d, r.n, S)
      /\ r.ok => \A s \in S : ~r.d.slot[s].dirty
  BY <1>2, <1>3, FlushKeeps
<1>5. /\ CacheOK(r.d) /\ SameFile(d, r.d) /\ r.d.valid = d.valid
      /\ \A s \in Slot : r.d.slot[s].index = d.slot[s].index
      /\ r.n \in InodeRecord /\ r.n.used = n.used
  BY <1>4 DEF Flushed, Stored
<1>6. \A s \in Slot : r.d.slot[s].dirty => s \in S
  <2>1. \A s \in Slot : r.d.slot[s].dirty => s <= d.valid
    BY <1>5 DEF CacheOK, Flushable
  <2> QED  BY <1>1, <2>1 DEF Slot
<1>7. ASSUME NEW s \in Slot, d.slot[s].dirty
      PROVE  \/ r.d.slot[s].dirty
             \/ r.n.blocks[d.slot[s].index] = d.slot[s].words
  <2>1. S \in SUBSET (1 .. d.valid)
    OBVIOUS
  <2> DEFINE e == r.d
             m == r.n
  <2>2. Flushed(d, n, e, m, S)
    BY <1>4
  <2> HIDE DEF S, e, m
  <2>3. \/ e.slot[s].dirty
        \/ s \in S /\ m.blocks[d.slot[s].index] = d.slot[s].words
    BY <1>7, <2>1, <2>2, FlushedKeeps
  <2> QED  BY <2>3 DEF e, m
<1> HIDE DEF S
<1>8. Carried(d, r.d, r.n)
  <2>1. ASSUME NEW s \in Slot, d.slot[s].dirty, r.d.slot[s].dirty
        PROVE  s \in 1 .. r.d.valid
    BY <1>5, <1>6, <2>1 DEF S
  <2> QED  BY <1>5, <1>7, <2>1 DEF Carried
<1>9. r.ok => \A s \in Slot : ~r.d.slot[s].dirty
  BY <1>4, <1>6
<1>10. r.ok => \A e, m : m.blocks = r.n.blocks => Carried(d, e, m)
  BY <1>7, <1>9 DEF Carried
<1> QED  BY <1>5, <1>8, <1>9, <1>10

\* What the calls start from.
LEMMA FileOf ==
  ASSUME IInv, NEW f \in Fd
  PROVE  /\ fds[f] \in Descriptor /\ CacheOK(fds[f])
         /\ fds[f].inode \in Inode /\ inodes[fds[f].inode] \in InodeRecord
         /\ fds[f].valid \in 0 .. CacheClusters
         /\ fds[f].pos \in 0 .. MaxWords /\ fds[f].size \in 0 .. MaxWords
         /\ fds[f].slot \in [Slot -> SlotRecord]
         /\ fds[f].open \in BOOLEAN
BY DEF IInv, Descriptor

LEMMA CloseKeeps ==
  ASSUME IInv, NEW f \in Fd, Close(f)
  PROVE  IInv' /\ Accepted
<1> DEFINE d == fds[f]
           n == inodes[d.inode]
           budget == Budget(d.inode)
<1>1. /\ CacheOK(d) /\ d \in Descriptor /\ n \in InodeRecord
      /\ d.size \in 0 .. MaxWords /\ d.open /\ Idle /\ UNCHANGED call
  BY FileOf DEF Close
<1>2. CallOK'
  BY <1>1, NothingRuns
<1>3. PICK r \in FlushAll(d, n, budget) :
        \/ /\ r.ok
           /\ inodes' = [inodes EXCEPT ![d.inode] = [r.n EXCEPT !.size = d.size]]
           /\ fds' = [fds EXCEPT ![f] = [FreshFd EXCEPT !.slot = r.d.slot]]
           /\ ret' = Return("ok")
        \/ /\ ~r.ok
           /\ inodes' = [inodes EXCEPT ![d.inode] = r.n]
           /\ fds' = [fds EXCEPT ![f] = r.d]
           /\ ret' = Return("error")
  BY DEF Close
<1>4. ret'.status \in {"none", "ok", "error"}
  BY <1>3, Statuses
<1> HIDE DEF budget
<1>5. /\ CacheOK(r.d) /\ SameFile(d, r.d)
      /\ r.n \in InodeRecord /\ r.n.used = n.used
      /\ r.ok => \A s \in Slot : ~r.d.slot[s].dirty
      /\ Carried(d, r.d, r.n)
      /\ r.ok => \A e, m : m.blocks = r.n.blocks => Carried(d, e, m)
  BY <1>1, AllFlushed
<1>6. CASE /\ r.ok
           /\ inodes' = [inodes EXCEPT ![d.inode] = [r.n EXCEPT !.size = d.size]]
           /\ fds' = [fds EXCEPT ![f] = [FreshFd EXCEPT !.slot = r.d.slot]]
  <2> DEFINE e == [FreshFd EXCEPT !.slot = r.d.slot]
             m == [r.n EXCEPT !.size = d.size]
  <2>1. /\ e \in Descriptor /\ e.open = FALSE /\ e.valid = 0 /\ e.recent = << >>
        /\ e.slot = r.d.slot
    BY <1>5, Fresh DEF CacheOK, Descriptor
  <2>2. m \in InodeRecord /\ m.used = r.n.used /\ m.blocks = r.n.blocks
    BY <1>1, <1>5 DEF InodeRecord
  <2>3. fds' = [fds EXCEPT ![f] = e] /\ inodes' = [inodes EXCEPT ![d.inode] = m]
    BY <1>6
  <2> HIDE DEF e, m
  <2>4. CacheOK(e) /\ \A s \in Slot : ~e.slot[s].dirty
    BY <1>5, <1>6, <2>1, NoValidSlots
  <2>5. Carried(d, e, m)
    BY <1>5, <1>6, <2>2
  <2>6. m.used = n.used
    BY <1>5, <2>2
  <2> QED  BY <1>2, <1>4, <2>1, <2>2, <2>3, <2>4, <2>5, <2>6, OneFile
<1>7. CASE /\ ~r.ok
           /\ inodes' = [inodes EXCEPT ![d.inode] = r.n]
           /\ fds' = [fds EXCEPT ![f] = r.d]
  <2> DEFINE e == r.d
             m == r.n
  <2>1. fds' = [fds EXCEPT ![f] = e] /\ inodes' = [inodes EXCEPT ![d.inode] = m]
    BY <1>7
  <2>2. /\ CacheOK(e) /\ m \in InodeRecord /\ m.used = n.used /\ Carried(d, e, m)
        /\ e.open /\ e.inode = d.inode
    BY <1>1, <1>5 DEF SameFile
  <2> HIDE DEF e, m
  <2> QED  BY <1>1, <1>2, <1>4, <2>1, <2>2, OneFile
<1> QED  BY <1>3, <1>6, <1>7

LEMMA SeekKeeps ==
  ASSUME IInv, NEW f \in Fd, NEW p \in 0 .. MaxWords, Seek(f, p)
  PROVE  IInv' /\ Accepted
<1> DEFINE d == fds[f]
           n == inodes[d.inode]
           budget == Budget(d.inode)
<1>1. /\ CacheOK(d) /\ d \in Descriptor /\ n \in InodeRecord /\ d.open /\ Idle
      /\ UNCHANGED call /\ inodes \in [Inode -> InodeRecord] /\ d.inode \in Inode
      /\ fds \in [Fd -> Descriptor]
  BY FileOf DEF Seek, IInv
<1>2. CallOK'
  BY <1>1, NothingRuns
<1>3. CASE /\ fds' = [fds EXCEPT ![f].pos = p]
           /\ ret' = Return("ok")
           /\ UNCHANGED inodes
  <2> DEFINE e == [d EXCEPT !.pos = p]
  <2>1. /\ e \in Descriptor /\ e.open = d.open /\ e.inode = d.inode
        /\ e.valid = d.valid /\ e.recent = d.recent /\ e.slot = d.slot
    BY <1>1 DEF Descriptor
  <2>2. fds' = [fds EXCEPT ![f] = e] /\ inodes' = [inodes EXCEPT ![d.inode] = n]
    BY <1>1, <1>3
  <2>3. ret'.status \in {"none", "ok", "error"}
    BY <1>3, Statuses
  <2> HIDE DEF e
  <2>4. CacheOK(e)
    BY <1>1, <2>1 DEF CacheOK, Ordered, Flushable
  <2>5. Carried(d, e, n)
    <3>1. \A s \in Slot : d.slot[s].dirty => s \in 1 .. d.valid
      BY ValidSlots
    <3> QED  BY <2>1, <3>1 DEF Carried
  <2> QED  BY <1>1, <1>2, <2>1, <2>2, <2>3, <2>4, <2>5, OneFile
<1>4. CASE \E r \in FlushAll(d, n, budget) :
             /\ inodes' = [inodes EXCEPT ![d.inode] = r.n]
             /\ fds' = [fds EXCEPT ![f] =
                  IF r.ok THEN [r.d EXCEPT !.valid = 0, !.recent = << >>, !.pos = p]
                          ELSE r.d]
             /\ ret' = Return(IF r.ok THEN "ok" ELSE "error")
  <2>1. PICK r \in FlushAll(d, n, budget) :
             /\ inodes' = [inodes EXCEPT ![d.inode] = r.n]
             /\ fds' = [fds EXCEPT ![f] =
                  IF r.ok THEN [r.d EXCEPT !.valid = 0, !.recent = << >>, !.pos = p]
                          ELSE r.d]
             /\ ret' = Return(IF r.ok THEN "ok" ELSE "error")
    BY <1>4
  <2> HIDE DEF budget
  <2>2. /\ CacheOK(r.d) /\ SameFile(d, r.d)
        /\ r.n \in InodeRecord /\ r.n.used = n.used
        /\ r.ok => \A s \in Slot : ~r.d.slot[s].dirty
        /\ Carried(d, r.d, r.n)
        /\ r.ok => \A e, m : m.blocks = r.n.blocks => Carried(d, e, m)
    BY <1>1, AllFlushed
  <2>3. ret'.status \in {"none", "ok", "error"}
    BY <2>1, Statuses
  <2> DEFINE g == r.d
             m == r.n
             e == [g EXCEPT !.valid = 0, !.recent = << >>, !.pos = p]
  <2>4. g \in Descriptor /\ g.open /\ g.inode = d.inode
    BY <1>1, <2>2 DEF CacheOK, SameFile
  <2>5. CASE r.ok
    <3>1. fds' = [fds EXCEPT ![f] = e] /\ inodes' = [inodes EXCEPT ![d.inode] = m]
      BY <2>1, <2>5
    <3> HIDE DEF g
    <3>2. 0 \in 0 .. CacheClusters /\ << >> \in Seq(Slot)
      BY Sizes
    <3>3. /\ e \in Descriptor /\ e.open = g.open /\ e.inode = g.inode
          /\ e.valid = 0 /\ e.recent = << >> /\ e.slot = g.slot
      BY <2>4, <3>2 DEF Descriptor
    <3> HIDE DEF e
    <3>4. CacheOK(e)
      BY <2>2, <2>5, <3>3, NoValidSlots DEF g
    <3>5. Carried(d, e, m)
      BY <2>2, <2>5
    <3>6. m \in InodeRecord /\ m.used = n.used /\ e.open /\ e.inode = d.inode
      BY <2>2, <2>4, <3>3
    <3> HIDE DEF m
    <3> QED  BY <1>1, <1>2, <2>3, <3>1, <3>4, <3>5, <3>6, OneFile
  <2>6. CASE ~r.ok
    <3>1. fds' = [fds EXCEPT ![f] = g] /\ inodes' = [inodes EXCEPT ![d.inode] = m]
      BY <2>1, <2>6
    <3>2. CacheOK(g) /\ m \in InodeRecord /\ m.used = n.used /\ Carried(d, g, m)
      BY <2>2
    <3> HIDE DEF g, m
    <3> QED  BY <1>1, <1>2, <2>3, <2>4, <3>1, <3>2, OneFile
  <2> QED  BY <2>5, <2>6
<1> QED  BY <1>3, <1>4 DEF Seek

LEMMA RemoveFileKeeps ==
  ASSUME IInv, NEW i \in Inode, RemoveFile(i)
  PROVE  IInv' /\ Accepted
<1>1. /\ Idle /\ OpenOn(i) = {} /\ inodes' = [inodes EXCEPT ![i] = NoFile]
      /\ ret' = Return("ok") /\ UNCHANGED <<fds, call>>
  BY DEF RemoveFile
<1>2. CallOK'
  BY <1>1, NothingRuns
<1>3. ret'.status \in {"none", "ok", "error"}
  BY <1>1, Statuses
<1>4. /\ inodes' \in [Inode -> InodeRecord]
      /\ \A j \in Inode : j # i => inodes'[j] = inodes[j]
  BY <1>1, NoFileType DEF IInv
<1>5. ASSUME NEW f \in Fd
      PROVE  /\ CacheOK(fds'[f])
             /\ fds'[f].open => inodes'[fds'[f].inode].used
             /\ ~fds'[f].open => \A s \in Slot : ~fds'[f].slot[s].dirty
  <2>1. fds[f].open => fds[f].inode # i
    BY <1>1 DEF OpenOn
  <2>2. fds[f].inode \in Inode
    BY FileOf
  <2> QED  BY <1>1, <1>4, <2>1, <2>2 DEF IInv
<1>6. fds' \in [Fd -> Descriptor]
  BY <1>1 DEF IInv
<1>7. IInv'
  BY <1>2, <1>3, <1>4, <1>5, <1>6 DEF IInv, CacheOK, Descriptor, Ordered, Flushable,
    InodeRecord, SlotRecord, Stamps, Fd, Slot, Logical, Block, At, AllWords
<1> QED  BY <1>1, <1>7, Unmoved

LEMMA OpenKeeps ==
  ASSUME IInv, NEW i \in Inode, NEW flags \in OpenFlags, Open(i, flags)
  PROVE  IInv' /\ Accepted
<1> DEFINE n == inodes[i]
           new == ~n.used \/ {"truncate", "write"} \subseteq flags
           m == IF new THEN [NoFile EXCEPT !.used = TRUE] ELSE n
           closed == {f \in Fd : ~fds[f].open}
           g == First(closed)
           e == [FreshFd EXCEPT !.open = TRUE, !.inode = i, !.flags = flags,
                                !.pos = IF "append" \in flags THEN m.size ELSE 0,
                                !.size = m.size, !.slot = fds[g].slot]
<1>1. /\ Idle /\ UNCHANGED call /\ inodes' = [inodes EXCEPT ![i] = m]
      /\ \/ /\ ret' = Return("error")
            /\ UNCHANGED fds
         \/ /\ closed # {}
            /\ fds' = [fds EXCEPT ![g] = e]
            /\ ret' = Return("ok")
  BY Zenon DEF Open
<1>2. CallOK'
  BY <1>1, NothingRuns
<1>3. ret'.status \in {"none", "ok", "error"}
  BY <1>1, Statuses
<1>4. m \in InodeRecord /\ m.used
  <2>1. n \in InodeRecord
    BY DEF IInv
  <2>2. CASE new
    <3>1. m = [NoFile EXCEPT !.used = TRUE]
      BY <2>2
    <3> QED  BY <3>1, NoFileType DEF InodeRecord
  <2>3. CASE ~new
    BY <2>1, <2>3 DEF InodeRecord
  <2> QED  BY <2>2, <2>3
<1> HIDE DEF m, g
<1>5. /\ inodes' \in [Inode -> InodeRecord] /\ inodes'[i] = m
      /\ \A j \in Inode : j # i => inodes'[j] = inodes[j]
  BY <1>1, <1>4 DEF IInv
<1>6. \A j \in Inode : inodes[j].used => inodes'[j].used
  BY <1>4, <1>5
<1>7. CASE UNCHANGED fds
  <2>1. ASSUME NEW f \in Fd
        PROVE  /\ CacheOK(fds'[f])
               /\ fds'[f].open => inodes'[fds'[f].inode].used
               /\ ~fds'[f].open => \A s \in Slot : ~fds'[f].slot[s].dirty
    <3>1. fds[f].inode \in Inode
      BY FileOf
    <3> QED  BY <1>6, <1>7, <3>1 DEF IInv
  <2>2. fds' \in [Fd -> Descriptor]
    BY <1>7 DEF IInv
  <2>3. IInv'
    BY <1>2, <1>3, <1>5, <2>1, <2>2 DEF IInv, CacheOK, Descriptor, Ordered, Flushable,
      InodeRecord, SlotRecord, Stamps, Fd, Slot, Logical, Block, At, AllWords
  <2> QED  BY <1>7, <2>3, Unmoved
<1>8. CASE closed # {} /\ fds' = [fds EXCEPT ![g] = e]
  <2>1. g \in Fd /\ ~fds[g].open
    <3>1. closed \in SUBSET Nat /\ closed # {}
      BY <1>8, Sizes DEF Fd
    <3> HIDE DEF closed
    <3>2. g \in closed
      BY <3>1, FirstIs DEF g
    <3> QED  BY <3>2 DEF closed
  <2> DEFINE size == m.size
             pos == IF "append" \in flags THEN size ELSE 0
             slot == fds[g].slot
  <2>2. /\ slot \in [Slot -> SlotRecord] /\ \A s \in Slot : ~slot[s].dirty
        /\ size \in 0 .. MaxWords /\ pos \in 0 .. MaxWords
        /\ flags \in SUBSET Flags
    <3>1. slot \in [Slot -> SlotRecord] /\ \A s \in Slot : ~slot[s].dirty
      BY <2>1, FileOf DEF IInv
    <3>2. size \in 0 .. MaxWords
      BY <1>4 DEF InodeRecord
    <3>3. pos \in 0 .. MaxWords
      BY <3>2, Sizes
    <3>4. flags \in SUBSET Flags
      BY FlagsAssumption DEF Flags
    <3> QED  BY <3>1, <3>2, <3>3, <3>4
  <2> HIDE DEF closed
  <2>3. e = [FreshFd EXCEPT !.open = TRUE, !.inode = i, !.flags = flags, !.pos = pos,
                            !.size = size, !.slot = slot]
    OBVIOUS
  <2>4. fds' = [fds EXCEPT ![g] = e]
    BY <1>8
  <2> HIDE DEF size, pos, slot, e
  <2>5. /\ e \in Descriptor /\ e.open /\ e.inode = i /\ e.valid = 0
        /\ e.recent = << >> /\ e.slot = slot
    BY <2>2, <2>3, Fresh DEF Descriptor
  <2>6. CacheOK(e)
    BY <2>2, <2>5, NoValidSlots
  <2>7. /\ fds' \in [Fd -> Descriptor] /\ fds'[g] = e
        /\ \A f \in Fd : f # g => fds'[f] = fds[f]
    BY <2>1, <2>4, <2>5 DEF IInv
  <2>8. ASSUME NEW f \in Fd
        PROVE  /\ CacheOK(fds'[f])
               /\ fds'[f].open => inodes'[fds'[f].inode].used
               /\ ~fds'[f].open => \A s \in Slot : ~fds'[f].slot[s].dirty
    <3>1. CASE f = g
      BY <1>4, <1>5, <2>5, <2>6, <2>7, <3>1
    <3>2. CASE f # g
      <4>1. fds[f].inode \in Inode
        BY FileOf
      <4> QED  BY <1>6, <2>7, <3>2, <4>1 DEF IInv
    <3> QED  BY <3>1, <3>2
  <2>9. IInv'
    BY <1>2, <1>3, <1>5, <2>7, <2>8 DEF IInv, CacheOK, Descriptor, Ordered, Flushable,
      InodeRecord, SlotRecord, Stamps, Fd, Slot, Logical, Block, At, AllWords
  <2>10. ASSUME NEW f \in Fd, NEW s \in Slot, fds[f].slot[s].dirty
         PROVE  Survives(f, s)
    <3>1. s \in 1 .. fds[f].valid /\ fds[f].open
      BY <2>10, ValidSlots
    <3>2. fds'[f] = fds[f]
      BY <2>1, <2>7, <3>1
    <3> QED  BY <2>10, <3>1, <3>2 DEF Survives
  <2> QED  BY <2>9, <2>10 DEF Accepted
<1> QED  BY <1>1, <1>7, <1>8

\* A call that starts has changed nothing yet.
LEMMA StartKeeps ==
  ASSUME IInv, UNCHANGED <<inodes, fds>>, CallOK', ret' = Return("none")
  PROVE  IInv' /\ Accepted
<1>1. ret'.status \in {"none", "ok", "error"}
  BY Statuses
<1>2. inodes' = inodes /\ fds' = fds
  OBVIOUS
<1>3. /\ inodes' \in [Inode -> InodeRecord] /\ fds' \in [Fd -> Descriptor]
      /\ \A f \in Fd :
           /\ CacheOK(fds'[f])
           /\ fds'[f].open => inodes'[fds'[f].inode].used
           /\ ~fds'[f].open => \A s \in Slot : ~fds'[f].slot[s].dirty
  BY <1>2 DEF IInv
<1>4. IInv'
  BY <1>1, <1>3 DEF IInv, CacheOK, Descriptor, Ordered, Flushable,
    InodeRecord, SlotRecord, Stamps, Fd, Slot, Logical, Block, At, AllWords
<1> QED  BY <1>2, <1>4, Unmoved

LEMMA StartDestroyKeeps ==
  ASSUME IInv, StartDestroy
  PROVE  IInv' /\ Accepted
<1>1. /\ call' = [NoCall EXCEPT !.op = "destroy"]
      /\ \E f \in Fd : fds[f].open
      /\ UNCHANGED <<inodes, fds>> /\ ret' = Return("none")
  BY DEF StartDestroy
<1>2. /\ call' \in [op : {"none", "read", "write", "destroy"}, fd : Fd,
                    left : Nat, word : AllWords]
      /\ call'.op = "destroy"
  BY <1>1, NoCallType
<1>3. call' \in [op : {"none", "read", "write", "destroy"}, fd : Fd,
                 left : Nat, word : AllWords]'
  BY <1>2 DEF Fd, AllWords
<1>4. CallOK'
  BY <1>1, <1>2, <1>3 DEF CallOK, Fd
<1> QED  BY <1>1, <1>4, StartKeeps

LEMMA StartReadKeeps ==
  ASSUME IInv, NEW f \in Fd, NEW len \in Length, StartRead(f, len)
  PROVE  IInv' /\ Accepted
<1> DEFINE there == fds[f].size - fds[f].pos
           left == IF len > there THEN there ELSE len
<1>1. /\ fds[f].open /\ there > 0
      /\ call' = [op |-> "read", fd |-> f, word |-> 0, left |-> left]
      /\ UNCHANGED <<inodes, fds>> /\ ret' = Return("none")
  BY DEF StartRead
<1>2. /\ fds[f].size \in Nat /\ fds[f].pos \in Nat /\ fds[f].size <= MaxWords
      /\ len \in Nat \ {0} /\ MaxWords \in Nat
  BY FileOf, Sizes, SizesAssumption
<1>3. /\ left \in Nat /\ left > 0 /\ fds[f].pos + left <= fds[f].size
      /\ fds[f].pos + left <= MaxWords
  BY <1>1, <1>2
<1> HIDE DEF left
<1>4. call'.op = "read" /\ call'.fd = f /\ call'.left = left
  BY <1>1
<1>5. 0 \in AllWords'
  BY DEF AllWords
<1>6. call' \in [op : {"none", "read", "write", "destroy"}, fd : Fd,
                 left : Nat, word : AllWords]'
  BY <1>1, <1>3, <1>5 DEF Fd
<1>7. CallOK'
  BY <1>1, <1>3, <1>4, <1>6 DEF CallOK
<1> QED  BY <1>1, <1>7, StartKeeps

LEMMA StartWriteKeeps ==
  ASSUME IInv, NEW f \in Fd, NEW len \in Length, NEW w, StartWrite(f, len, w)
  PROVE  IInv' /\ Accepted
<1>1. /\ fds[f].open /\ fds[f].pos + len <= MaxWords
      /\ w \in WordOf[fds[f].inode]
      /\ call' = [op |-> "write", fd |-> f, left |-> len, word |-> w]
      /\ UNCHANGED <<inodes, fds>> /\ ret' = Return("none")
  BY DEF StartWrite
<1>2. len \in Nat /\ len > 0
  BY SizesAssumption
<1>3. call'.op = "write" /\ call'.fd = f /\ call'.left = len /\ call'.word = w
  BY <1>1
<1>4. w \in AllWords'
  <2>1. fds[f].inode \in Inode
    BY FileOf
  <2> QED  BY <1>1, <2>1 DEF AllWords
<1>5. call' \in [op : {"none", "read", "write", "destroy"}, fd : Fd,
                 left : Nat, word : AllWords]'
  BY <1>1, <1>2, <1>4 DEF Fd
<1>6. CallOK'
  BY <1>1, <1>2, <1>3, <1>5 DEF CallOK
<1> QED  BY <1>1, <1>6, StartKeeps

\* Destroying the table keeps the invariant, but not what was accepted.
LEMMA DestroyKeeps ==
  ASSUME IInv, DestroyRound
  PROVE  IInv'
<1> DEFINE opened == {g \in Fd : fds[g].open}
           f == First(opened)
           d == fds[f]
           n == inodes[d.inode]
           budget == Budget(d.inode)
<1>1. /\ call.op = "destroy"
      /\ \E r \in FlushAll(d, n, budget) :
           inodes' = [inodes EXCEPT ![d.inode] =
                        IF r.ok THEN [r.n EXCEPT !.size = d.size] ELSE r.n]
      /\ \/ /\ opened = {f}
            /\ fds' = [g \in Fd |-> FreshFd]
            /\ call' = NoCall
            /\ ret' = Return("ok")
         \/ /\ opened # {f}
            /\ fds' = [fds EXCEPT ![f] = FreshFd]
            /\ UNCHANGED <<call, ret>>
  BY DEF DestroyRound
<1>2. f \in Fd /\ fds[f].open
  <2>0. \E g \in Fd : fds[g].open
    BY <1>1 DEF IInv, CallOK
  <2>1. opened \in SUBSET Nat /\ opened # {}
    BY <2>0, Sizes DEF Fd
  <2> HIDE DEF opened
  <2>2. f \in opened
    BY <2>1, FirstIs
  <2> QED  BY <2>2 DEF opened
<1> HIDE DEF f, budget
<1>3. /\ CacheOK(d) /\ d \in Descriptor /\ n \in InodeRecord /\ d.inode \in Inode
      /\ d.size \in 0 .. MaxWords
  BY <1>2, FileOf
<1>4. PICK r \in FlushAll(d, n, budget) :
        inodes' = [inodes EXCEPT ![d.inode] =
                     IF r.ok THEN [r.n EXCEPT !.size = d.size] ELSE r.n]
  BY <1>1
<1> DEFINE m == IF r.ok THEN [r.n EXCEPT !.size = d.size] ELSE r.n
<1>5. r.n \in InodeRecord /\ r.n.used = n.used
  BY <1>3, AllFlushed
<1>6. m \in InodeRecord /\ m.used = n.used
  BY <1>3, <1>5 DEF InodeRecord
<1>7. inodes' = [inodes EXCEPT ![d.inode] = m]
  BY <1>4
<1> HIDE DEF m
<1>8. ret'.status \in {"none", "ok", "error"}
  <2>1. CASE ret' = Return("ok")
    BY <2>1, Statuses
  <2>2. CASE UNCHANGED ret
    BY <2>2 DEF IInv
  <2> QED  BY <1>1, <2>1, <2>2
<1>9. CASE opened # {f} /\ fds' = [fds EXCEPT ![f] = FreshFd] /\ UNCHANGED <<call, ret>>
  <2>1. PICK g \in Fd : fds[g].open /\ g # f
    BY <1>2, <1>9
  <2>2. fds'[g].open
    BY <1>9, <2>1 DEF IInv
  <2>3. call' \in [op : {"none", "read", "write", "destroy"}, fd : Fd,
                   left : Nat, word : AllWords]'
    BY <1>9 DEF IInv, CallOK, Fd, AllWords
  <2>4. g \in Fd'
    BY DEF Fd
  <2>5. call'.op = "destroy"
    BY <1>1, <1>9
  <2>6. CallOK'
    BY <2>2, <2>3, <2>4, <2>5 DEF CallOK
  <2> DEFINE e == FreshFd
  <2>7. fds' = [fds EXCEPT ![f] = e] /\ CacheOK(e) /\ e.open = FALSE
        /\ \A s \in Slot : ~e.slot[s].dirty
    BY <1>9, Fresh
  <2>8. e.open => e.inode = fds[f].inode /\ fds[f].open
    BY <2>7
  <2> HIDE DEF e
  <2>9. /\ m.used = inodes[fds[f].inode].used
        /\ inodes' = [inodes EXCEPT ![fds[f].inode] = m]
    BY <1>6, <1>7
  <2> HIDE DEF d, n
  <2>10. IInv' /\ (Carried(fds[f], e, m) => Accepted)
    BY <1>2, <1>6, <1>8, <2>6, <2>7, <2>8, <2>9, OneFile
  <2> QED  BY <2>10
<1>10. CASE opened = {f} /\ fds' = [g \in Fd |-> FreshFd] /\ call' = NoCall
  <2>1. CallOK'
    BY <1>10, NothingRuns
  <2>2. inodes' \in [Inode -> InodeRecord]
    BY <1>3, <1>6, <1>7 DEF IInv
  <2>3. fds' \in [Fd -> Descriptor] /\ \A g \in Fd : fds'[g] = FreshFd
    BY <1>10, Fresh
  <2>4. \A g \in Fd : /\ CacheOK(fds'[g]) /\ fds'[g].open = FALSE
                      /\ \A s \in Slot : ~fds'[g].slot[s].dirty
    BY <2>3, Fresh
  <2> QED  BY <1>8, <2>1, <2>2, <2>3, <2>4 DEF IInv, CacheOK, Descriptor, Ordered,
    Flushable, InodeRecord, SlotRecord, Stamps, Fd, Slot, Logical, Block, At, AllWords
<1> QED  BY <1>1, <1>9, <1>10

\* How far a round goes: at least a word, and not past the end of the cluster.
LEMMA ChunkIs ==
  ASSUME IInv, call.op \in {"read", "write"}
  PROVE  LET d == fds[call.fd]
             c == Chunk(d)
         IN  /\ call.fd \in Fd /\ call.left \in Nat
             /\ c \in Nat /\ c > 0 /\ c <= call.left
             /\ Offset(d) \in Nat /\ Offset(d) + c <= ClusterWords
             /\ d.pos + c \in 0 .. MaxWords
             /\ Here(d) \in Logical /\ Here(d) + 1 \in Logical
             /\ d.pos + call.left <= MaxWords
             /\ call.op = "read" => d.pos + call.left <= d.size
             /\ d.open
<1> DEFINE d == fds[call.fd]
           o == d.pos % ClusterWords
           room == ClusterWords - o
           c == IF room > call.left THEN call.left ELSE room
<1>1. /\ call.fd \in Fd /\ call.left \in Nat /\ call.left > 0
      /\ d.pos + call.left <= MaxWords /\ d.open
      /\ call.op = "read" => d.pos + call.left <= d.size
  BY DEF IInv, CallOK
<1>2. d.pos \in 0 .. MaxWords
  BY <1>1, FileOf
<1>3. /\ d.pos \div ClusterWords \in Logical /\ (d.pos \div ClusterWords) + 1 \in Logical
      /\ o \in 0 .. ClusterWords - 1
  BY <1>2, Place
<1>4. Chunk(d) = c /\ Offset(d) = o /\ Here(d) = d.pos \div ClusterWords
  BY DEF Chunk, Offset, Here
<1> HIDE DEF o
<1>5. ClusterWords \in Nat /\ o \in Nat /\ o < ClusterWords /\ MaxWords \in Nat
      /\ d.pos \in Nat
  BY <1>2, <1>3, Sizes
<1>6. c \in Nat /\ c > 0 /\ c <= call.left /\ o + c <= ClusterWords
  BY <1>1, <1>5
<1> HIDE DEF c
<1>7. d.pos + c \in 0 .. MaxWords
  BY <1>1, <1>5, <1>6
<1> QED  BY <1>1, <1>3, <1>4, <1>5, <1>6, <1>7

\* The call that goes on after a round of c words.
LEMMA Proceeds ==
  ASSUME IInv, call.op \in {"read", "write"}, NEW c, c = Chunk(fds[call.fd]),
         NEW e, fds' = [fds EXCEPT ![call.fd] = e], call' = Proceed(c),
         e.open, e.inode = fds[call.fd].inode, e.pos = fds[call.fd].pos + c,
         call.op = "read" => e.size = fds[call.fd].size
  PROVE  CallOK'
<1> DEFINE d == fds[call.fd]
<1>1. /\ call.fd \in Fd /\ call.left \in Nat
      /\ c \in Nat /\ c > 0 /\ c <= call.left
      /\ d.pos + call.left <= MaxWords
      /\ call.op = "read" => d.pos + call.left <= d.size
  BY ChunkIs
<1>2. d.pos \in Nat /\ d.size \in Nat
  BY <1>1, FileOf
<1>3. CASE call.left = c
  <2>1. call' = NoCall
    BY <1>3 DEF Proceed
  <2> QED  BY <2>1, NothingRuns
<1>4. CASE call.left # c
  <2> DEFINE left == call.left - c
  <2>1. call' = [call EXCEPT !.left = left]
    BY <1>4 DEF Proceed
  <2>2. /\ left \in Nat /\ left > 0
        /\ (d.pos + c) + left <= MaxWords
        /\ call.op = "read" => (d.pos + c) + left <= d.size
    BY <1>1, <1>2, <1>4, Sizes
  <2> HIDE DEF left
  <2>3. call \in [op : {"none", "read", "write", "destroy"}, fd : Fd, left : Nat,
                  word : AllWords]
        /\ (call.op = "write" => call.word \in WordOf[fds[call.fd].inode])
    BY DEF IInv, CallOK
  <2>4. /\ call' \in [op : {"none", "read", "write", "destroy"}, fd : Fd, left : Nat,
                      word : AllWords]
        /\ call'.op = call.op /\ call'.fd = call.fd /\ call'.left = left
        /\ call'.word = call.word
    <3>1. left \in Nat
      BY <2>2
    <3>2. call \in [op : {"none", "read", "write", "destroy"}, fd : Fd, left : Nat,
                    word : AllWords]
      BY <2>3
    <3> QED  BY <2>1, <3>1, <3>2
  <2>5. fds'[call'.fd] = e
    BY <1>1, <2>4 DEF IInv
  <2>6. call' \in [op : {"none", "read", "write", "destroy"}, fd : Fd,
                   left : Nat, word : AllWords]'
    BY <2>4 DEF Fd, AllWords
  <2>7. /\ fds'[call'.fd].open /\ call'.left > 0
        /\ fds'[call'.fd].pos + call'.left <= MaxWords
    <3>1. e.open /\ left > 0 /\ e.pos + left <= MaxWords
      BY <2>2
    <3>2. call'.left = left
      BY <2>4
    <3> QED  BY <2>5, <3>1, <3>2
  <2>8. call'.op = "read" => fds'[call'.fd].pos + call'.left <= fds'[call'.fd].size
    <3>1. call.op = "read" => e.pos + left <= e.size
      BY <2>2
    <3>2. call'.left = left /\ call'.op = call.op
      BY <2>4
    <3> QED  BY <2>5, <3>1, <3>2
  <2>9. call'.op = "write" => call'.word \in WordOf[fds'[call'.fd].inode]
    BY <2>3, <2>4, <2>5
  <2>10. call'.op # "destroy"
    BY <2>4
  <2> QED  BY <2>6, <2>7, <2>8, <2>9, <2>10 DEF CallOK
<1> QED  BY <1>3, <1>4

\* What a load kept is still there in a descriptor that keeps the dirty slots.
LEMMA LoadCarries ==
  ASSUME NEW d, NEW n, NEW l, NEW r, Loaded(d, n, l, r), NEW e,
         r.d.valid <= e.valid, e.valid \in 0 .. CacheClusters,
         \A s \in Slot : r.d.slot[s].dirty => e.slot[s] = r.d.slot[s]
  PROVE  Carried(d, e, r.n)
<1>1. ASSUME NEW s \in Slot, d.slot[s].dirty
      PROVE  \/ r.n.blocks[d.slot[s].index] = d.slot[s].words
             \/ /\ s \in 1 .. e.valid
                /\ e.slot[s].index = d.slot[s].index /\ e.slot[s].dirty
  <2>1. CASE /\ r.d.slot[s].index = d.slot[s].index
             /\ r.d.slot[s].dirty
    <3>1. s <= r.d.valid /\ r.d.valid \in 0 .. CacheClusters
      BY <2>1 DEF Loaded, CacheOK, Flushable, Descriptor
    <3>2. s \in 1 .. e.valid
      BY <3>1, Sizes DEF Slot
    <3> QED  BY <2>1, <3>2
  <2> QED  BY <1>1, <2>1 DEF Loaded
<1> QED  BY <1>1 DEF Carried

LEMMA ReadKeeps ==
  ASSUME IInv, ReadRound
  PROVE  IInv' /\ Accepted
<1> DEFINE f == call.fd
           d == fds[f]
           n == inodes[d.inode]
           budget == Budget(d.inode)
           c == Chunk(d)
           l == Here(d)
<1>1. /\ call.op = "read"
      /\ \E r \in Load(d, n, budget, l) :
           /\ inodes' = [inodes EXCEPT ![d.inode] = r.n]
           /\ \/ /\ ~r.ok
                 /\ fds' = [fds EXCEPT ![f] = r.d]
                 /\ call' = NoCall
                 /\ ret' = [Return("ok") EXCEPT !.missing = call.left]
              \/ /\ r.ok
                 /\ \E e \in Prefetch([r.d EXCEPT !.pos = @ + c], r.n, l + 1) :
                      fds' = [fds EXCEPT ![f] = e]
                 /\ call' = Proceed(c)
                 /\ ret' = [status |-> Status(c), missing |-> 0,
                            data |-> SubSeq(r.d.slot[r.s].words,
                                            Offset(d) + 1, Offset(d) + c)]
  BY DEF ReadRound
<1>2. /\ f \in Fd /\ d.open /\ l \in Logical /\ l + 1 \in Logical
      /\ d.pos + c \in 0 .. MaxWords
  BY <1>1, ChunkIs
<1>3. CacheOK(d) /\ d \in Descriptor /\ n \in InodeRecord /\ d.inode \in Inode
  BY <1>2, FileOf
<1>4. PICK r \in Load(d, n, budget, l) :
           /\ inodes' = [inodes EXCEPT ![d.inode] = r.n]
           /\ \/ /\ ~r.ok
                 /\ fds' = [fds EXCEPT ![f] = r.d]
                 /\ call' = NoCall
                 /\ ret' = [Return("ok") EXCEPT !.missing = call.left]
              \/ /\ r.ok
                 /\ \E e \in Prefetch([r.d EXCEPT !.pos = @ + c], r.n, l + 1) :
                      fds' = [fds EXCEPT ![f] = e]
                 /\ call' = Proceed(c)
                 /\ ret' = [status |-> Status(c), missing |-> 0,
                            data |-> SubSeq(r.d.slot[r.s].words,
                                            Offset(d) + 1, Offset(d) + c)]
  BY <1>1
<1>5. c = Chunk(fds[call.fd])
  OBVIOUS
<1> HIDE DEF l, c, budget
<1>6. Loaded(d, n, l, r)
  BY <1>2, <1>3, LoadSound
<1> DEFINE h == r.d
           m == r.n
<1>7. /\ CacheOK(h) /\ h \in Descriptor /\ SameFile(d, h)
      /\ h.valid \in 0 .. CacheClusters
      /\ m \in InodeRecord /\ m.used = n.used
  BY <1>6 DEF Loaded, CacheOK, Descriptor
<1>8. ret'.status \in {"none", "ok", "error"}
  <2>1. CASE ret' = [Return("ok") EXCEPT !.missing = call.left]
    BY <2>1 DEF Return
  <2> DEFINE data == SubSeq(r.d.slot[r.s].words, Offset(d) + 1, Offset(d) + c)
  <2>2. CASE ret' = [status |-> Status(c), missing |-> 0, data |-> data]
    <3> HIDE DEF data
    <3>1. ret'.status = Status(c)
      BY <2>2
    <3> QED  BY <3>1 DEF Status
  <2> QED  BY <1>4, <2>1, <2>2
<1>9. inodes' = [inodes EXCEPT ![d.inode] = m]
  BY <1>4
<1>10. CASE ~r.ok /\ fds' = [fds EXCEPT ![f] = h] /\ call' = NoCall
  <2>1. CallOK'
    BY <1>10, NothingRuns
  <2>2. h.valid <= h.valid
    BY <1>7
  <2>3. Carried(d, h, m)
    BY <1>6, <1>7, <2>2, LoadCarries
  <2>4. h.open /\ h.inode = d.inode
    BY <1>2, <1>7 DEF SameFile
  <2>5. fds' = [fds EXCEPT ![f] = h]
    BY <1>10
  <2> HIDE DEF h, m
  <2> QED  BY <1>2, <1>7, <1>8, <1>9, <2>1, <2>3, <2>4, <2>5, OneFile
<1>11. CASE /\ r.ok
            /\ \E e \in Prefetch([h EXCEPT !.pos = @ + c], m, l + 1) :
                 fds' = [fds EXCEPT ![f] = e]
            /\ call' = Proceed(c)
  <2> DEFINE g == [h EXCEPT !.pos = @ + c]
  <2>1. PICK e \in Prefetch(g, m, l + 1) : fds' = [fds EXCEPT ![f] = e]
    BY <1>11
  <2>2. h.pos = d.pos
    BY <1>7 DEF SameFile
  <2>3. g = [h EXCEPT !.pos = d.pos + c]
    BY <2>2
  <2> HIDE DEF h, m, g
  <2>4. /\ g \in Descriptor /\ g.open = h.open /\ g.inode = h.inode
        /\ g.size = h.size /\ g.pos = d.pos + c
        /\ g.valid = h.valid /\ g.recent = h.recent /\ g.slot = h.slot
    BY <1>2, <1>7, <2>3 DEF Descriptor
  <2>5. CacheOK(g)
    BY <1>7, <2>4 DEF CacheOK, Ordered, Flushable
  <2>6. /\ CacheOK(e) /\ SameFile(g, e) /\ g.valid <= e.valid
        /\ \A s \in Slot : g.slot[s].dirty => e.slot[s] = g.slot[s]
    <3> DEFINE next == l + 1
    <3>1. next \in Logical /\ e \in Prefetch(g, m, next)
      BY <1>2, <2>1
    <3>2. CacheOK(g) /\ m \in InodeRecord
      BY <1>7, <2>5
    <3> HIDE DEF next
    <3>3. /\ CacheOK(e) /\ SameFile(g, e) /\ g.valid <= e.valid
          /\ \A s \in Slot : g.slot[s].dirty => e.slot[s] = g.slot[s]
          /\ e = g \/ \E q : RoomForIt(g, m, next, q) /\ q.ok = TRUE /\ q.d = e
      BY <3>1, <3>2, PrefetchSound, ZenonT(60)
    <3> QED  BY <3>3
  <2>7. /\ e.open /\ e.inode = d.inode /\ e.pos = d.pos + c /\ e.size = d.size
    BY <1>2, <1>7, <2>4, <2>6 DEF SameFile
  <2>8. CallOK'
    BY <1>1, <1>5, <1>11, <2>1, <2>7, Proceeds
  <2>9. e.valid \in 0 .. CacheClusters
    BY <2>6 DEF CacheOK, Descriptor
  <2>10. /\ r.d.valid <= e.valid
         /\ \A s \in Slot : r.d.slot[s].dirty => e.slot[s] = r.d.slot[s]
    BY <2>4, <2>6 DEF h
  <2>11. Carried(d, e, m)
    BY <1>6, <2>9, <2>10, LoadCarries DEF m
  <2> QED  BY <1>2, <1>7, <1>8, <1>9, <2>1, <2>6, <2>7, <2>8, <2>11, OneFile
<1> QED  BY <1>4, <1>10, <1>11

\* The slot a round of writing has written into.
LEMMA WrittenSound ==
  ASSUME NEW d, CacheOK(d), NEW s \in 1 .. d.valid, NEW c,
         \A t \in 1 .. d.valid : d.slot[t].index = d.slot[s].index => s <= t,
         d.pos + c \in 0 .. MaxWords, call.word \in AllWords
  PROVE  LET e == Written(d, s, c)
         IN  /\ CacheOK(e) /\ e.open = d.open /\ e.inode = d.inode
             /\ e.pos = d.pos + c /\ e.valid = d.valid
             /\ e.slot[s].index = d.slot[s].index /\ e.slot[s].dirty
             /\ \A t \in Slot : t # s => e.slot[t] = d.slot[t]
<1> DEFINE end == d.pos + c
           size == IF end > d.size THEN end ELSE d.size
           words == [o \in At |-> IF Offset(d) < o /\ o <= Offset(d) + c THEN call.word
                                  ELSE d.slot[s].words[o]]
           rec == [d.slot[s] EXCEPT !.dirty = TRUE, !.words = words]
           e == [d EXCEPT !.pos = end, !.size = size, !.slot[s] = rec]
<1>1. d \in Descriptor /\ d.valid \in 0 .. CacheClusters /\ d.slot \in [Slot -> SlotRecord]
      /\ d.size \in 0 .. MaxWords
  BY DEF CacheOK, Descriptor
<1>2. s \in Slot /\ 1 .. d.valid \subseteq Slot
  BY <1>1, Sizes DEF Slot
<1>3. d.slot[s] \in SlotRecord /\ d.slot[s].words \in Block
  BY <1>1, <1>2 DEF SlotRecord
<1>4. words \in Block
  BY <1>3 DEF Block
<1>5. size \in 0 .. MaxWords
  BY <1>1
<1>6. Written(d, s, c) = e
  BY <1>1, <1>2, <1>3, ZenonT(60) DEF Written, Descriptor, SlotRecord
<1> HIDE DEF end, size, words
<1>7. rec \in SlotRecord /\ rec.index = d.slot[s].index /\ rec.dirty = TRUE
  BY <1>3, <1>4 DEF SlotRecord
<1> HIDE DEF rec
<1>8. end \in 0 .. MaxWords
  BY DEF end
<1>9. /\ e \in Descriptor /\ e.open = d.open /\ e.inode = d.inode /\ e.pos = end
      /\ e.valid = d.valid /\ e.recent = d.recent
      /\ \A t \in Slot : e.slot[t] = IF t = s THEN rec ELSE d.slot[t]
  BY <1>1, <1>2, <1>5, <1>7, <1>8 DEF Descriptor
<1> HIDE DEF e
<1>10. Ordered(e)
  BY <1>9 DEF CacheOK, Ordered
<1>11. Flushable(e)
  <2>1. ASSUME NEW t \in Slot, e.slot[t].dirty
        PROVE  t <= e.valid
    <3>1. CASE t = s
      BY <1>1, <1>9, <3>1
    <3>2. CASE t # s
      BY <1>9, <2>1, <3>2 DEF CacheOK, Flushable
    <3> QED  BY <3>1, <3>2
  <2>2. ASSUME NEW t \in 1 .. d.valid, NEW u \in 1 .. d.valid,
               e.slot[t].dirty, e.slot[u].index = e.slot[t].index
        PROVE  t <= u
    <3>1. d.slot[u].index = d.slot[t].index
      BY <1>2, <1>7, <1>9, <2>2
    <3>2. CASE t = s
      BY <3>1, <3>2
    <3>3. CASE t # s
      BY <1>2, <1>9, <2>2, <3>1, <3>3 DEF CacheOK, Flushable
    <3> QED  BY <3>2, <3>3
  <2> QED  BY <1>9, <2>1, <2>2 DEF Flushable
<1>12. CacheOK(e)
  BY <1>9, <1>10, <1>11 DEF CacheOK
<1>13. e.slot[s].index = d.slot[s].index /\ e.slot[s].dirty
       /\ \A t \in Slot : t # s => e.slot[t] = d.slot[t]
  BY <1>2, <1>7, <1>9
<1> QED  BY <1>6, <1>9, <1>12, <1>13 DEF end

\* The flush of that slot leaves the others as they were, and the words of
\* this one are in it or on the disk.
LEMMA WriteCarries ==
  ASSUME NEW d, NEW n, NEW l \in Logical, NEW r, CacheOK(d), Loaded(d, n, l, r), r.ok,
         NEW e, CacheOK(e), e.valid = r.d.valid,
         e.slot[r.s].index = l, e.slot[r.s].dirty,
         \A t \in Slot : t # r.s => e.slot[t] = r.d.slot[t],
         NEW m \in InodeRecord, m.blocks = r.n.blocks,
         NEW g, NEW k, (g = e /\ k = m) \/ Flushed(e, m, g, k, {r.s})
  PROVE  Carried(d, g, k)
<1> DEFINE s == r.s
<1>1. /\ s \in 1 .. e.valid /\ e \in Descriptor /\ e.valid \in 0 .. CacheClusters
      /\ s \in Slot
  <2>1. s \in 1 .. e.valid
    BY DEF Loaded
  <2>2. e \in Descriptor /\ e.valid \in 0 .. CacheClusters
    BY DEF CacheOK, Descriptor
  <2> QED  BY <2>1, <2>2, Sizes DEF Slot
<1>2. ASSUME NEW x \in Logical, x # l, m.blocks[x] # Hole
      PROVE  k.blocks[x] = m.blocks[x]
  <2>1. CASE k = m
    BY <2>1
  <2>2. CASE Flushed(e, m, g, k, {s})
    <3>1. PICK F \in SUBSET Dirty(e, {s}) : Stored(e, m, k, F)
      BY <2>2 DEF Flushed
    <3>2. \A t \in F : t = s
      BY DEF Dirty
    <3> QED  BY <1>2, <3>1, <3>2 DEF Stored
  <2> QED  BY <2>1, <2>2
<1>3. ASSUME NEW t \in Slot, e.slot[t].dirty
      PROVE  \E u \in 1 .. g.valid :
               /\ g.slot[u].index = e.slot[t].index
               /\ g.slot[u].dirty \/ g.slot[u].words = k.blocks[e.slot[t].index]
  <2>1. t \in 1 .. e.valid
    BY <1>1, <1>3 DEF CacheOK, Flushable, Slot
  <2>2. CASE g = e
    BY <1>3, <2>1, <2>2
  <2>3. CASE Flushed(e, m, g, k, {s})
    <3>1. g.valid = e.valid /\ g.slot[t].index = e.slot[t].index
          /\ g.slot[t].words = e.slot[t].words
      BY <2>3 DEF Flushed
    <3>2. \/ g.slot[t].dirty \/ k.blocks[e.slot[t].index] = e.slot[t].words
      <4> DEFINE S == {s}
      <4>1. S \in SUBSET (1 .. e.valid) /\ Flushed(e, m, g, k, S)
        BY <1>1, <2>3
      <4> HIDE DEF S
      <4>2. \/ g.slot[t].dirty
            \/ t \in S /\ k.blocks[e.slot[t].index] = e.slot[t].words
        BY <1>3, <4>1, FlushedKeeps
      <4> QED  BY <4>2
    <3> QED  BY <2>1, <3>1, <3>2
  <2> QED  BY <2>2, <2>3
<1>4. ASSUME NEW t \in Slot, d.slot[t].dirty
      PROVE  \/ k.blocks[d.slot[t].index] = d.slot[t].words
             \/ e.slot[t].dirty /\ e.slot[t].index = d.slot[t].index
  <2> DEFINE x == d.slot[t].index
  <2>1. x \in Logical /\ d.slot[t].words \in Block
    BY DEF CacheOK, Descriptor, SlotRecord
  <2>2. CASE x # l /\ r.n.blocks[x] = d.slot[t].words
    BY <1>2, <2>1, <2>2, HoleAssumption
  <2>3. CASE r.d.slot[t].index = x /\ r.d.slot[t].dirty
    <3>1. CASE t = s
      BY <2>3, <3>1 DEF Loaded
    <3>2. CASE t # s
      BY <2>3, <3>2
    <3> QED  BY <3>1, <3>2
  <2> QED  BY <1>4, <2>2, <2>3 DEF Loaded
<1> QED  BY <1>3, <1>4 DEF Carried

LEMMA WriteKeeps ==
  ASSUME IInv, WriteRound
  PROVE  IInv' /\ Accepted
<1> DEFINE f == call.fd
           d == fds[f]
           n == inodes[d.inode]
           budget == Budget(d.inode)
           c == Chunk(d)
           l == Here(d)
           grownInode(h, e) == IF e.size > d.size THEN [h EXCEPT !.size = e.size] ELSE h
           flushed(e, m, s) == IF e.pos % ClusterWords = 0 THEN FlushSlot(e, m, budget, s)
                               ELSE {[ok |-> TRUE, d |-> e, n |-> m]}
<1>1. call.op = "write"
  BY DEF WriteRound
<1>2. \E r \in Load(d, n, budget, l) :
        \/ /\ ~r.ok
           /\ inodes' = [inodes EXCEPT ![d.inode] = r.n]
           /\ fds' = [fds EXCEPT ![f] = r.d]
           /\ call' = NoCall
           /\ ret' = Return("error")
        \/ /\ r.ok
           /\ \E q \in flushed(Written(r.d, r.s, c),
                               grownInode(r.n, Written(r.d, r.s, c)), r.s) :
                /\ inodes' = [inodes EXCEPT ![d.inode] = q.n]
                /\ fds' = [fds EXCEPT ![f] = q.d]
                /\ call' = IF q.ok THEN Proceed(c) ELSE NoCall
                /\ ret' = Return(IF q.ok THEN Status(c) ELSE "error")
  BY Zenon DEF WriteRound
<1>3. /\ f \in Fd /\ d.open /\ l \in Logical /\ d.pos + c \in 0 .. MaxWords
  BY <1>1, ChunkIs
<1>4. CacheOK(d) /\ d \in Descriptor /\ n \in InodeRecord /\ d.inode \in Inode
  BY <1>3, FileOf
<1>5. PICK r \in Load(d, n, budget, l) :
        \/ /\ ~r.ok
           /\ inodes' = [inodes EXCEPT ![d.inode] = r.n]
           /\ fds' = [fds EXCEPT ![f] = r.d]
           /\ call' = NoCall
           /\ ret' = Return("error")
        \/ /\ r.ok
           /\ \E q \in flushed(Written(r.d, r.s, c),
                               grownInode(r.n, Written(r.d, r.s, c)), r.s) :
                /\ inodes' = [inodes EXCEPT ![d.inode] = q.n]
                /\ fds' = [fds EXCEPT ![f] = q.d]
                /\ call' = IF q.ok THEN Proceed(c) ELSE NoCall
                /\ ret' = Return(IF q.ok THEN Status(c) ELSE "error")
  BY <1>2
<1>6. c = Chunk(fds[call.fd])
  OBVIOUS
<1> HIDE DEF l, c, budget
<1>7. Loaded(d, n, l, r)
  BY <1>3, <1>4, LoadSound
<1>8. /\ CacheOK(r.d) /\ SameFile(d, r.d) /\ r.d.valid \in 0 .. CacheClusters
      /\ r.n \in InodeRecord /\ r.n.used = n.used
  BY <1>7 DEF Loaded, CacheOK, Descriptor
<1>9. ret'.status \in {"none", "ok", "error"}
  BY <1>5, Statuses DEF Status
<1>10. CASE /\ ~r.ok
            /\ inodes' = [inodes EXCEPT ![d.inode] = r.n]
            /\ fds' = [fds EXCEPT ![f] = r.d]
            /\ call' = NoCall
  <2> DEFINE h == r.d
             m == r.n
  <2>1. CallOK'
    BY <1>10, NothingRuns
  <2>2. h.valid <= h.valid
    BY <1>8
  <2>3. Carried(d, h, m)
    BY <1>7, <1>8, <2>2, LoadCarries
  <2>4. h.open /\ h.inode = d.inode /\ CacheOK(h) /\ m \in InodeRecord /\ m.used = n.used
    BY <1>3, <1>8 DEF SameFile
  <2>5. fds' = [fds EXCEPT ![f] = h] /\ inodes' = [inodes EXCEPT ![d.inode] = m]
    BY <1>10
  <2> HIDE DEF h, m
  <2> QED  BY <1>3, <1>9, <2>1, <2>3, <2>4, <2>5, OneFile
<1>11. CASE /\ r.ok
            /\ \E q \in flushed(Written(r.d, r.s, c),
                                grownInode(r.n, Written(r.d, r.s, c)), r.s) :
                 /\ inodes' = [inodes EXCEPT ![d.inode] = q.n]
                 /\ fds' = [fds EXCEPT ![f] = q.d]
                 /\ call' = IF q.ok THEN Proceed(c) ELSE NoCall
  <2> DEFINE h == r.d
             s == r.s
             e == Written(h, s, c)
             m == grownInode(r.n, e)
  <2>1. PICK q \in flushed(e, m, s) :
          /\ inodes' = [inodes EXCEPT ![d.inode] = q.n]
          /\ fds' = [fds EXCEPT ![f] = q.d]
          /\ call' = IF q.ok THEN Proceed(c) ELSE NoCall
    BY <1>11
  <2>2. /\ s \in 1 .. h.valid /\ h.slot[s].index = l
        /\ \A t \in 1 .. h.valid : h.slot[t].index = h.slot[s].index => s <= t
    BY <1>7, <1>11 DEF Loaded
  <2>3. /\ CacheOK(h) /\ h.open /\ h.inode = d.inode /\ h.pos = d.pos
        /\ h.pos + c \in 0 .. MaxWords /\ call.word \in AllWords
    BY <1>3, <1>8 DEF SameFile, IInv, CallOK
  <2> HIDE DEF h, s
  <2>4. /\ CacheOK(e) /\ e.open = h.open /\ e.inode = h.inode
        /\ e.pos = h.pos + c /\ e.valid = h.valid
        /\ e.slot[s].index = h.slot[s].index /\ e.slot[s].dirty
        /\ \A t \in Slot : t # s => e.slot[t] = h.slot[t]
    BY <2>2, <2>3, WrittenSound, ZenonT(60)
  <2> HIDE DEF e
  <2>5. m \in InodeRecord /\ m.used = n.used /\ m.blocks = r.n.blocks
    <3>1. e.size \in 0 .. MaxWords
      BY <2>4 DEF CacheOK, Descriptor
    <3> QED  BY <1>8, <3>1 DEF InodeRecord
  <2> HIDE DEF m
  <2> DEFINE g == q.d
             k == q.n
  <2>6. (g = e /\ k = m) \/ Flushed(e, m, g, k, {s})
    <3>1. CASE e.pos % ClusterWords = 0
      <4>1. q \in FlushSlot(e, m, budget, s)
        BY <2>1, <3>1
      <4>2. s \in 1 .. e.valid
        BY <2>2, <2>4
      <4> QED  BY <2>4, <2>5, <4>1, <4>2, FlushSlotKeeps
    <3>2. CASE e.pos % ClusterWords # 0
      <4>1. q = [ok |-> TRUE, d |-> e, n |-> m]
        BY <2>1, <3>2
      <4> QED  BY <4>1
    <3> QED  BY <3>1, <3>2
  <2>7. /\ CacheOK(g) /\ g.open /\ g.inode = d.inode /\ g.pos = d.pos + c
        /\ k \in InodeRecord /\ k.used = n.used
    <3>1. CASE g = e /\ k = m
      <4> HIDE DEF g, k
      <4> QED  BY <2>3, <2>4, <2>5, <3>1
    <3>2. CASE Flushed(e, m, g, k, {s})
      <4> HIDE DEF g, k
      <4> QED  BY <2>3, <2>4, <2>5, <3>2 DEF Flushed, SameFile, Stored
    <3> QED  BY <2>6, <3>1, <3>2
  <2>8. fds' = [fds EXCEPT ![f] = g] /\ inodes' = [inodes EXCEPT ![d.inode] = k]
    BY <2>1
  <2>9. CallOK'
    <3>1. CASE call' = Proceed(c)
      <4> HIDE DEF g, k
      <4> QED  BY <1>1, <1>6, <2>7, <2>8, <3>1, Proceeds
    <3>2. CASE call' = NoCall
      BY <3>2, NothingRuns
    <3> QED  BY <2>1, <3>1, <3>2
  <2>10. Carried(d, g, k)
    <3>1. /\ e.valid = r.d.valid /\ e.slot[r.s].index = l /\ e.slot[r.s].dirty
          /\ \A t \in Slot : t # r.s => e.slot[t] = r.d.slot[t]
          /\ (g = e /\ k = m) \/ Flushed(e, m, g, k, {r.s})
      BY <2>2, <2>4, <2>6 DEF h, s
    <3> HIDE DEF g, k
    <3> QED  BY <1>3, <1>4, <1>7, <1>11, <2>4, <2>5, <3>1, WriteCarries
  <2> HIDE DEF g, k
  <2> QED  BY <1>3, <1>9, <2>7, <2>8, <2>9, <2>10, OneFile
<1> QED  BY <1>5, <1>10, <1>11

------------------------------------------------------------------------------
(***************************************************************************)
(* The theorems.                                                           *)
(***************************************************************************)
LEMMA StepKeeps ==
  ASSUME IInv, [Next]_vars
  PROVE  IInv' /\ (call.op # "destroy" => Accepted)
<1>1. CASE UNCHANGED vars
  <2>1. inodes' = inodes /\ fds' = fds /\ call' = call /\ ret' = ret
    BY <1>1 DEF vars
  <2>2. IInv'
    <3>1. ret'.status \in {"none", "ok", "error"} /\ CallOK'
      BY <2>1 DEF IInv, CallOK, Fd, AllWords
    <3>2. /\ inodes' \in [Inode -> InodeRecord] /\ fds' \in [Fd -> Descriptor]
          /\ \A f \in Fd :
               /\ CacheOK(fds'[f])
               /\ fds'[f].open => inodes'[fds'[f].inode].used
               /\ ~fds'[f].open => \A s \in Slot : ~fds'[f].slot[s].dirty
      BY <2>1 DEF IInv
    <3> QED  BY <3>1, <3>2 DEF IInv, CacheOK, Descriptor, Ordered, Flushable,
      InodeRecord, SlotRecord, Stamps, Fd, Slot, Logical, Block, At, AllWords
  <2> QED  BY <2>1, <2>2, Unmoved
<1>2. CASE ReadRound
  BY <1>2, ReadKeeps
<1>3. CASE WriteRound
  BY <1>3, WriteKeeps
<1>4. CASE DestroyRound
  <2>1. call.op = "destroy"
    BY <1>4 DEF DestroyRound
  <2> QED  BY <1>4, <2>1, DestroyKeeps
<1>5. CASE StartDestroy
  BY <1>5, StartDestroyKeeps
<1>6. CASE \E i \in Inode : RemoveFile(i) \/ \E flags \in OpenFlags : Open(i, flags)
  BY <1>6, RemoveFileKeeps, OpenKeeps
<1>7. CASE \E f \in Fd :
             \/ Close(f)
             \/ \E p \in 0 .. MaxWords : Seek(f, p)
             \/ \E len \in Length :
                  StartRead(f, len) \/ \E w \in WordOf[fds[f].inode] : StartWrite(f, len, w)
  BY <1>7, CloseKeeps, SeekKeeps, StartReadKeeps, StartWriteKeeps
<1> QED  BY <1>1, <1>2, <1>3, <1>4, <1>5, <1>6, <1>7 DEF Next, Round

\* The inductive invariant: descriptors and inodes have their types, the time
\* stamps of a cache give a valid slot at most one place, what is dirty is
\* valid and first of the slots of its cluster, an open descriptor's inode is
\* in use, a closed descriptor holds nothing dirty, and a call in progress has
\* an open descriptor and room for what is left of it.
THEOREM VfsInvariant == Spec => []IInv
<1>1. IInv /\ [Next]_vars => IInv'
  BY StepKeeps
<1> QED  BY <1>1, Initially, PTL DEF Spec

LEMMA StampsAreSlots ==
  ASSUME NEW v, NEW q, Stamps(q, v)
  PROVE  ToSet(q) \subseteq 1 .. v /\ IsInjective(q)
<1>1. q \in Seq(Slot) /\ DOMAIN q = 1 .. Len(q)
  BY DEF Stamps
<1>2. ToSet(q) = {q[k] : k \in 1 .. Len(q)}
  BY <1>1 DEF ToSet
<1> QED  BY <1>1, <1>2 DEF Stamps, IsInjective

\* The types of the state (src/vfs/context.c, src/vfs/io.c, src/vfs/cache.c),
\* and a cache has no more valid slots than there are, some of them in the
\* order of their time stamps.
THEOREM VfsTypes == Spec => []TypeOK
<1>1. ASSUME IInv PROVE TypeOK
  <2>1. inodes \in [Inode -> [used : BOOLEAN, size : 0 .. MaxWords,
                              blocks : [Logical -> Block \cup {Hole}]]]
    BY <1>1 DEF IInv, InodeRecord
  <2>2. ASSUME NEW f \in Fd
        PROVE  /\ fds[f].inode \in Inode
               /\ {fds[f].pos, fds[f].size} \subseteq 0 .. MaxWords
               /\ fds[f].valid \in 0 .. CacheClusters
               /\ fds[f].slot \in [Slot -> [index : Logical, words : Block, dirty : BOOLEAN]]
               /\ ToSet(fds[f].recent) \subseteq 1 .. fds[f].valid
               /\ IsInjective(fds[f].recent)
    <3>1. fds[f] \in Descriptor /\ Stamps(fds[f].recent, fds[f].valid)
      BY <1>1 DEF IInv, CacheOK, Ordered
    <3>2. fds[f].valid \in 0 .. CacheClusters /\ fds[f].valid \in Nat
      BY <3>1 DEF Descriptor
    <3>3. ToSet(fds[f].recent) \subseteq 1 .. fds[f].valid
      BY <3>1, StampsAreSlots
    <3>4. IsInjective(fds[f].recent)
      BY <3>1, StampsAreSlots
    <3>5. fds[f].slot \in [Slot -> [index : Logical, words : Block, dirty : BOOLEAN]]
      BY <3>1 DEF Descriptor, SlotRecord
    <3>6. fds[f].inode \in Inode /\ fds[f].pos \in 0 .. MaxWords
          /\ fds[f].size \in 0 .. MaxWords
      BY <3>1 DEF Descriptor
    <3> QED  BY <3>2, <3>3, <3>4, <3>5, <3>6
  <2>3. /\ call.op \in {"none", "read", "write", "destroy"}
        /\ call.fd \in Fd /\ call.left \in Nat /\ call.word \in AllWords
    BY <1>1 DEF IInv, CallOK
  <2>4. ret.status \in {"none", "ok", "error"}
    BY <1>1 DEF IInv
  <2> QED  BY <2>1, <2>2, <2>3, <2>4 DEF TypeOK
<1> QED  BY <1>1, VfsInvariant, PTL

\* However many descriptors share an inode, and whatever fails: an open
\* descriptor's inode is in use, so no flush writes into an inode that was
\* removed, and nothing that is to be written back is where no flush looks.
THEOREM NothingAstray == Spec => []NothingToFlushAstray
<1>1. ASSUME IInv PROVE NothingToFlushAstray
  <2>1. ASSUME NEW f \in Fd, NEW s \in Slot, fds[f].slot[s].dirty
        PROVE  fds[f].open /\ s <= fds[f].valid
    BY <1>1, <2>1 DEF IInv, CacheOK, Flushable
  <2> QED  BY <1>1, <2>1 DEF IInv, NothingToFlushAstray
<1> QED  BY <1>1, VfsInvariant, PTL

\* No read, write, seek, close, eviction or prefetch forgets a word that a
\* write has accepted, whether or not it fails.
THEOREM WordsSurvive == Spec => AcceptedWordsSurvive
<1>1. ASSUME IInv, [Next]_vars
      PROVE  [call.op # "destroy" =>
               \A f \in Fd, s \in Slot :
                 fds[f].slot[s].dirty =>
                   LET l == fds[f].slot[s].index
                       disk == inodes'[fds[f].inode].blocks[l]
                   IN  \/ disk = fds[f].slot[s].words
                       \/ \E t \in 1 .. fds'[f].valid :
                            /\ fds'[f].slot[t].index = l
                            /\ fds'[f].slot[t].dirty \/ fds'[f].slot[t].words = disk]_vars
  BY <1>1, StepKeeps DEF Accepted, Survives
<1> QED  BY <1>1, VfsInvariant, PTL DEF Spec, AcceptedWordsSurvive

--------------------------------------------------------------------------------
(* What open files hold. *)

\* What those programs and that disk are.
Careful == DiskFaults = FALSE /\ Careless = {}

\* The words that may be found in a file.
Own(i) == {0} \cup WordOf[i]

\* A file of this size has a word at o in cluster l; it has one in l.
InFile(size, l, o) == l * ClusterWords + o <= size
Begins(size, l) == l * ClusterWords < size

\* What the disk holds of inode n, the record of i.
OnDisk(n, i) ==
  \A l \in Logical : n.blocks[l] # Hole => \A o \in At : n.blocks[l][o] \in Own(i)

\* Every cluster inside the file is on the disk.
Complete(n) == \A l \in Logical : Begins(n.size, l) => n.blocks[l] # Hole

\* The descriptor d and the inode n of the file i together hold it: they agree
\* on its size; a cluster is in one slot at most; a slot without changes shows
\* what is on the disk; a cluster that is not on the disk is in a dirty slot.
Cached(d, n, i) ==
  /\ d.size = n.size /\ d.pos <= d.size
  /\ OnDisk(n, i)
  /\ \A s, t \in 1 .. d.valid : d.slot[s].index = d.slot[t].index => s = t
  /\ \A s \in 1 .. d.valid, o \in At : d.slot[s].words[o] \in Own(i)
  /\ \A s \in 1 .. d.valid : ~d.slot[s].dirty =>
       \A o \in At : InFile(n.size, d.slot[s].index, o) =>
         /\ n.blocks[d.slot[s].index] # Hole
         /\ d.slot[s].words[o] = n.blocks[d.slot[s].index][o]
  /\ \A l \in Logical : Begins(n.size, l) =>
       \/ n.blocks[l] # Hole
       \/ \E s \in 1 .. d.valid : d.slot[s].dirty /\ d.slot[s].index = l

\* A full disk keeps words of d in the cache, or d has the clusters there that
\* it may read next: a load that has to evict a slot does not fail for it.
Settled(d, n) ==
  \A s \in 1 .. d.valid : d.slot[s].dirty => n.blocks[d.slot[s].index] # Hole
Ahead(d) ==
  \A l \in Logical : Begins(d.size, l) /\ Here(d) <= l =>
    \E s \in 1 .. d.valid : d.slot[s].index = l
Readily(d, n) == Settled(d, n) \/ Ahead(d)

\* The clusters taken from the disk, by all inodes and by those other than i.
Taken(ns) == UNION {{j} \X Allocated(ns[j]) : j \in Inode}
TakenBut(ns, i) == UNION {{j} \X Allocated(ns[j]) : j \in Inode \ {i}}
WithinCapacity == Cardinality(Taken(inodes)) <= Capacity

OpenedOnce ==
  \A f, g \in Fd : fds[f].open /\ fds[g].open /\ fds[f].inode = fds[g].inode => f = g

Delivered ==
  call.op = "read" =>
    \A o \in DOMAIN ret.data : ret.data[o] \in Own(fds[call.fd].inode)

\* The inductive invariant, on top of IInv.
Tidy ==
  /\ OpenedOnce
  /\ WithinCapacity
  /\ \A f \in Fd : fds[f].open =>
       /\ Cached(fds[f], inodes[fds[f].inode], fds[f].inode)
       /\ Readily(fds[f], inodes[fds[f].inode])
  /\ \A i \in Inode : OpenOn(i) = {} => OnDisk(inodes[i], i) /\ Complete(inodes[i])
  /\ Delivered
  /\ call.op = "destroy" => \A f \in Fd, s \in Slot : ~fds[f].slot[s].dirty

------------------------------------------------------------------------------
(***************************************************************************)
(* The words of a file.                                                    *)
(***************************************************************************)
\* The word w is at o in cluster l of the file that d and n hold.
Shows(d, n, l, o, w) ==
  \/ \E s \in 1 .. d.valid : d.slot[s].index = l /\ w = d.slot[s].words[o]
  \/ /\ \A s \in 1 .. d.valid : d.slot[s].index # l
     /\ n.blocks[l] # Hole /\ w = n.blocks[l][o]

\* The file has not changed.
SameWords(d, n, e, m) ==
  /\ m.size = n.size
  /\ \A p \in 0 .. n.size - 1 : CachedWord(e, m, p) = CachedWord(d, n, p)

LEMMA Inside ==
  ASSUME NEW l \in Logical, NEW o \in At, NEW size \in Nat
  PROVE  /\ InFile(size, l, o) => Begins(size, l)
         /\ Begins(size, l) \/ l * ClusterWords >= size
<1> DEFINE k == l * ClusterWords
<1>1. l \in Nat /\ o \in Nat /\ o > 0 /\ ClusterWords \in Nat
  BY Sizes DEF Logical, At
<1>2. k \in Nat
  BY <1>1
<1> HIDE DEF k
<1>3. (k + o <= size => k < size) /\ (k < size \/ k >= size)
  BY <1>1, <1>2
<1> QED  BY <1>3 DEF InFile, Begins, k

\* The place of a word.
LEMMA WordPlace ==
  ASSUME NEW size \in 0 .. MaxWords, NEW p \in 0 .. size - 1
  PROVE  /\ p \div ClusterWords \in Logical /\ (p % ClusterWords) + 1 \in At
         /\ InFile(size, p \div ClusterWords, (p % ClusterWords) + 1)
         /\ (p \div ClusterWords) * ClusterWords + ((p % ClusterWords) + 1) = p + 1
<1> DEFINE q == p \div ClusterWords
           r == p % ClusterWords
<1>1. p \in 0 .. MaxWords /\ p \in Nat /\ size \in Nat /\ p < size
  BY Sizes
<1>2. q \in Logical /\ r \in 0 .. ClusterWords - 1 /\ p = ClusterWords * q + r
  BY <1>1, Place
<1> HIDE DEF q, r
<1>3. q \in Nat /\ ClusterWords \in Nat
  BY <1>2, Sizes DEF Logical
<1>4. q * ClusterWords = ClusterWords * q /\ q * ClusterWords \in Nat
  BY <1>3
<1> DEFINE k == q * ClusterWords
<1>5. p = k + r /\ k \in Nat
  BY <1>2, <1>4
<1> HIDE DEF k
<1>6. r + 1 \in At /\ k + (r + 1) = p + 1 /\ k + (r + 1) <= size
  BY <1>1, <1>2, <1>3, <1>5 DEF At
<1> QED  BY <1>2, <1>6 DEF q, r, k, InFile

LEMMA WordIs ==
  ASSUME NEW d, CacheOK(d), NEW n \in InodeRecord, NEW i, Cached(d, n, i),
         NEW p \in 0 .. n.size - 1
  PROVE  LET l == p \div ClusterWords
             o == (p % ClusterWords) + 1
         IN  /\ Shows(d, n, l, o, CachedWord(d, n, p))
             /\ \A w : Shows(d, n, l, o, w) => w = CachedWord(d, n, p)
<1> DEFINE l == p \div ClusterWords
           o == (p % ClusterWords) + 1
           x == CachedWord(d, n, p)
<1>1. n.size \in 0 .. MaxWords /\ d.valid \in 0 .. CacheClusters /\ n.size \in Nat
  BY Sizes DEF InodeRecord, CacheOK, Descriptor
<1>2. l \in Logical /\ o \in At /\ InFile(n.size, l, o)
  BY <1>1, WordPlace
<1>3. Begins(n.size, l)
  BY <1>1, <1>2, Inside
<1>4. x = IF Holding(d, l) # {} THEN d.slot[First(Holding(d, l))].words[o]
          ELSE IF n.blocks[l] # Hole THEN n.blocks[l][o]
          ELSE Lost
  BY DEF CachedWord
<1> HIDE DEF l, o, x
<1>5. CASE Holding(d, l) # {}
  <2> DEFINE h == First(Holding(d, l))
  <2>1. h \in Holding(d, l)
    BY <1>1, <1>5, HoldingType, FirstIs
  <2> HIDE DEF h
  <2>2. h \in 1 .. d.valid /\ d.slot[h].index = l
    BY <2>1 DEF Holding
  <2>3. x = d.slot[h].words[o]
    BY <1>4, <1>5 DEF h
  <2>4. \A s \in 1 .. d.valid : d.slot[s].index = l => s = h
    BY <2>2 DEF Cached
  <2>5. Shows(d, n, l, o, x)
    BY <2>2, <2>3 DEF Shows
  <2>6. \A w : Shows(d, n, l, o, w) => w = x
    BY <2>2, <2>3, <2>4 DEF Shows
  <2> QED  BY <2>5, <2>6 DEF l, o, x
<1>6. CASE Holding(d, l) = {}
  <2>1. \A s \in 1 .. d.valid : d.slot[s].index # l
    BY <1>6 DEF Holding
  <2>2. n.blocks[l] # Hole
    BY <1>2, <1>3, <2>1 DEF Cached
  <2>3. x = n.blocks[l][o]
    BY <1>4, <1>6, <2>2
  <2>4. Shows(d, n, l, o, x)
    BY <2>1, <2>2, <2>3 DEF Shows
  <2>5. \A w : Shows(d, n, l, o, w) => w = x
    BY <2>1, <2>3 DEF Shows
  <2> QED  BY <2>4, <2>5 DEF l, o, x
<1> QED  BY <1>5, <1>6

LEMMA SameIf ==
  ASSUME NEW d, CacheOK(d), NEW n \in InodeRecord, NEW i, Cached(d, n, i),
         NEW e, CacheOK(e), NEW m \in InodeRecord, Cached(e, m, i),
         m.size = n.size,
         \A l \in Logical, o \in At : InFile(n.size, l, o) =>
           \A w : Shows(d, n, l, o, w) => Shows(e, m, l, o, w)
  PROVE  SameWords(d, n, e, m)
<1>1. ASSUME NEW p \in 0 .. n.size - 1
      PROVE  CachedWord(e, m, p) = CachedWord(d, n, p)
  <2> DEFINE l == p \div ClusterWords
             o == (p % ClusterWords) + 1
             x == CachedWord(d, n, p)
             y == CachedWord(e, m, p)
  <2>1. n.size \in 0 .. MaxWords /\ p \in 0 .. m.size - 1
    BY DEF InodeRecord
  <2>2. l \in Logical /\ o \in At /\ InFile(n.size, l, o)
    BY <2>1, WordPlace
  <2>3. Shows(d, n, l, o, x)
    BY WordIs
  <2>4. \A w : Shows(e, m, l, o, w) => w = y
    BY <2>1, WordIs
  <2> HIDE DEF l, o, x, y
  <2>5. x = y
    BY <2>2, <2>3, <2>4
  <2> QED  BY <2>5 DEF x, y
<1> QED  BY <1>1 DEF SameWords

------------------------------------------------------------------------------
(***************************************************************************)
(* The cache holds the file through flushes and loads.                     *)
(***************************************************************************)
LEMMA ZeroOwn ==
  ASSUME NEW i, NEW o \in At
  PROVE  Zeros[o] \in Own(i)
BY DEF Zeros, Own

\* A slot goes to the disk: the file is the same.
LEMMA FlushTidy ==
  ASSUME NEW d, CacheOK(d), NEW n \in InodeRecord, NEW i, Cached(d, n, i),
         NEW S \in SUBSET (1 .. d.valid), NEW e, NEW m, Flushed(d, n, e, m, S)
  PROVE  /\ Cached(e, m, i) /\ SameWords(d, n, e, m)
         /\ \A l \in Logical : n.blocks[l] # Hole => m.blocks[l] # Hole
         /\ \A s \in 1 .. d.valid : d.slot[s].dirty /\ ~e.slot[s].dirty =>
              m.blocks[d.slot[s].index] # Hole
<1>1. /\ d \in Descriptor /\ d.valid \in 0 .. CacheClusters
      /\ 1 .. d.valid \subseteq Slot
  BY Sizes DEF CacheOK, Descriptor, Slot
<1>2. PICK F \in SUBSET Dirty(d, S) :
        /\ Stored(d, n, m, F)
        /\ \A s \in Slot : e.slot[s].dirty = (d.slot[s].dirty /\ s \notin F)
  BY DEF Flushed
<1>3. /\ CacheOK(e) /\ SameFile(d, e) /\ e.valid = d.valid
      /\ \A s \in Slot : e.slot[s].index = d.slot[s].index
                         /\ e.slot[s].words = d.slot[s].words
  BY DEF Flushed
<1>4. m \in InodeRecord /\ m.size = n.size /\ e.size = m.size /\ e.pos <= e.size
  BY <1>2, <1>3 DEF Stored, Cached, SameFile
<1>5. F \subseteq 1 .. d.valid
  BY DEF Dirty
<1>6. \A s \in 1 .. d.valid : /\ d.slot[s].index \in Logical /\ d.slot[s].words \in Block
                              /\ d.slot[s].dirty \in BOOLEAN
  BY <1>1 DEF Descriptor, SlotRecord
<1>7. \A s \in F : m.blocks[d.slot[s].index] = d.slot[s].words
  <2> SUFFICES ASSUME NEW s \in F
               PROVE  m.blocks[d.slot[s].index] = d.slot[s].words
    OBVIOUS
  <2>1. d.slot[s].index \in Logical
    BY <1>5, <1>6
  <2>2. PICK t \in F : d.slot[t].index = d.slot[s].index
                       /\ m.blocks[d.slot[s].index] = d.slot[t].words
    BY <1>2, <2>1 DEF Stored
  <2>3. s = t
    BY <1>5, <2>2 DEF Cached
  <2> QED  BY <2>2, <2>3
<1>8. \A s \in 1 .. d.valid : s \notin F =>
        \/ m.blocks[d.slot[s].index] = n.blocks[d.slot[s].index]
        \/ n.blocks[d.slot[s].index] = Hole /\ m.blocks[d.slot[s].index] = Zeros
  <2> SUFFICES ASSUME NEW s \in 1 .. d.valid, s \notin F
               PROVE  \/ m.blocks[d.slot[s].index] = n.blocks[d.slot[s].index]
                      \/ /\ n.blocks[d.slot[s].index] = Hole
                         /\ m.blocks[d.slot[s].index] = Zeros
    OBVIOUS
  <2>1. \A t \in F : d.slot[t].index # d.slot[s].index
    BY <1>5 DEF Cached
  <2> QED  BY <1>2, <1>6, <2>1 DEF Stored
<1>9. ASSUME NEW l \in Logical
      PROVE  /\ n.blocks[l] # Hole => m.blocks[l] # Hole
             /\ m.blocks[l] # Hole => \A o \in At : m.blocks[l][o] \in Own(i)
  <2>1. CASE \E s \in F : d.slot[s].index = l /\ m.blocks[l] = d.slot[s].words
    BY <1>5, <1>6, <2>1, HoleAssumption DEF Cached
  <2>2. CASE m.blocks[l] = n.blocks[l]
    BY <2>2 DEF Cached, OnDisk
  <2>3. CASE n.blocks[l] = Hole /\ m.blocks[l] = Zeros
    BY <2>3, ZeroOwn
  <2> QED  BY <1>2, <2>1, <2>2, <2>3 DEF Stored
<1>10. OnDisk(m, i)
  BY <1>9 DEF OnDisk
<1>11. /\ \A s, t \in 1 .. e.valid : e.slot[s].index = e.slot[t].index => s = t
       /\ \A s \in 1 .. e.valid, o \in At : e.slot[s].words[o] \in Own(i)
  BY <1>1, <1>3 DEF Cached
<1>12. \A s \in 1 .. d.valid : d.slot[s].dirty /\ ~e.slot[s].dirty =>
         m.blocks[d.slot[s].index] # Hole
  BY <1>1, <1>2, <1>6, <1>7, HoleAssumption
<1>13. ASSUME NEW s \in 1 .. e.valid, ~e.slot[s].dirty,
              NEW o \in At, InFile(m.size, e.slot[s].index, o)
       PROVE  /\ m.blocks[e.slot[s].index] # Hole
              /\ e.slot[s].words[o] = m.blocks[e.slot[s].index][o]
  <2>1. s \in 1 .. d.valid /\ s \in Slot
    BY <1>1, <1>3
  <2>2. CASE s \in F
    BY <1>3, <1>6, <1>7, <2>1, <2>2, HoleAssumption
  <2>3. CASE s \notin F
    <3>1. ~d.slot[s].dirty
      BY <1>2, <1>13, <2>1, <2>3
    <3>2. /\ n.blocks[d.slot[s].index] # Hole
          /\ d.slot[s].words[o] = n.blocks[d.slot[s].index][o]
      BY <1>3, <1>4, <1>13, <2>1, <3>1 DEF Cached
    <3>3. m.blocks[d.slot[s].index] = n.blocks[d.slot[s].index]
      BY <1>8, <2>1, <2>3, <3>2
    <3> QED  BY <1>3, <2>1, <3>2, <3>3
  <2> QED  BY <2>2, <2>3
<1>14. ASSUME NEW l \in Logical, Begins(m.size, l)
       PROVE  \/ m.blocks[l] # Hole
              \/ \E s \in 1 .. e.valid : e.slot[s].dirty /\ e.slot[s].index = l
  <2>1. CASE n.blocks[l] # Hole
    BY <1>9, <2>1
  <2>2. CASE \E s \in 1 .. d.valid : d.slot[s].dirty /\ d.slot[s].index = l
    <3>1. PICK s \in 1 .. d.valid : d.slot[s].dirty /\ d.slot[s].index = l
      BY <2>2
    <3> QED  BY <1>1, <1>3, <1>12, <3>1
  <2> QED  BY <1>4, <1>14, <2>1, <2>2 DEF Cached
<1>15. Cached(e, m, i)
  BY <1>4, <1>10, <1>11, <1>13, <1>14 DEF Cached
<1>16. ASSUME NEW l \in Logical, NEW o \in At, InFile(n.size, l, o),
              NEW w, Shows(d, n, l, o, w)
       PROVE  Shows(e, m, l, o, w)
  <2>1. CASE \E s \in 1 .. d.valid : d.slot[s].index = l /\ w = d.slot[s].words[o]
    BY <1>1, <1>3, <2>1 DEF Shows
  <2>2. CASE /\ \A s \in 1 .. d.valid : d.slot[s].index # l
             /\ n.blocks[l] # Hole /\ w = n.blocks[l][o]
    <3>1. m.blocks[l] = n.blocks[l]
      BY <1>2, <1>5, <2>2 DEF Stored
    <3>2. \A s \in 1 .. e.valid : e.slot[s].index # l
      BY <1>1, <1>3, <2>2
    <3> QED  BY <2>2, <3>1, <3>2 DEF Shows
  <2> QED  BY <1>16, <2>1, <2>2 DEF Shows
<1>17. SameWords(d, n, e, m)
  BY <1>3, <1>4, <1>15, <1>16, SameIf
<1>18. \A l \in Logical : n.blocks[l] # Hole => m.blocks[l] # Hole
  BY <1>9
<1> QED  BY <1>12, <1>15, <1>17, <1>18

\* A cluster that is in no slot comes into slot s, in place of one without
\* changes or as one more: the file is the same.
LEMMA FilledTidy ==
  ASSUME NEW e, CacheOK(e), NEW m \in InodeRecord, NEW i, Cached(e, m, i),
         NEW l \in Logical, Readable(m, l),
         \A t \in 1 .. e.valid : e.slot[t].index # l,
         NEW g, CacheOK(g), SameFile(e, g), NEW s \in 1 .. g.valid,
         e.valid <= g.valid,
         \A t \in 1 .. g.valid : t # s => t \in 1 .. e.valid,
         s \in 1 .. e.valid => ~e.slot[s].dirty,
         \A t \in Slot : t # s => g.slot[t] = e.slot[t],
         g.slot[s].index = l, g.slot[s].words = DiskWords(m, l), ~g.slot[s].dirty
  PROVE  Cached(g, m, i) /\ SameWords(e, m, g, m)
<1>1. /\ e.valid \in 0 .. CacheClusters /\ g.valid \in 0 .. CacheClusters
      /\ 1 .. e.valid \subseteq Slot /\ 1 .. g.valid \subseteq Slot
      /\ 1 .. e.valid \subseteq 1 .. g.valid
  BY Sizes DEF CacheOK, Descriptor, Slot
<1>2. \A t \in 1 .. g.valid : t # s => t \in 1 .. e.valid /\ g.slot[t] = e.slot[t]
                                       /\ g.slot[t].index # l
  BY <1>1
<1>3. m.size \in Nat
  BY Sizes DEF InodeRecord
<1>4. ASSUME NEW o \in At
      PROVE  /\ InFile(m.size, l, o) => /\ m.blocks[l] # Hole
                                        /\ g.slot[s].words[o] = m.blocks[l][o]
             /\ g.slot[s].words[o] \in Own(i)
  <2>1. g.slot[s].words[o] = IF InFile(m.size, l, o) THEN m.blocks[l][o] ELSE 0
    BY DEF DiskWords, InFile
  <2>2. InFile(m.size, l, o) => m.blocks[l] # Hole
    <3>1. InFile(m.size, l, o) => ~(l * ClusterWords >= m.size)
      <4>1. l \in Nat /\ o \in Nat /\ o > 0 /\ ClusterWords \in Nat
        BY Sizes DEF Logical, At
      <4> DEFINE k == l * ClusterWords
      <4>2. k \in Nat
        BY <4>1
      <4> HIDE DEF k
      <4>3. k + o <= m.size => ~(k >= m.size)
        BY <1>3, <4>1, <4>2
      <4> QED  BY <4>3 DEF k, InFile
    <3> QED  BY <3>1 DEF Readable
  <2>3. m.blocks[l] # Hole => m.blocks[l][o] \in Own(i)
    BY DEF Cached, OnDisk
  <2> QED  BY <2>1, <2>2, <2>3 DEF Own
<1>5. \A t, u \in 1 .. g.valid : g.slot[t].index = g.slot[u].index => t = u
  <2> SUFFICES ASSUME NEW t \in 1 .. g.valid, NEW u \in 1 .. g.valid,
                      g.slot[t].index = g.slot[u].index
               PROVE  t = u
    OBVIOUS
  <2>1. CASE t = s \/ u = s
    BY <1>2, <2>1
  <2>2. CASE t # s /\ u # s
    BY <1>2, <2>2 DEF Cached
  <2> QED  BY <2>1, <2>2
<1>6. \A t \in 1 .. g.valid, o \in At : g.slot[t].words[o] \in Own(i)
  BY <1>2, <1>4 DEF Cached
<1>7. ASSUME NEW t \in 1 .. g.valid, ~g.slot[t].dirty,
             NEW o \in At, InFile(m.size, g.slot[t].index, o)
      PROVE  /\ m.blocks[g.slot[t].index] # Hole
             /\ g.slot[t].words[o] = m.blocks[g.slot[t].index][o]
  <2>1. CASE t = s
    BY <1>4, <1>7, <2>1
  <2>2. CASE t # s
    BY <1>2, <1>7, <2>2 DEF Cached
  <2> QED  BY <2>1, <2>2
<1>8. ASSUME NEW x \in Logical, Begins(m.size, x)
      PROVE  \/ m.blocks[x] # Hole
             \/ \E t \in 1 .. g.valid : g.slot[t].dirty /\ g.slot[t].index = x
  <2>1. CASE \E t \in 1 .. e.valid : e.slot[t].dirty /\ e.slot[t].index = x
    <3>1. PICK t \in 1 .. e.valid : e.slot[t].dirty /\ e.slot[t].index = x
      BY <2>1
    <3>2. t # s /\ t \in 1 .. g.valid
      BY <1>1, <3>1
    <3> QED  BY <1>2, <3>1, <3>2
  <2> QED  BY <1>8, <2>1 DEF Cached
<1>9. Cached(g, m, i)
  <2>1. g.size = m.size /\ g.pos <= g.size /\ OnDisk(m, i)
    BY DEF Cached, SameFile
  <2> QED  BY <1>5, <1>6, <1>7, <1>8, <2>1 DEF Cached
<1>10. ASSUME NEW x \in Logical, NEW o \in At, InFile(m.size, x, o),
              NEW w, Shows(e, m, x, o, w)
       PROVE  Shows(g, m, x, o, w)
  <2>1. CASE \E t \in 1 .. e.valid : e.slot[t].index = x /\ w = e.slot[t].words[o]
    <3>1. PICK t \in 1 .. e.valid : e.slot[t].index = x /\ w = e.slot[t].words[o]
      BY <2>1
    <3>2. CASE t # s
      <4>1. t \in 1 .. g.valid /\ g.slot[t] = e.slot[t]
        BY <1>1, <3>2
      <4> QED  BY <3>1, <4>1 DEF Shows
    <3>3. CASE t = s
      <4>1. m.blocks[x] # Hole /\ w = m.blocks[x][o]
        BY <1>10, <3>1, <3>3 DEF Cached
      <4>2. \A u \in 1 .. g.valid : g.slot[u].index # x
        <5>1. x # l
          BY <3>1
        <5>2. \A u \in 1 .. e.valid : e.slot[u].index = x => u = s
          BY <3>1, <3>3 DEF Cached
        <5> QED  BY <1>2, <5>1, <5>2
      <4> QED  BY <4>1, <4>2 DEF Shows
    <3> QED  BY <3>2, <3>3
  <2>2. CASE /\ \A t \in 1 .. e.valid : e.slot[t].index # x
             /\ m.blocks[x] # Hole /\ w = m.blocks[x][o]
    <3>1. CASE x = l
      BY <1>4, <1>10, <2>2, <3>1 DEF Shows
    <3>2. CASE x # l
      <4>1. \A u \in 1 .. g.valid : g.slot[u].index # x
        BY <1>2, <2>2, <3>2
      <4> QED  BY <2>2, <4>1 DEF Shows
    <3> QED  BY <3>1, <3>2
  <2> QED  BY <1>10, <2>1, <2>2 DEF Shows
<1>11. SameWords(e, m, g, m)
  BY <1>9, <1>10, SameIf
<1> QED  BY <1>9, <1>11

LEMMA SameFirst ==
  ASSUME NEW d, NEW n, NEW e, NEW m, NEW g, NEW k,
         SameWords(d, n, e, m), SameWords(e, m, g, k)
  PROVE  SameWords(d, n, g, k)
BY DEF SameWords

\* The stamps do not matter, nor does the position inside the file.
LEMMA SlotsTidy ==
  ASSUME NEW d, CacheOK(d), NEW n \in InodeRecord, NEW i, Cached(d, n, i),
         NEW e, CacheOK(e), e.size = d.size, e.pos <= e.size,
         e.valid = d.valid, e.slot = d.slot
  PROVE  Cached(e, n, i) /\ SameWords(d, n, e, n)
<1>1. Cached(e, n, i)
  BY DEF Cached
<1>2. \A l \in Logical, o \in At : InFile(n.size, l, o) =>
        \A w : Shows(d, n, l, o, w) => Shows(e, n, l, o, w)
  BY DEF Shows
<1>3. SameWords(d, n, e, n)
  BY <1>1, <1>2, SameIf
<1> QED  BY <1>1, <1>3

\* What is in the new slot of a cache with room.
LEMMA RoomFilled ==
  ASSUME NEW d, CacheOK(d), NEW n \in InodeRecord, NEW l \in Logical, NEW r,
         RoomForIt(d, n, l, r), r.ok = TRUE
  PROVE  LET s == d.valid + 1
             e == r.d
         IN  /\ Readable(n, l) /\ r.n = n
             /\ CacheOK(e) /\ SameFile(d, e) /\ e.valid = s /\ s \in Slot
             /\ \A t \in Slot : t # s => e.slot[t] = d.slot[t]
             /\ e.slot[s].index = l /\ e.slot[s].words = DiskWords(n, l)
             /\ ~e.slot[s].dirty
<1> DEFINE s == d.valid + 1
           g == [d EXCEPT !.valid = s]
           rec == [index |-> l, words |-> DiskWords(n, l), dirty |-> FALSE]
           e == r.d
<1>1. /\ d.valid \in 0 .. CacheClusters /\ d.valid < CacheClusters
      /\ Stamps(d.recent, d.valid)
  BY DEF RoomForIt, CacheOK, Descriptor, Ordered
<1>2. /\ g \in Descriptor /\ g.valid = s /\ g.recent = d.recent /\ g.slot = d.slot
      /\ s \in Slot
  BY <1>1, SlotAdded
<1>3. Readable(n, l) /\ e = Filled(g, n, l, s) /\ r.n = n
  BY DEF RoomForIt
<1>4. rec \in SlotRecord
  BY <1>3, DiskWordsType DEF SlotRecord
<1>5. Stamps(Append(RemoveFirst(d.recent, s), s), s)
  BY <1>1, TouchNew
<1>6. e = Touch([g EXCEPT !.slot[s] = rec], s)
  BY <1>3 DEF Filled
<1>7. rec.index = l /\ rec.words = DiskWords(n, l) /\ ~rec.dirty
  OBVIOUS
<1>8. CacheOK(e) /\ SameFile(d, e)
  BY RoomSound DEF Loaded
<1> HIDE DEF g, rec, s, e
<1>9. Stamps(Append(RemoveFirst(g.recent, s), s), g.valid)
  BY <1>2, <1>5
<1>10. /\ e.valid = g.valid
       /\ \A t \in Slot : e.slot[t] = IF t = s THEN rec ELSE g.slot[t]
  BY <1>2, <1>4, <1>6, <1>9, SlotFilled
<1>11. e.valid = s /\ e.slot[s] = rec /\ \A t \in Slot : t # s => e.slot[t] = d.slot[t]
  BY <1>2, <1>10
<1> QED  BY <1>2, <1>3, <1>7, <1>8, <1>11 DEF s, e

\* What is in the slot whose cluster had to go.
LEMMA OldestFilled ==
  ASSUME NEW d, CacheOK(d), NEW m \in InodeRecord, NEW l \in Logical,
         Readable(m, l), NEW o \in 1 .. d.valid
  PROVE  LET e == Filled(d, m, l, o)
         IN  /\ SameFile(d, e) /\ e.valid = d.valid
             /\ \A t \in Slot : t # o => e.slot[t] = d.slot[t]
             /\ e.slot[o].index = l /\ e.slot[o].words = DiskWords(m, l)
             /\ ~e.slot[o].dirty
<1> DEFINE rec == [index |-> l, words |-> DiskWords(m, l), dirty |-> FALSE]
           e == Filled(d, m, l, o)
<1>1. d \in Descriptor /\ d.valid \in 0 .. CacheClusters /\ Stamps(d.recent, d.valid)
  BY DEF CacheOK, Descriptor, Ordered
<1>2. o \in Slot
  BY <1>1, Sizes DEF Slot
<1>3. rec \in SlotRecord
  BY DiskWordsType DEF SlotRecord
<1>4. Stamps(Append(RemoveFirst(d.recent, o), o), d.valid)
  BY <1>1, TouchHeld
<1>5. e = Touch([d EXCEPT !.slot[o] = rec], o)
  BY DEF Filled
<1>6. rec.index = l /\ rec.words = DiskWords(m, l) /\ ~rec.dirty
  OBVIOUS
<1> HIDE DEF rec, e
<1>7. /\ SameFile(d, e) /\ e.valid = d.valid
      /\ \A t \in Slot : e.slot[t] = IF t = o THEN rec ELSE d.slot[t]
  BY <1>1, <1>2, <1>3, <1>4, <1>5, SlotFilled
<1>8. e.slot[o] = rec /\ \A t \in Slot : t # o => e.slot[t] = d.slot[t]
  BY <1>2, <1>7
<1> QED  BY <1>6, <1>7, <1>8 DEF e

LEMMA MissingIsReadable ==
  ASSUME NEW d, NEW n \in InodeRecord, NEW i, Cached(d, n, i), NEW l \in Logical,
         Holding(d, l) = {}
  PROVE  Readable(n, l)
<1>1. n.size \in Nat /\ l \in Nat /\ ClusterWords \in Nat
  BY Sizes DEF InodeRecord, Logical
<1>2. CASE Begins(n.size, l)
  <2>1. \A s \in 1 .. d.valid : d.slot[s].index # l
    BY DEF Holding
  <2>2. n.blocks[l] # Hole
    BY <1>2, <2>1 DEF Cached
  <2> QED  BY <2>2 DEF Readable
<1>3. CASE ~Begins(n.size, l)
  <2> DEFINE k == l * ClusterWords
  <2>1. k \in Nat /\ ~(k < n.size)
    BY <1>1, <1>3 DEF Begins
  <2> HIDE DEF k
  <2>2. k >= n.size
    BY <1>1, <2>1
  <2> QED  BY <2>2 DEF Readable, k
<1> QED  BY <1>2, <1>3

\* A cluster that is read into a free slot.
LEMMA RoomTidy ==
  ASSUME NEW d, CacheOK(d), NEW n \in InodeRecord, NEW i, Cached(d, n, i),
         NEW l \in Logical, NEW r, RoomForIt(d, n, l, r), r.ok = TRUE
  PROVE  r.n = n /\ Cached(r.d, n, i) /\ SameWords(d, n, r.d, n)
<1> DEFINE s == d.valid + 1
           e == r.d
<1>1. Holding(d, l) = {} /\ d.valid \in 0 .. CacheClusters
  BY DEF RoomForIt, CacheOK, Descriptor
<1>2. /\ Readable(n, l) /\ r.n = n
      /\ CacheOK(e) /\ SameFile(d, e) /\ e.valid = s /\ s \in Slot
      /\ \A t \in Slot : t # s => e.slot[t] = d.slot[t]
      /\ e.slot[s].index = l /\ e.slot[s].words = DiskWords(n, l)
      /\ ~e.slot[s].dirty
  BY RoomFilled, Zenon
<1>3. /\ d.valid <= s /\ s \in 1 .. s /\ s \notin 1 .. d.valid
      /\ \A t \in 1 .. s : t # s => t \in 1 .. d.valid
  BY <1>1
<1>4. \A t \in 1 .. d.valid : d.slot[t].index # l
  BY <1>1 DEF Holding
<1> HIDE DEF s, e
<1>5. Cached(e, n, i) /\ SameWords(d, n, e, n)
  BY <1>2, <1>3, <1>4, FilledTidy
<1> QED  BY <1>2, <1>5 DEF e

\* Loading a cluster, whether or not another has to go and can go.
LEMMA LoadTidy ==
  ASSUME NEW d, CacheOK(d), NEW n \in InodeRecord, NEW i, Cached(d, n, i),
         DiskFaults = FALSE, NEW budget, NEW l \in Logical,
         NEW r \in Load(d, n, budget, l)
  PROVE  Cached(r.d, r.n, i) /\ SameWords(d, n, r.d, r.n)
<1>1. d \in Descriptor /\ d.valid \in 0 .. CacheClusters /\ d.pos <= d.size
  BY DEF CacheOK, Descriptor, Cached
<1>2. Loaded(d, n, l, r)
  BY LoadSound
<1>3. CASE FoundThere(d, n, l, r)
  <2> DEFINE h == First(Holding(d, l))
             e == r.d
  <2>1. h \in Holding(d, l)
    BY <1>1, <1>3, HoldingType, FirstIs DEF FoundThere
  <2>2. h \in 1 .. d.valid
    BY <2>1 DEF Holding
  <2>3. r.n = n /\ e = Touch(d, h)
    BY <1>3 DEF FoundThere
  <2> HIDE DEF h, e
  <2>4. CacheOK(e) /\ SameFile(d, e) /\ e.valid = d.valid /\ e.slot = d.slot
    BY <2>2, <2>3, SlotTouched
  <2>5. e.size = d.size /\ e.pos <= e.size
    BY <1>1, <2>4 DEF SameFile
  <2>6. Cached(e, n, i) /\ SameWords(d, n, e, n)
    BY <2>4, <2>5, SlotsTidy
  <2> QED  BY <2>3, <2>6 DEF e
<1>4. CASE RoomForIt(d, n, l, r)
  <2>1. Holding(d, l) = {}
    BY <1>4 DEF RoomForIt
  <2>2. Readable(n, l)
    BY <2>1, MissingIsReadable
  <2>3. r.ok = TRUE
    BY <1>4, <2>2 DEF RoomForIt
  <2>4. r.n = n /\ Cached(r.d, n, i) /\ SameWords(d, n, r.d, n)
    BY <1>4, <2>3, RoomTidy
  <2> DEFINE m == r.n
             e == r.d
  <2>5. m = n /\ Cached(e, n, i) /\ SameWords(d, n, e, n)
    BY <2>4
  <2> HIDE DEF m, e
  <2>6. Cached(e, m, i) /\ SameWords(d, n, e, m)
    BY <2>5
  <2> QED  BY <2>6 DEF m, e
<1>5. CASE OldestGoes(d, n, budget, l, r)
  <2> DEFINE o == r.s
  <2>1. PICK q \in FlushSlot(d, n, budget, o) :
          /\ r.n = q.n
          /\ \/ /\ q.ok /\ Readable(q.n, l) /\ r.ok = TRUE
                /\ r.d = Filled(q.d, q.n, l, o)
             \/ r.ok = FALSE /\ r.d = q.d
    BY <1>5 DEF OldestGoes
  <2>2. d.valid = CacheClusters /\ Holding(d, l) = {}
    BY <1>1, <1>5, Sizes DEF OldestGoes
  <2>3. o \in 1 .. d.valid
    BY <1>5, OldestIs DEF OldestGoes
  <2> DEFINE e == q.d
             m == q.n
             S == {o}
  <2> HIDE DEF o
  <2>4. /\ Flushed(d, n, e, m, S)
        /\ q.ok => ~e.slot[o].dirty
    BY <2>1, <2>3, FlushSlotKeeps
  <2>5. S \in SUBSET (1 .. d.valid)
    BY <2>3
  <2> HIDE DEF e, m, S
  <2>6. Cached(e, m, i) /\ SameWords(d, n, e, m)
    BY <2>4, <2>5, FlushTidy
  <2>7. /\ CacheOK(e) /\ SameFile(d, e) /\ e.valid = d.valid
        /\ \A s \in Slot : e.slot[s].index = d.slot[s].index
        /\ m \in InodeRecord
    BY <2>4 DEF Flushed, Stored
  <2>8. CASE r.ok = FALSE /\ r.d = q.d
    BY <2>1, <2>6, <2>8 DEF e, m
  <2>9. CASE q.ok /\ Readable(m, l) /\ r.d = Filled(e, m, l, o)
    <3> DEFINE g == r.d
    <3>1. o \in 1 .. e.valid
      BY <2>3, <2>7
    <3>2. /\ SameFile(e, g) /\ g.valid = e.valid
          /\ \A t \in Slot : t # o => g.slot[t] = e.slot[t]
          /\ g.slot[o].index = l /\ g.slot[o].words = DiskWords(m, l)
          /\ ~g.slot[o].dirty
      BY <2>7, <2>9, <3>1, OldestFilled
    <3>3. CacheOK(g)
      BY <1>2 DEF Loaded
    <3>4. \A t \in 1 .. e.valid : e.slot[t].index # l
      BY <1>1, <2>2, <2>7, Sizes DEF Holding, Slot
    <3>5. /\ e.valid <= g.valid /\ o \in 1 .. g.valid
          /\ \A t \in 1 .. g.valid : t # o => t \in 1 .. e.valid
          /\ o \in 1 .. e.valid => ~e.slot[o].dirty
      BY <1>1, <2>4, <2>7, <2>9, <3>1, <3>2
    <3> HIDE DEF g
    <3>6. Cached(g, m, i) /\ SameWords(e, m, g, m)
      BY <2>6, <2>7, <2>9, <3>2, <3>3, <3>4, <3>5, FilledTidy
    <3>7. SameWords(d, n, g, m)
      BY <2>6, <3>6, SameFirst
    <3> QED  BY <2>1, <3>6, <3>7 DEF g, m
  <2> QED  BY <2>1, <2>8, <2>9 DEF e, m
<1> QED  BY <1>3, <1>4, <1>5, LoadCases

LEMMA PrefetchTidy ==
  ASSUME NEW d, CacheOK(d), NEW n \in InodeRecord, NEW i, Cached(d, n, i),
         NEW l \in Logical, NEW e \in Prefetch(d, n, l)
  PROVE  Cached(e, n, i) /\ SameWords(d, n, e, n)
<1>1. e = d \/ \E r : RoomForIt(d, n, l, r) /\ r.ok = TRUE /\ r.d = e
  BY PrefetchSound, ZenonT(60)
<1>2. CASE e = d
  BY <1>2 DEF SameWords
<1>3. CASE \E r : RoomForIt(d, n, l, r) /\ r.ok = TRUE /\ r.d = e
  <2>1. PICK r : RoomForIt(d, n, l, r) /\ r.ok = TRUE /\ r.d = e
    BY <1>3
  <2>2. r.n = n /\ Cached(r.d, n, i) /\ SameWords(d, n, r.d, n)
    BY <2>1, RoomTidy
  <2> DEFINE g == r.d
  <2>3. g = e /\ Cached(g, n, i) /\ SameWords(d, n, g, n)
    BY <2>1, <2>2
  <2> HIDE DEF g
  <2> QED  BY <2>3
<1> QED  BY <1>1, <1>2, <1>3

------------------------------------------------------------------------------
(***************************************************************************)
(* Writing.                                                                *)
(***************************************************************************)
\* Clusters do not overlap.
LEMMA Apart ==
  ASSUME NEW k \in Nat, NEW l \in Nat, k < l
  PROVE  k * ClusterWords + ClusterWords <= l * ClusterWords
<1> DEFINE c == ClusterWords
<1>1. c \in Nat
  BY Sizes
<1> HIDE DEF c
<1>2. l - (k + 1) \in Nat
  OBVIOUS
<1> DEFINE j == l - (k + 1)
<1>3. l = k + 1 + j /\ j \in Nat
  BY <1>2
<1> HIDE DEF j
<1>4. l * c = k * c + c + j * c
  BY <1>1, <1>3
<1>5. k * c \in Nat /\ j * c \in Nat
  BY <1>1, <1>3
<1>6. k * c + c <= l * c
  BY <1>1, <1>4, <1>5
<1> QED  BY <1>6 DEF c

\* The size of a file once c words have been written at pos.
Grown(size, pos, c) == IF pos + c > size THEN pos + c ELSE size

\* What is written in one cluster does not reach into another.
LEMMA OtherCluster ==
  ASSUME NEW size \in Nat, NEW pos \in Nat, pos <= size, NEW c \in Nat,
         (pos % ClusterWords) + c <= ClusterWords,
         NEW x \in Logical, x # pos \div ClusterWords
  PROVE  /\ Begins(Grown(size, pos, c), x) => Begins(size, x)
         /\ \A o \in At : InFile(Grown(size, pos, c), x, o) =>
              /\ InFile(size, x, o)
              /\ ~(pos < x * ClusterWords + o /\ x * ClusterWords + o <= pos + c)
<1> DEFINE l == pos \div ClusterWords
           r == pos % ClusterWords
           a == l * ClusterWords
           b == x * ClusterWords
           new == Grown(size, pos, c)
<1>1. ClusterWords \in Nat \ {0} /\ x \in Nat
  BY Sizes DEF Logical
<1>2. l \in Nat /\ r \in 0 .. ClusterWords - 1 /\ pos = ClusterWords * l + r
  BY <1>1
<1>3. a \in Nat /\ b \in Nat /\ ClusterWords * l = a
  BY <1>1, <1>2
<1>4. \/ x < l /\ b + ClusterWords <= a
      \/ l < x /\ a + ClusterWords <= b
  <2>1. x < l \/ l < x
    BY <1>1, <1>2
  <2> QED  BY <1>1, <1>2, <2>1, Apart
<1>5. pos = a + r /\ r + c <= ClusterWords
  BY <1>2, <1>3
<1>6. new = IF pos + c > size THEN pos + c ELSE size
  BY DEF Grown
<1> HIDE DEF l, r, a, b, new
<1>7. b < new => b < size
  BY <1>1, <1>2, <1>3, <1>4, <1>5, <1>6
<1>8. \A o \in At : b + o <= new =>
        b + o <= size /\ ~(pos < b + o /\ b + o <= pos + c)
  <2>1. \A o \in At : o \in Nat /\ o > 0 /\ o <= ClusterWords
    BY <1>1 DEF At
  <2> QED  BY <1>1, <1>2, <1>3, <1>4, <1>5, <1>6, <2>1
<1> QED  BY <1>7, <1>8 DEF Begins, InFile, b, new

LEMMA WrittenIs ==
  ASSUME NEW d, CacheOK(d), NEW s \in 1 .. d.valid, NEW c
  PROVE  LET e == Written(d, s, c)
         IN  /\ e.size = Grown(d.size, d.pos, c)
             /\ \A o \in At : e.slot[s].words[o] =
                  IF Offset(d) < o /\ o <= Offset(d) + c THEN call.word
                  ELSE d.slot[s].words[o]
<1> DEFINE words == [o \in At |-> IF Offset(d) < o /\ o <= Offset(d) + c THEN call.word
                                  ELSE d.slot[s].words[o]]
           rec == [d.slot[s] EXCEPT !.dirty = TRUE, !.words = words]
           e == [d EXCEPT !.pos = d.pos + c, !.size = Grown(d.size, d.pos, c),
                          !.slot[s] = rec]
<1>1. d \in Descriptor /\ d.valid \in 0 .. CacheClusters /\ d.slot \in [Slot -> SlotRecord]
  BY DEF CacheOK, Descriptor
<1>2. s \in Slot
  BY <1>1, Sizes DEF Slot
<1>3. d.slot[s] \in SlotRecord
  BY <1>1, <1>2
<1>4. Written(d, s, c) = e
  BY <1>1, <1>2, <1>3 DEF Written, Grown, Descriptor, SlotRecord
<1>5. \A o \in At : words[o] = IF Offset(d) < o /\ o <= Offset(d) + c THEN call.word
                               ELSE d.slot[s].words[o]
  OBVIOUS
<1> HIDE DEF words
<1>6. rec.words = words
  BY <1>3 DEF SlotRecord
<1> HIDE DEF rec
<1>7. e.size = Grown(d.size, d.pos, c) /\ e.slot[s] = rec
  BY <1>1, <1>2 DEF Descriptor
<1> HIDE DEF e
<1>8. \A o \in At : e.slot[s].words[o] =
        IF Offset(d) < o /\ o <= Offset(d) + c THEN call.word ELSE d.slot[s].words[o]
  BY <1>5, <1>6, <1>7
<1> QED  BY <1>4, <1>7, <1>8

\* A position of the cluster that is written, seen from its place in it.
LEMMA SameCluster ==
  ASSUME NEW pos \in Nat, NEW o \in At, NEW c \in Nat
  PROVE  LET end == (pos \div ClusterWords) * ClusterWords + o
         IN  /\ pos % ClusterWords < o <=> pos < end
             /\ o <= (pos % ClusterWords) + c <=> end <= pos + c
<1> DEFINE l == pos \div ClusterWords
           r == pos % ClusterWords
           a == l * ClusterWords
<1>1. ClusterWords \in Nat \ {0} /\ o \in Nat
  BY Sizes DEF At
<1>2. l \in Nat /\ r \in Nat /\ pos = ClusterWords * l + r
  BY <1>1
<1>3. a \in Nat /\ ClusterWords * l = a
  BY <1>1, <1>2
<1>4. pos = a + r
  BY <1>2, <1>3
<1> HIDE DEF l, r, a
<1>5. (r < o <=> pos < a + o) /\ (o <= r + c <=> a + o <= pos + c)
  BY <1>1, <1>2, <1>3, <1>4
<1> QED  BY <1>5 DEF l, r, a

\* The file after a round of writing that is not flushed yet: the words that
\* were written are at their positions, and the others are where they were.
Overwritten(d, n, e, m, c, word) ==
  /\ m.size = Grown(n.size, d.pos, c)
  /\ \A p \in 0 .. m.size - 1 :
       CachedWord(e, m, p) = IF d.pos <= p /\ p < d.pos + c THEN word
                             ELSE CachedWord(d, n, p)

LEMMA WriteTidy ==
  ASSUME NEW d, CacheOK(d), NEW n \in InodeRecord, NEW i, Cached(d, n, i),
         NEW s \in 1 .. d.valid, d.slot[s].index = Here(d),
         NEW c \in Nat, Offset(d) + c <= ClusterWords,
         d.pos + c \in 0 .. MaxWords,
         call.word \in AllWords, call.word \in WordOf[i],
         NEW e, e = Written(d, s, c),
         NEW m \in InodeRecord, m.blocks = n.blocks, m.size = e.size
  PROVE  Cached(e, m, i) /\ Overwritten(d, n, e, m, c, call.word)
<1> DEFINE l == Here(d)
           pos == d.pos
<1>1. /\ d \in Descriptor /\ d.valid \in 0 .. CacheClusters /\ pos \in 0 .. MaxWords
      /\ d.slot \in [Slot -> SlotRecord] /\ 1 .. d.valid \subseteq Slot
  BY Sizes DEF CacheOK, Descriptor, Slot
<1>2. /\ n.size \in Nat /\ pos \in Nat /\ pos <= n.size /\ d.size = n.size
  BY <1>1, Sizes DEF InodeRecord, Cached
<1>3. \A t \in 1 .. d.valid : d.slot[t].index = d.slot[s].index => t = s
  BY DEF Cached
<1>4. \A t \in 1 .. d.valid : d.slot[t].index = d.slot[s].index => s <= t
  BY <1>1, <1>3, Sizes
<1>5. /\ CacheOK(e) /\ e.open = d.open /\ e.inode = d.inode
      /\ e.pos = pos + c /\ e.valid = d.valid
      /\ e.slot[s].index = d.slot[s].index /\ e.slot[s].dirty
      /\ \A t \in Slot : t # s => e.slot[t] = d.slot[t]
  BY <1>4, WrittenSound
<1>6. /\ e.size = Grown(d.size, pos, c)
      /\ \A o \in At : e.slot[s].words[o] =
           IF Offset(d) < o /\ o <= Offset(d) + c THEN call.word ELSE d.slot[s].words[o]
  BY WrittenIs
<1>7. m.size = Grown(n.size, pos, c) /\ e.size = m.size
  BY <1>2, <1>6
<1>8. l \in Logical /\ l = pos \div ClusterWords /\ Offset(d) = pos % ClusterWords
      /\ d.slot[s].index = l
  BY <1>1, Place DEF Here, Offset
<1> HIDE DEF l
<1>9. ASSUME NEW x \in Logical, x # l
      PROVE  /\ Begins(m.size, x) => Begins(n.size, x)
             /\ \A o \in At : InFile(m.size, x, o) =>
                  /\ InFile(n.size, x, o)
                  /\ ~(pos < x * ClusterWords + o /\ x * ClusterWords + o <= pos + c)
  <2>1. (pos % ClusterWords) + c <= ClusterWords
    BY <1>8
  <2> HIDE DEF pos
  <2> QED  BY <1>2, <1>7, <1>8, <1>9, <2>1, OtherCluster
<1>10. \A t \in 1 .. e.valid : t # s => e.slot[t] = d.slot[t] /\ d.slot[t].index # l
  BY <1>1, <1>3, <1>5, <1>8
<1>11. \A t \in 1 .. d.valid : d.slot[t].index \in Logical
  BY <1>1 DEF SlotRecord
<1>12. Cached(e, m, i)
  <2>1. e.pos <= e.size
    BY <1>2, <1>5, <1>6 DEF Grown
  <2>2. OnDisk(m, i)
    BY DEF Cached, OnDisk
  <2>3. \A t, u \in 1 .. e.valid : e.slot[t].index = e.slot[u].index => t = u
    <3>1. \A t \in 1 .. e.valid : e.slot[t].index = d.slot[t].index
      BY <1>5, <1>10
    <3> QED  BY <1>5, <3>1 DEF Cached
  <2>4. \A t \in 1 .. e.valid, o \in At : e.slot[t].words[o] \in Own(i)
    <3>1. \A o \in At : e.slot[s].words[o] \in Own(i)
      BY <1>6 DEF Cached, Own
    <3> QED  BY <1>5, <1>10, <3>1 DEF Cached
  <2>5. ASSUME NEW t \in 1 .. e.valid, ~e.slot[t].dirty,
               NEW o \in At, InFile(m.size, e.slot[t].index, o)
        PROVE  /\ m.blocks[e.slot[t].index] # Hole
               /\ e.slot[t].words[o] = m.blocks[e.slot[t].index][o]
    <3>1. t # s /\ e.slot[t] = d.slot[t] /\ d.slot[t].index # l
          /\ d.slot[t].index \in Logical
      BY <1>5, <1>10, <1>11, <2>5
    <3>2. InFile(n.size, d.slot[t].index, o)
      BY <1>9, <2>5, <3>1
    <3> QED  BY <1>5, <2>5, <3>1, <3>2 DEF Cached
  <2>6. ASSUME NEW x \in Logical, Begins(m.size, x)
        PROVE  \/ m.blocks[x] # Hole
               \/ \E t \in 1 .. e.valid : e.slot[t].dirty /\ e.slot[t].index = x
    <3>1. CASE x = l
      BY <1>5, <1>8, <3>1
    <3>2. CASE x # l
      <4>1. \/ n.blocks[x] # Hole
            \/ \E t \in 1 .. d.valid : d.slot[t].dirty /\ d.slot[t].index = x
        BY <1>9, <2>6, <3>2 DEF Cached
      <4>2. CASE n.blocks[x] # Hole
        BY <4>2
      <4>3. CASE \E t \in 1 .. d.valid : d.slot[t].dirty /\ d.slot[t].index = x
        <5>1. PICK t \in 1 .. d.valid : d.slot[t].dirty /\ d.slot[t].index = x
          BY <4>3
        <5>2. t # s
          BY <1>8, <3>2, <5>1
        <5> QED  BY <1>5, <1>10, <5>1, <5>2
      <4> QED  BY <4>1, <4>2, <4>3
    <3> QED  BY <3>1, <3>2
  <2> QED  BY <1>7, <2>1, <2>2, <2>3, <2>4, <2>5, <2>6 DEF Cached
<1>13. ASSUME NEW p \in 0 .. m.size - 1
       PROVE  CachedWord(e, m, p) = IF pos <= p /\ p < pos + c THEN call.word
                                    ELSE CachedWord(d, n, p)
  <2> DEFINE x == p \div ClusterWords
             o == (p % ClusterWords) + 1
             y == CachedWord(e, m, p)
             w == CachedWord(d, n, p)
  <2>1. m.size \in 0 .. MaxWords
    BY DEF InodeRecord
  <2>2. x \in Logical /\ o \in At /\ InFile(m.size, x, o) /\ x * ClusterWords + o = p + 1
    BY <2>1, WordPlace
  <2>3. \A v : Shows(e, m, x, o, v) => v = y
    BY <1>5, <1>12, WordIs
  <2>4. p < n.size => Shows(d, n, x, o, w)
    <3> SUFFICES ASSUME p < n.size PROVE Shows(d, n, x, o, w)
      OBVIOUS
    <3>1. p \in 0 .. n.size - 1
      BY <1>2, <2>1, Sizes
    <3> QED  BY <3>1, WordIs
  <2>5. p \in Nat /\ p < m.size /\ m.size \in Nat
    BY <2>1, Sizes
  <2>6. p \notin pos .. pos + c - 1 => p < n.size
    BY <1>2, <1>7, <2>5 DEF Grown
  <2> HIDE DEF x, o, y, w
  <2>7. CASE x = l
    <3>1. /\ pos % ClusterWords < o <=> pos < p + 1
          /\ o <= (pos % ClusterWords) + c <=> p + 1 <= pos + c
      BY <1>2, <1>8, <2>2, <2>7, SameCluster
    <3>2. (Offset(d) < o /\ o <= Offset(d) + c) <=> (pos <= p /\ p < pos + c)
      BY <1>2, <1>8, <2>5, <3>1
    <3>3. Shows(e, m, x, o, e.slot[s].words[o])
      BY <1>5, <1>8, <2>7 DEF Shows
    <3>4. y = e.slot[s].words[o]
      BY <2>3, <3>3
    <3>5. CASE pos <= p /\ p < pos + c
      BY <1>6, <2>2, <3>2, <3>4, <3>5 DEF y
    <3>6. CASE ~(pos <= p /\ p < pos + c)
      <4>1. y = d.slot[s].words[o]
        BY <1>6, <2>2, <3>2, <3>4, <3>6
      <4>2. p < n.size
        BY <1>2, <2>5, <2>6, <3>6
      <4>3. Shows(d, n, x, o, w)
        BY <2>4, <4>2
      <4>4. w = d.slot[s].words[o]
        BY <1>3, <1>8, <2>7, <4>3 DEF Shows
      <4> QED  BY <3>6, <4>1, <4>4 DEF y, w
    <3> QED  BY <3>5, <3>6
  <2>8. CASE x # l
    <3>1. /\ InFile(n.size, x, o)
          /\ ~(pos < p + 1 /\ p + 1 <= pos + c)
      BY <1>9, <2>2, <2>8
    <3>2. ~(pos <= p /\ p < pos + c)
      BY <1>2, <2>5, <3>1
    <3>3. p < n.size
      BY <1>2, <2>5, <2>6, <3>2
    <3>4. Shows(d, n, x, o, w)
      BY <2>4, <3>3
    <3>5. Shows(e, m, x, o, w)
      <4>1. CASE \E t \in 1 .. d.valid : d.slot[t].index = x /\ w = d.slot[t].words[o]
        <5>1. PICK t \in 1 .. d.valid : d.slot[t].index = x /\ w = d.slot[t].words[o]
          BY <4>1
        <5>2. t # s /\ t \in 1 .. e.valid
          BY <1>5, <1>8, <2>8, <5>1
        <5> QED  BY <1>10, <5>1, <5>2 DEF Shows
      <4>2. CASE /\ \A t \in 1 .. d.valid : d.slot[t].index # x
                 /\ n.blocks[x] # Hole /\ w = n.blocks[x][o]
        <5>1. \A t \in 1 .. e.valid : e.slot[t].index # x
          BY <1>5, <1>8, <1>10, <2>8, <4>2
        <5> QED  BY <4>2, <5>1 DEF Shows
      <4> QED  BY <3>4, <4>1, <4>2 DEF Shows
    <3>6. y = w
      BY <2>3, <3>5
    <3> QED  BY <3>2, <3>6 DEF y, w
  <2> QED  BY <2>7, <2>8
<1>14. Overwritten(d, n, e, m, c, call.word)
  BY <1>7, <1>13 DEF Overwritten
<1> QED  BY <1>12, <1>14

------------------------------------------------------------------------------
(***************************************************************************)
(* The content of the files.                                               *)
(***************************************************************************)
Text(d, n) == [k \in 1 .. n.size |-> CachedWord(d, n, k - 1)]

\* Content, of any descriptors fs and inodes ns.
ContentOf(F, fs, ns, i) ==
  LET d == IF F = {} THEN FreshFd ELSE fs[First(F)]
      size == IF F = {} THEN ns[i].size ELSE d.size
  IN  IF ~ns[i].used THEN Absent
      ELSE [k \in 1 .. size |-> CachedWord(d, ns[i], k - 1)]

LEMMA ContentIs ==
  ASSUME NEW fs, NEW ns, NEW i,
         \A f, g \in Fd : fs[f].open /\ fs[g].open /\ fs[f].inode = fs[g].inode => f = g,
         \A f \in Fd : fs[f].open /\ fs[f].inode = i => fs[f].size = ns[i].size
  PROVE  LET F == {f \in Fd : fs[f].open /\ fs[f].inode = i}
         IN  /\ \A f \in Fd : fs[f].open /\ fs[f].inode = i =>
                  ContentOf(F, fs, ns, i) = IF ns[i].used THEN Text(fs[f], ns[i])
                                            ELSE Absent
             /\ F = {} => ContentOf(F, fs, ns, i) =
                            IF ns[i].used THEN Text(FreshFd, ns[i]) ELSE Absent
<1> DEFINE F == {f \in Fd : fs[f].open /\ fs[f].inode = i}
<1>1. ASSUME NEW f \in Fd, fs[f].open, fs[f].inode = i
      PROVE  ContentOf(F, fs, ns, i) = IF ns[i].used THEN Text(fs[f], ns[i]) ELSE Absent
  <2>1. F = {f}
    BY <1>1
  <2>2. {f} \in SUBSET Nat /\ {f} # {}
    BY Sizes DEF Fd
  <2>3. First({f}) \in {f}
    BY <2>2, FirstIs
  <2>4. First(F) = f /\ F # {}
    BY <2>1, <2>3
  <2> HIDE DEF F
  <2>5. ContentOf(F, fs, ns, i) = IF ~ns[i].used THEN Absent
          ELSE [k \in 1 .. fs[f].size |-> CachedWord(fs[f], ns[i], k - 1)]
    BY <2>4 DEF ContentOf
  <2>6. fs[f].size = ns[i].size
    BY <1>1
  <2>7. [k \in 1 .. fs[f].size |-> CachedWord(fs[f], ns[i], k - 1)] = Text(fs[f], ns[i])
    BY <2>6 DEF Text
  <2> QED  BY <2>5, <2>7
<1>2. F = {} => ContentOf(F, fs, ns, i) =
                  IF ns[i].used THEN Text(FreshFd, ns[i]) ELSE Absent
  <2> HIDE DEF F
  <2> QED  BY DEF ContentOf, Text
<1> QED  BY <1>1, <1>2

\* The same, of the files as they are; and as they are after a step.
LEMMA ContentNow ==
  ASSUME IInv, Tidy, NEW i \in Inode
  PROVE  /\ \A f \in Fd : fds[f].open /\ fds[f].inode = i =>
              Content(i) = Text(fds[f], inodes[i])
         /\ OpenOn(i) = {} => Content(i) = IF inodes[i].used THEN Text(FreshFd, inodes[i])
                                           ELSE Absent
<1> DEFINE F == {f \in Fd : fds[f].open /\ fds[f].inode = i}
<1>1. \A f, g \in Fd : fds[f].open /\ fds[g].open /\ fds[f].inode = fds[g].inode => f = g
  BY SMTT(30) DEF Tidy, OpenedOnce
<1>2. \A f \in Fd : fds[f].open /\ fds[f].inode = i => fds[f].size = inodes[i].size
  BY SMTT(30) DEF Tidy, Cached
<1>3. Content(i) = ContentOf(F, fds, inodes, i) /\ OpenOn(i) = F
  BY DEF Content, ContentOf, OpenOn
<1>4. /\ \A f \in Fd : fds[f].open /\ fds[f].inode = i =>
           ContentOf(F, fds, inodes, i) = IF inodes[i].used THEN Text(fds[f], inodes[i])
                                          ELSE Absent
      /\ F = {} => ContentOf(F, fds, inodes, i) =
                     IF inodes[i].used THEN Text(FreshFd, inodes[i]) ELSE Absent
  BY <1>1, <1>2, ContentIs
<1>5. \A f \in Fd : fds[f].open /\ fds[f].inode = i => inodes[i].used
  BY DEF IInv
<1> HIDE DEF F
<1> QED  BY <1>3, <1>4, <1>5

LEMMA ContentThen ==
  ASSUME IInv', Tidy', NEW i \in Inode
  PROVE  /\ \A f \in Fd : fds'[f].open /\ fds'[f].inode = i =>
              Content(i)' = Text(fds'[f], inodes'[i])
         /\ OpenOn(i)' = {} => Content(i)' = IF inodes'[i].used
                                             THEN Text(FreshFd, inodes'[i]) ELSE Absent
<1> DEFINE F == {f \in Fd : fds'[f].open /\ fds'[f].inode = i}
<1>1. \A f, g \in Fd : fds'[f].open /\ fds'[g].open /\ fds'[f].inode = fds'[g].inode
                         => f = g
  BY SMTT(30) DEF Tidy, OpenedOnce, Fd
<1>2. \A f \in Fd : fds'[f].open /\ fds'[f].inode = i => fds'[f].size = inodes'[i].size
  BY SMTT(30) DEF Tidy, Cached, Fd
<1>3. Content(i)' = ContentOf(F, fds', inodes', i) /\ OpenOn(i)' = F
  BY DEF Content, ContentOf, OpenOn, FreshFd, CachedWord, Holding, First, Slot,
    EmptySlot, Zeros, At, Fd
<1>4. /\ \A f \in Fd : fds'[f].open /\ fds'[f].inode = i =>
           ContentOf(F, fds', inodes', i) = IF inodes'[i].used THEN Text(fds'[f], inodes'[i])
                                            ELSE Absent
      /\ F = {} => ContentOf(F, fds', inodes', i) =
                     IF inodes'[i].used THEN Text(FreshFd, inodes'[i]) ELSE Absent
  BY <1>1, <1>2, ContentIs
<1>5. \A f \in Fd : fds'[f].open /\ fds'[f].inode = i => inodes'[i].used
  BY DEF IInv, Fd
<1> HIDE DEF F
<1> QED  BY <1>3, <1>4, <1>5

------------------------------------------------------------------------------
(***************************************************************************)
(* The capacity of the disk.                                               *)
(***************************************************************************)
LEMMA AllocatedFinite ==
  ASSUME NEW n
  PROVE  IsFiniteSet(Allocated(n)) /\ Cardinality(Allocated(n)) \in Nat
<1>1. IsFiniteSet(Logical)
  <2>1. 0 \in Int /\ (MaxWords \div ClusterWords) + 1 \in Int
    BY Sizes
  <2> QED  BY <2>1, FS_Interval DEF Logical
<1>2. Allocated(n) \in SUBSET Logical
  BY DEF Allocated
<1> QED  BY <1>1, <1>2, FS_Subset, FS_CardinalityType

LEMMA TakenIs ==
  ASSUME NEW ns, NEW i \in Inode
  PROVE  /\ Cardinality(TakenBut(ns, i)) \in Nat
         /\ Cardinality(Taken(ns)) =
              Cardinality(TakenBut(ns, i)) + Cardinality(Allocated(ns[i]))
<1> DEFINE own == {i} \X Allocated(ns[i])
           parts == {{j} \X Allocated(ns[j]) : j \in Inode \ {i}}
<1>1. IsFiniteSet({i}) /\ Cardinality({i}) = 1
  BY FS_Singleton
<1>2. IsFiniteSet(own) /\ Cardinality(own) = 1 * Cardinality(Allocated(ns[i]))
  BY <1>1, AllocatedFinite, FS_Product
<1>3. IsFiniteSet(TakenBut(ns, i))
  <2>1. IsFiniteSet(Inode \ {i})
    BY SizesAssumption, FS_Difference
  <2>2. IsFiniteSet(parts)
    <3> DEFINE g == [j \in Inode \ {i} |-> {j} \X Allocated(ns[j])]
    <3>1. g \in Surjection(Inode \ {i}, parts)
      BY DEF Surjection
    <3> HIDE DEF g
    <3> QED  BY <2>1, <3>1, FS_Surjection
  <2>3. \A T \in parts : IsFiniteSet(T)
    <3>1. ASSUME NEW j \in Inode \ {i}
          PROVE  IsFiniteSet({j} \X Allocated(ns[j]))
      <4>1. IsFiniteSet({j})
        BY FS_Singleton
      <4> QED  BY <4>1, AllocatedFinite, FS_Product
    <3> QED  BY <3>1
  <2> HIDE DEF parts
  <2>4. IsFiniteSet(UNION parts)
    BY <2>2, <2>3, FS_UNION
  <2> QED  BY <2>4 DEF TakenBut, parts
<1>4. Taken(ns) = TakenBut(ns, i) \cup own /\ TakenBut(ns, i) \cap own = {}
  BY DEF Taken, TakenBut
<1>5. Cardinality(TakenBut(ns, i)) \in Nat /\ Cardinality(Allocated(ns[i])) \in Nat
  BY <1>3, AllocatedFinite, FS_CardinalityType
<1> HIDE DEF own
<1>6. Cardinality(TakenBut(ns, i) \cup own) =
        Cardinality(TakenBut(ns, i)) + Cardinality(own)
          - Cardinality(TakenBut(ns, i) \cap own)
  BY <1>2, <1>3, FS_Union
<1>7. Cardinality(TakenBut(ns, i) \cap own) = 0
  BY <1>4, FS_EmptySet
<1> QED  BY <1>2, <1>4, <1>5, <1>6, <1>7

LEMMA FitsNow ==
  ASSUME WithinCapacity, NEW i \in Inode
  PROVE  Fits(inodes[i], Budget(i))
<1>1. Budget(i) = Capacity - Cardinality(TakenBut(inodes, i))
  BY DEF Budget, TakenBut
<1>2. /\ Cardinality(TakenBut(inodes, i)) \in Nat
      /\ Cardinality(Taken(inodes)) =
           Cardinality(TakenBut(inodes, i)) + Cardinality(Allocated(inodes[i]))
      /\ Cardinality(Allocated(inodes[i])) \in Nat
  BY TakenIs, AllocatedFinite
<1> QED  BY <1>1, <1>2, Sizes DEF Fits, WithinCapacity

LEMMA StaysWithin ==
  ASSUME NEW i \in Inode, NEW m, Fits(m, Budget(i)),
         inodes \in [Inode -> InodeRecord], inodes' = [inodes EXCEPT ![i] = m]
  PROVE  WithinCapacity'
<1>1. inodes'[i] = m /\ \A j \in Inode \ {i} : inodes'[j] = inodes[j]
  OBVIOUS
<1>2. TakenBut(inodes', i) = TakenBut(inodes, i)
  BY <1>1 DEF TakenBut
<1>3. Budget(i) = Capacity - Cardinality(TakenBut(inodes, i))
  BY DEF Budget, TakenBut
<1>4. /\ Cardinality(TakenBut(inodes', i)) \in Nat
      /\ Cardinality(Taken(inodes')) =
           Cardinality(TakenBut(inodes', i)) + Cardinality(Allocated(inodes'[i]))
      /\ Cardinality(Allocated(m)) \in Nat
  BY TakenIs, AllocatedFinite
<1>5. Cardinality(Taken(inodes')) <= Capacity
  BY <1>1, <1>2, <1>3, <1>4, Sizes DEF Fits
<1> QED  BY <1>5 DEF WithinCapacity, Taken, Allocated, Logical

\* A flush leaves the disk within its capacity.
LEMMA FlushFits ==
  ASSUME DiskFaults = FALSE, NEW d, NEW n, NEW budget, NEW a, NEW b,
         NEW r \in Flush(d, n, budget, a, b)
  PROVE  Fits(r.n, budget)
<1> DEFINE stored(k) == Store(d, n, Dirty(d, a .. k))
           failsAt(k) == d.slot[k].dirty /\ (DiskFaults \/ ~Fits(stored(k), budget))
           zeroed(k) ==
             IF DiskFaults /\ Fits(stored(k), budget)
                /\ stored(k - 1).blocks[d.slot[k].index] = Hole
             THEN {[stored(k - 1) EXCEPT !.blocks[d.slot[k].index] = Zeros]} ELSE {}
<1>1. r \in {[ok |-> TRUE, d |-> Clean(d, a .. b), n |-> stored(b)] :
                x \in {y \in {TRUE} : Fits(stored(b), budget)}}
             \cup UNION {{[ok |-> FALSE, d |-> Clean(d, a .. k - 1), n |-> m] :
                     m \in {stored(k - 1)} \cup zeroed(k)} :
                  k \in {j \in a .. b : failsAt(j) /\ Fits(stored(j - 1), budget)}}
  BY Zenon DEF Flush
<1>2. \A k : zeroed(k) = {}
  OBVIOUS
<1> HIDE DEF stored, zeroed
<1>3. \/ Fits(stored(b), budget) /\ r = [ok |-> TRUE, d |-> Clean(d, a .. b), n |-> stored(b)]
      \/ \E k \in a .. b :
           /\ Fits(stored(k - 1), budget)
           /\ r = [ok |-> FALSE, d |-> Clean(d, a .. k - 1), n |-> stored(k - 1)]
  BY <1>1, <1>2
<1>4. \/ Fits(stored(b), budget) /\ r.n = stored(b)
      \/ \E k \in a .. b : Fits(stored(k - 1), budget) /\ r.n = stored(k - 1)
  BY <1>3
<1> QED  BY <1>4

LEMMA LoadFits ==
  ASSUME DiskFaults = FALSE, NEW d, NEW n, NEW budget, NEW l, Fits(n, budget),
         NEW r \in Load(d, n, budget, l)
  PROVE  Fits(r.n, budget)
<1>1. \/ FoundThere(d, n, l, r) \/ RoomForIt(d, n, l, r)
      \/ OldestGoes(d, n, budget, l, r)
  BY LoadCases
<1>2. r.n = n \/ \E q \in FlushSlot(d, n, budget, r.s) : r.n = q.n
  BY <1>1, Zenon DEF FoundThere, RoomForIt, OldestGoes
<1> QED  BY <1>2, FlushFits DEF FlushSlot

\* A descriptor without valid slots shows the disk, whatever else it holds.
LEMMA Uncached ==
  ASSUME NEW d, NEW e, NEW n, d.valid = 0, e.valid = 0
  PROVE  Text(d, n) = Text(e, n)
<1>1. \A l : Holding(d, l) = {} /\ Holding(e, l) = {}
  BY DEF Holding
<1>2. \A p : CachedWord(d, n, p) = CachedWord(e, n, p)
  BY <1>1 DEF CachedWord
<1> QED  BY <1>2 DEF Text

LEMMA SameText ==
  ASSUME NEW d, NEW n \in InodeRecord, NEW e, NEW m, SameWords(d, n, e, m)
  PROVE  Text(e, m) = Text(d, n)
<1>1. m.size = n.size /\ n.size \in Nat
  BY Sizes DEF SameWords, InodeRecord
<1>2. ASSUME NEW k \in 1 .. n.size
      PROVE  CachedWord(e, m, k - 1) = CachedWord(d, n, k - 1)
  <2>1. k - 1 \in 0 .. n.size - 1
    BY <1>1
  <2> QED  BY <2>1 DEF SameWords
<1> QED  BY <1>1, <1>2 DEF Text

------------------------------------------------------------------------------
(***************************************************************************)
(* A read does not need a cluster of the disk.                             *)
(***************************************************************************)
LEMMA Onward ==
  ASSUME NEW p \in Nat, NEW q \in Nat, p <= q
  PROVE  p \div ClusterWords <= q \div ClusterWords
<1> DEFINE c == ClusterWords
           a == p \div c
           b == q \div c
<1>1. c \in Nat \ {0}
  BY Sizes
<1>2. a \in Nat /\ b \in Nat /\ p % c \in 0 .. c - 1 /\ q % c \in 0 .. c - 1
  BY <1>1
<1>3. p = c * a + (p % c) /\ q = c * b + (q % c)
  BY <1>1
<1> HIDE DEF a, b
<1>4. a <= b
  <2>1. SUFFICES ASSUME b + 1 <= a PROVE FALSE
    BY <1>2
  <2>2. c * (b + 1) <= c * a
    BY <1>1, <1>2, <2>1
  <2>3. c * (b + 1) = c * b + c
    BY <1>1, <1>2
  <2>4. c * b \in Nat /\ c * a \in Nat
    BY <1>1, <1>2
  <2> HIDE DEF c
  <2> QED  BY <1>1, <1>2, <1>3, <2>2, <2>3, <2>4
<1> QED  BY <1>4 DEF a, b

\* A step that does not go back, forgets no cluster and takes none away.
LEMMA StaysReady ==
  ASSUME NEW d, NEW n, Readily(d, n), NEW e, NEW m,
         d.slot \in [Slot -> SlotRecord], 1 .. d.valid \subseteq Slot,
         e.size = d.size, Here(d) \in Nat, Here(e) \in Nat, Here(d) <= Here(e),
         \A s \in 1 .. d.valid :
           \E t \in 1 .. e.valid : e.slot[t].index = d.slot[s].index,
         \A t \in 1 .. e.valid : e.slot[t].dirty =>
           \E s \in 1 .. d.valid : d.slot[s].dirty /\ d.slot[s].index = e.slot[t].index,
         \A l \in Logical : n.blocks[l] # Hole => m.blocks[l] # Hole
  PROVE  Readily(e, m)
<1>1. CASE Settled(d, n)
  <2>1. ASSUME NEW t \in 1 .. e.valid, e.slot[t].dirty
        PROVE  m.blocks[e.slot[t].index] # Hole
    <3>1. PICK s \in 1 .. d.valid : d.slot[s].dirty /\ d.slot[s].index = e.slot[t].index
      BY <2>1
    <3>2. n.blocks[d.slot[s].index] # Hole
      BY <1>1, <3>1 DEF Settled
    <3>3. d.slot[s].index \in Logical
      BY DEF SlotRecord
    <3> QED  BY <3>1, <3>2, <3>3
  <2> QED  BY <2>1 DEF Readily, Settled
<1>2. CASE Ahead(d)
  <2>1. ASSUME NEW l \in Logical, Begins(e.size, l), Here(e) <= l
        PROVE  \E t \in 1 .. e.valid : e.slot[t].index = l
    <3>1. l \in Nat
      BY Sizes DEF Logical
    <3>2. Here(d) <= l
      BY <2>1, <3>1
    <3>3. PICK s \in 1 .. d.valid : d.slot[s].index = l
      BY <1>2, <2>1, <3>2 DEF Ahead
    <3> QED  BY <3>3
  <2> QED  BY <2>1 DEF Readily, Ahead
<1> QED  BY <1>1, <1>2 DEF Readily

LEMMA HereIs ==
  ASSUME NEW d, CacheOK(d)
  PROVE  /\ Here(d) \in Logical /\ Here(d) \in Nat
         /\ 1 .. d.valid \subseteq Slot /\ d.slot \in [Slot -> SlotRecord]
         /\ \A s \in 1 .. d.valid : d.slot[s].index \in Logical
         /\ d.valid \in 0 .. CacheClusters
         /\ d.pos \in Nat /\ d.size \in Nat
<1>1. d.pos \in 0 .. MaxWords /\ d.size \in 0 .. MaxWords
      /\ d.valid \in 0 .. CacheClusters /\ d.slot \in [Slot -> SlotRecord]
  BY DEF CacheOK, Descriptor
<1>2. 1 .. d.valid \subseteq Slot
  BY <1>1, Sizes DEF Slot
<1>3. Here(d) \in Logical
  BY <1>1, Place DEF Here
<1>4. Here(d) \in Nat
  BY <1>3, Sizes DEF Logical
<1>5. d.pos \in Nat /\ d.size \in Nat
  BY <1>1, Sizes
<1>6. \A s \in 1 .. d.valid : d.slot[s].index \in Logical
  BY <1>1, <1>2 DEF SlotRecord
<1> QED  BY <1>1, <1>2, <1>3, <1>4, <1>5, <1>6

\* The same slots, further on in the file.
LEMMA MovesReady ==
  ASSUME NEW d, CacheOK(d), NEW n, Readily(d, n), NEW e, CacheOK(e),
         e.size = d.size, d.pos <= e.pos \/ Here(e) = Here(d),
         e.valid = d.valid, e.slot = d.slot
  PROVE  Readily(e, n)
<1>1. /\ Here(d) \in Nat /\ Here(e) \in Nat /\ d.slot \in [Slot -> SlotRecord]
      /\ 1 .. d.valid \subseteq Slot /\ d.pos \in Nat /\ e.pos \in Nat
  BY HereIs
<1>2. Here(d) <= Here(e)
  <2>1. CASE d.pos <= e.pos
    BY <1>1, <2>1, Onward DEF Here
  <2>2. CASE Here(e) = Here(d)
    BY <1>1, <2>2
  <2> QED  BY <2>1, <2>2
<1> QED  BY <1>1, <1>2, StaysReady

LEMMA FlushReady ==
  ASSUME NEW d, CacheOK(d), NEW n \in InodeRecord, NEW i, Cached(d, n, i), Readily(d, n),
         NEW S \in SUBSET (1 .. d.valid), NEW e, NEW m, Flushed(d, n, e, m, S)
  PROVE  Readily(e, m)
<1>1. /\ Cached(e, m, i) /\ SameWords(d, n, e, m)
      /\ \A l \in Logical : n.blocks[l] # Hole => m.blocks[l] # Hole
      /\ \A s \in 1 .. d.valid : d.slot[s].dirty /\ ~e.slot[s].dirty =>
           m.blocks[d.slot[s].index] # Hole
  BY FlushTidy
<1>2. /\ Here(d) \in Nat /\ d.slot \in [Slot -> SlotRecord]
      /\ 1 .. d.valid \subseteq Slot
  BY HereIs
<1>3. /\ e.size = d.size /\ e.pos = d.pos /\ e.valid = d.valid
      /\ \A s \in Slot : e.slot[s].index = d.slot[s].index
  BY DEF Flushed, SameFile
<1>4. \A s \in Slot : e.slot[s].dirty => d.slot[s].dirty
  BY DEF Flushed
<1>5. Here(e) = Here(d) /\ Here(d) <= Here(d)
  BY <1>2, <1>3 DEF Here
<1>6. \A s \in 1 .. d.valid : \E t \in 1 .. e.valid : e.slot[t].index = d.slot[s].index
  BY <1>2, <1>3
<1>7. \A t \in 1 .. e.valid : e.slot[t].dirty =>
        \E s \in 1 .. d.valid : d.slot[s].dirty /\ d.slot[s].index = e.slot[t].index
  BY <1>2, <1>3, <1>4
<1> QED  BY <1>1, <1>2, <1>3, <1>5, <1>6, <1>7, StaysReady

\* One more slot, without changes.
LEMMA RoomReady ==
  ASSUME NEW d, CacheOK(d), NEW n \in InodeRecord, Readily(d, n),
         NEW l \in Logical, NEW r, RoomForIt(d, n, l, r), r.ok = TRUE
  PROVE  Readily(r.d, n)
<1> DEFINE e == r.d
           s == d.valid + 1
<1>1. /\ Readable(n, l) /\ r.n = n
      /\ CacheOK(e) /\ SameFile(d, e) /\ e.valid = s /\ s \in Slot
      /\ \A t \in Slot : t # s => e.slot[t] = d.slot[t]
      /\ e.slot[s].index = l /\ e.slot[s].words = DiskWords(n, l)
      /\ ~e.slot[s].dirty
  BY RoomFilled
<1>2. /\ Here(d) \in Nat /\ d.slot \in [Slot -> SlotRecord]
      /\ 1 .. d.valid \subseteq Slot /\ d.valid \in 0 .. CacheClusters
  BY HereIs
<1> HIDE DEF e
<1>3. e.size = d.size /\ Here(e) = Here(d) /\ Here(d) <= Here(d)
  BY <1>1, <1>2 DEF SameFile, Here
<1>4. \A t \in 1 .. d.valid : t \in Slot /\ t # s /\ t \in 1 .. e.valid
  BY <1>1, <1>2, Sizes
<1>5. \A t \in 1 .. e.valid : t = s \/ t \in 1 .. d.valid
  BY <1>1, <1>2, Sizes
<1> HIDE DEF s
<1>6. \A t \in 1 .. d.valid : \E x \in 1 .. e.valid : e.slot[x].index = d.slot[t].index
  BY <1>1, <1>4
<1>7. \A t \in 1 .. e.valid : e.slot[t].dirty =>
        \E x \in 1 .. d.valid : d.slot[x].dirty /\ d.slot[x].index = e.slot[t].index
  BY <1>1, <1>4, <1>5
<1>8. Readily(e, n)
  BY <1>2, <1>3, <1>6, <1>7, StaysReady
<1> QED  BY <1>8 DEF e

LEMMA NotBegun ==
  ASSUME NEW k \in Nat, NEW l \in Nat, k <= l, NEW size \in Nat, Begins(size, l)
  PROVE  Begins(size, k)
<1> DEFINE a == k * ClusterWords
           b == l * ClusterWords
<1>1. ClusterWords \in Nat
  BY Sizes
<1>2. a \in Nat /\ b \in Nat /\ a <= b
  BY <1>1
<1> HIDE DEF a, b
<1>3. b < size => a < size
  BY <1>2
<1> QED  BY <1>3 DEF Begins, a, b

\* Where no cluster begins, none has to be there.
LEMMA EndIsReady ==
  ASSUME NEW e, NEW m, e.size \in Nat, Here(e) \in Nat, ~Begins(e.size, Here(e))
  PROVE  Readily(e, m)
<1>1. ASSUME NEW l \in Logical, Here(e) <= l PROVE ~Begins(e.size, l)
  <2>1. l \in Nat
    BY Sizes DEF Logical
  <2> QED  BY <1>1, <2>1, NotBegun
<1> QED  BY <1>1 DEF Readily, Ahead

\* Words for clusters that the disk has already fit on the disk.
LEMMA SettledFits ==
  ASSUME NEW d, CacheOK(d), NEW n \in InodeRecord, Settled(d, n),
         NEW budget \in Int, Fits(n, budget), NEW S \in SUBSET (1 .. d.valid)
  PROVE  Fits(Store(d, n, Dirty(d, S)), budget)
<1> DEFINE F == Dirty(d, S)
           m == Store(d, n, F)
<1>1. d \in Descriptor /\ 1 .. d.valid \subseteq Slot
  BY HereIs DEF CacheOK
<1>2. F \in SUBSET Slot /\ F \subseteq S /\ \A s \in F : d.slot[s].dirty
  BY <1>1 DEF Dirty
<1> HIDE DEF F
<1>3. /\ Stored(d, n, m, F)
      /\ \A l \in Logical :
           (\A s \in F : d.slot[s].index # l)
             => m.blocks[l] = n.blocks[l]
      /\ m.size = IF F = {} THEN n.size ELSE d.size
  BY <1>1, <1>2, StoreSound
<1>4. \A s \in F : n.blocks[d.slot[s].index] # Hole
  BY <1>2 DEF Settled
<1> HIDE DEF m
<1>5. Allocated(m) \in SUBSET Allocated(n)
  BY <1>3, <1>4 DEF Allocated
<1>6. /\ IsFiniteSet(Allocated(n)) /\ Cardinality(Allocated(n)) \in Nat
      /\ Cardinality(Allocated(m)) \in Nat
  BY AllocatedFinite
<1>7. Cardinality(Allocated(m)) <= Cardinality(Allocated(n))
  BY <1>5, <1>6, FS_Subset
<1>8. Fits(m, budget)
  BY <1>6, <1>7 DEF Fits
<1> QED  BY <1>8 DEF m, F

\* Then the slot can be evicted.
LEMMA SettledFlushes ==
  ASSUME NEW d, CacheOK(d), NEW n \in InodeRecord, Settled(d, n),
         NEW budget \in Int, Fits(n, budget), DiskFaults = FALSE,
         NEW s \in 1 .. d.valid, NEW q \in FlushSlot(d, n, budget, s)
  PROVE  q.ok
<1> DEFINE stored(k) == Store(d, n, Dirty(d, s .. k))
           failsAt(k) == d.slot[k].dirty /\ (DiskFaults \/ ~Fits(stored(k), budget))
           zeroed(k) ==
             IF DiskFaults /\ Fits(stored(k), budget)
                /\ stored(k - 1).blocks[d.slot[k].index] = Hole
             THEN {[stored(k - 1) EXCEPT !.blocks[d.slot[k].index] = Zeros]} ELSE {}
<1>1. q \in {[ok |-> TRUE, d |-> Clean(d, s .. s), n |-> stored(s)] :
                x \in {y \in {TRUE} : Fits(stored(s), budget)}}
             \cup UNION {{[ok |-> FALSE, d |-> Clean(d, s .. k - 1), n |-> m] :
                     m \in {stored(k - 1)} \cup zeroed(k)} :
                  k \in {j \in s .. s : failsAt(j) /\ Fits(stored(j - 1), budget)}}
  BY Zenon DEF FlushSlot, Flush
<1>2. s \in Nat /\ s .. s = {s}
  OBVIOUS
<1>3. s .. s \in SUBSET (1 .. d.valid)
  BY <1>2
<1>4. Fits(stored(s), budget)
  BY <1>3, SettledFits
<1>5. ~failsAt(s)
  BY <1>4
<1> HIDE DEF stored, failsAt, zeroed
<1>6. q \in {[ok |-> TRUE, d |-> Clean(d, s .. s), n |-> stored(s)] :
                x \in {y \in {TRUE} : Fits(stored(s), budget)}}
  BY <1>1, <1>2, <1>5
<1>7. q = [ok |-> TRUE, d |-> Clean(d, s .. s), n |-> stored(s)]
  BY <1>6
<1>8. q.ok = TRUE
  BY <1>7
<1> QED  BY <1>8

LEMMA OldestReady ==
  ASSUME NEW d, CacheOK(d), NEW n \in InodeRecord, NEW i, Cached(d, n, i), Readily(d, n),
         DiskFaults = FALSE, NEW budget, NEW l, l = Here(d), NEW r,
         OldestGoes(d, n, budget, l, r)
  PROVE  /\ Readily(r.d, r.n)
         /\ Fits(n, budget) /\ budget \in Int /\ Begins(d.size, l) => r.ok
<1> DEFINE o == r.s
<1>1. PICK q \in FlushSlot(d, n, budget, o) :
        /\ r.n = q.n
        /\ \/ /\ q.ok /\ Readable(q.n, l) /\ r.ok = TRUE
              /\ r.d = Filled(q.d, q.n, l, o)
           \/ /\ r.ok = FALSE /\ r.d = q.d
              /\ q.ok => DiskFaults \/ ~Readable(q.n, l)
  BY DEF OldestGoes
<1>2. /\ Here(d) \in Nat /\ Here(d) \in Logical /\ d.slot \in [Slot -> SlotRecord]
      /\ 1 .. d.valid \subseteq Slot /\ d.valid \in 0 .. CacheClusters /\ d.size \in Nat
  BY HereIs
<1>3. d.valid = CacheClusters /\ Holding(d, l) = {}
  BY <1>2, Sizes DEF OldestGoes
<1>4. o \in 1 .. d.valid
  BY OldestIs DEF OldestGoes
<1> DEFINE e == q.d
           m == q.n
           S == {o}
<1> HIDE DEF o
<1>5. Flushed(d, n, e, m, S)
  BY <1>1, <1>4, FlushSlotKeeps
<1>6. S \in SUBSET (1 .. d.valid)
  BY <1>4
<1> HIDE DEF e, m, S
<1>7. Readily(e, m)
  BY <1>5, <1>6, FlushReady
<1>8. /\ Cached(e, m, i) /\ SameWords(d, n, e, m)
      /\ \A k \in Logical : n.blocks[k] # Hole => m.blocks[k] # Hole
      /\ \A s \in 1 .. d.valid : d.slot[s].dirty /\ ~e.slot[s].dirty =>
           m.blocks[d.slot[s].index] # Hole
  BY <1>5, <1>6, FlushTidy
<1>9. /\ CacheOK(e) /\ SameFile(d, e) /\ e.valid = d.valid
      /\ \A s \in Slot : e.slot[s].index = d.slot[s].index
      /\ \A s \in Slot : e.slot[s].dirty => d.slot[s].dirty
      /\ m \in InodeRecord
  BY <1>5 DEF Flushed, Stored
<1>10. \A s \in 1 .. d.valid : d.slot[s].index # l
  BY <1>3 DEF Holding
<1>11. Begins(d.size, l) => Settled(d, n)
  BY <1>2, <1>10 DEF Readily, Ahead
<1>12. Readily(r.d, r.n)
  <2>1. CASE r.ok = FALSE /\ r.d = q.d
    BY <1>1, <1>7, <2>1 DEF e, m
  <2>2. CASE q.ok /\ Readable(m, l) /\ r.d = Filled(e, m, l, o)
    <3> DEFINE g == r.d
    <3>1. o \in 1 .. e.valid /\ l \in Logical
      BY <1>2, <1>4, <1>9
    <3>2. /\ SameFile(e, g) /\ g.valid = e.valid
          /\ \A t \in Slot : t # o => g.slot[t] = e.slot[t]
          /\ g.slot[o].index = l /\ g.slot[o].words = DiskWords(m, l)
          /\ ~g.slot[o].dirty
      BY <1>9, <2>2, <3>1, OldestFilled
    <3> HIDE DEF g
    <3>3. g.size = d.size /\ Here(g) = Here(d) /\ g.valid = d.valid
      BY <1>9, <3>2 DEF SameFile, Here
    <3>4. CASE ~Begins(d.size, l)
      <4>1. Readily(g, m)
        BY <1>2, <3>3, <3>4, EndIsReady
      <4> QED  BY <1>1, <4>1 DEF g, m
    <3>5. CASE Begins(d.size, l)
      <4>1. \A s \in 1 .. d.valid : d.slot[s].dirty => n.blocks[d.slot[s].index] # Hole
        BY <1>11, <3>5 DEF Settled
      <4>2. ASSUME NEW s \in 1 .. g.valid, g.slot[s].dirty
            PROVE  m.blocks[g.slot[s].index] # Hole
        <5>1. s \in Slot /\ s \in 1 .. d.valid /\ s # o
          BY <1>2, <3>2, <3>3, <4>2
        <5>2. e.slot[s].dirty /\ g.slot[s].index = d.slot[s].index
          BY <1>9, <3>2, <4>2, <5>1
        <5>3. d.slot[s].dirty /\ d.slot[s].index \in Logical
          BY <1>2, <1>9, <5>1, <5>2 DEF SlotRecord
        <5> QED  BY <1>8, <4>1, <5>1, <5>2, <5>3
      <4>3. Readily(g, m)
        BY <4>2 DEF Readily, Settled
      <4> QED  BY <1>1, <4>3 DEF g, m
    <3> QED  BY <3>4, <3>5
  <2> QED  BY <1>1, <2>1, <2>2 DEF e, m
<1>13. ASSUME Fits(n, budget), budget \in Int, Begins(d.size, l)
       PROVE  r.ok
  <2>1. q.ok
    BY <1>1, <1>4, <1>11, <1>13, SettledFlushes
  <2>2. Holding(e, l) = {}
    BY <1>2, <1>9, <1>10 DEF Holding
  <2>3. Readable(m, l)
    BY <1>2, <1>8, <1>9, <2>2, MissingIsReadable
  <2> QED  BY <1>1, <2>1, <2>3 DEF m
<1> QED  BY <1>12, <1>13

\* Loading the cluster at the position; in front of the end of the file that
\* does not fail.
LEMMA LoadReady ==
  ASSUME NEW d, CacheOK(d), NEW n \in InodeRecord, NEW i, Cached(d, n, i), Readily(d, n),
         DiskFaults = FALSE, NEW budget, NEW l, l = Here(d),
         NEW r \in Load(d, n, budget, l)
  PROVE  /\ Readily(r.d, r.n)
         /\ Fits(n, budget) /\ budget \in Int /\ Begins(d.size, l) => r.ok
<1>1. l \in Logical
  BY HereIs
<1>2. Loaded(d, n, l, r)
  BY <1>1, LoadSound
<1>3. CASE FoundThere(d, n, l, r)
  <2> DEFINE h == First(Holding(d, l))
             e == r.d
  <2>1. d.valid \in 0 .. CacheClusters
    BY HereIs
  <2>2. h \in Holding(d, l)
    BY <1>3, <2>1, HoldingType, FirstIs DEF FoundThere
  <2>3. h \in 1 .. d.valid
    BY <2>2 DEF Holding
  <2>4. r.n = n /\ e = Touch(d, h) /\ r.ok
    BY <1>3 DEF FoundThere
  <2> HIDE DEF h, e
  <2>5. CacheOK(e) /\ SameFile(d, e) /\ e.valid = d.valid /\ e.slot = d.slot
    BY <2>3, <2>4, SlotTouched
  <2>6. e.size = d.size /\ Here(e) = Here(d)
    BY <2>5 DEF SameFile, Here
  <2>7. Readily(e, n)
    BY <2>5, <2>6, MovesReady
  <2> QED  BY <2>4, <2>7 DEF e
<1>4. CASE RoomForIt(d, n, l, r)
  <2>1. Holding(d, l) = {}
    BY <1>4 DEF RoomForIt
  <2>2. Readable(n, l)
    BY <1>1, <2>1, MissingIsReadable
  <2>3. r.ok = TRUE /\ r.n = n
    BY <1>4, <2>2 DEF RoomForIt
  <2>4. Readily(r.d, n)
    BY <1>1, <1>4, <2>3, RoomReady
  <2> QED  BY <2>3, <2>4
<1>5. CASE OldestGoes(d, n, budget, l, r)
  BY <1>5, OldestReady
<1> QED  BY <1>3, <1>4, <1>5, LoadCases

LEMMA PrefetchReady ==
  ASSUME NEW d, CacheOK(d), NEW n \in InodeRecord, Readily(d, n),
         NEW l \in Logical, NEW e \in Prefetch(d, n, l)
  PROVE  Readily(e, n)
<1>1. /\ CacheOK(e) /\ SameFile(d, e) /\ d.valid <= e.valid
      /\ \A s \in Slot : d.slot[s].dirty => e.slot[s] = d.slot[s]
      /\ e = d \/ \E r : RoomForIt(d, n, l, r) /\ r.ok = TRUE /\ r.d = e
  BY PrefetchSound, ZenonT(60)
<1> QED  BY <1>1, RoomReady

LEMMA WriteReady ==
  ASSUME NEW d, CacheOK(d), NEW n \in InodeRecord, NEW i, Cached(d, n, i), Readily(d, n),
         NEW s \in 1 .. d.valid, d.slot[s].index = Here(d),
         NEW c \in Nat, Offset(d) + c <= ClusterWords,
         d.pos + c \in 0 .. MaxWords, call.word \in AllWords,
         NEW e, e = Written(d, s, c),
         NEW m, m.blocks = n.blocks
  PROVE  Readily(e, m)
<1>1. /\ Here(d) \in Nat /\ Here(d) \in Logical /\ d.slot \in [Slot -> SlotRecord]
      /\ 1 .. d.valid \subseteq Slot /\ d.valid \in 0 .. CacheClusters
      /\ d.size \in Nat /\ d.pos \in Nat
  BY HereIs
<1>2. \A t \in 1 .. d.valid : d.slot[t].index = d.slot[s].index => s <= t
  <2>1. \A t \in 1 .. d.valid : d.slot[t].index = d.slot[s].index => s = t
    BY DEF Cached
  <2>2. s \in Nat /\ s <= s
    OBVIOUS
  <2> QED  BY <2>1, <2>2
<1>3. /\ CacheOK(e) /\ e.open = d.open /\ e.inode = d.inode
      /\ e.pos = d.pos + c /\ e.valid = d.valid
      /\ e.slot[s].index = d.slot[s].index /\ e.slot[s].dirty
      /\ \A t \in Slot : t # s => e.slot[t] = d.slot[t]
  BY <1>2, WrittenSound
<1>4. e.size = Grown(d.size, d.pos, c)
  BY WrittenIs
<1>5. \A t \in 1 .. d.valid : e.slot[t].index = d.slot[t].index
  BY <1>1, <1>3
<1>6. Here(e) \in Nat /\ Here(d) <= Here(e)
  <2>1. d.pos <= d.pos + c /\ d.pos + c \in Nat
    BY <1>1
  <2>2. Here(e) \in Nat
    BY <1>3, HereIs
  <2> QED  BY <1>1, <1>3, <2>1, <2>2, Onward DEF Here
<1>7. CASE Ahead(d)
  <2>1. ASSUME NEW l \in Logical, Begins(e.size, l), Here(e) <= l
        PROVE  \E t \in 1 .. e.valid : e.slot[t].index = l
    <3>1. CASE l = Here(d)
      BY <1>3, <3>1
    <3>2. CASE l # Here(d)
      <4>1. d.pos <= d.size /\ l # d.pos \div ClusterWords
            /\ (d.pos % ClusterWords) + c <= ClusterWords
        BY <3>2 DEF Cached, Here, Offset
      <4>2. Begins(Grown(d.size, d.pos, c), l) => Begins(d.size, l)
        BY <1>1, <4>1, OtherCluster
      <4>3. Begins(d.size, l)
        BY <1>4, <2>1, <4>2
      <4>4. l \in Nat
        BY Sizes DEF Logical
      <4>5. Here(d) <= l
        BY <1>1, <1>6, <2>1, <4>4
      <4>6. PICK t \in 1 .. d.valid : d.slot[t].index = l
        BY <1>7, <4>3, <4>5 DEF Ahead
      <4> QED  BY <1>3, <1>5, <4>6
    <3> QED  BY <3>1, <3>2
  <2> QED  BY <2>1 DEF Readily, Ahead
<1>8. CASE ~Ahead(d)
  <2>1. \A t \in 1 .. d.valid : d.slot[t].dirty => n.blocks[d.slot[t].index] # Hole
    BY <1>8 DEF Readily, Settled
  <2>2. Begins(d.size, Here(d))
    <3>1. ASSUME ~Begins(d.size, Here(d)), NEW l \in Logical, Here(d) <= l
          PROVE  ~Begins(d.size, l)
      <4>1. l \in Nat
        BY Sizes DEF Logical
      <4> QED  BY <1>1, <3>1, <4>1, NotBegun
    <3> QED  BY <1>8, <3>1 DEF Ahead
  <2>3. n.blocks[Here(d)] # Hole
    <3>1. d.size = n.size
      BY DEF Cached
    <3>2. \/ n.blocks[Here(d)] # Hole
          \/ \E t \in 1 .. d.valid : d.slot[t].dirty /\ d.slot[t].index = Here(d)
      BY <1>1, <2>2, <3>1 DEF Cached
    <3> QED  BY <2>1, <3>2
  <2>4. ASSUME NEW t \in 1 .. e.valid, e.slot[t].dirty
        PROVE  m.blocks[e.slot[t].index] # Hole
    <3>1. t \in 1 .. d.valid /\ t \in Slot
      BY <1>1, <1>3
    <3>2. CASE t = s
      BY <1>3, <2>3, <3>2
    <3>3. CASE t # s
      BY <1>3, <2>1, <2>4, <3>1, <3>3
    <3> QED  BY <3>2, <3>3
  <2> QED  BY <2>4 DEF Readily, Settled
<1> QED  BY <1>7, <1>8

------------------------------------------------------------------------------
(***************************************************************************)
(* What an action does to a file.                                          *)
(***************************************************************************)
\* Dropping the cache when nothing in it is to be written back.
LEMMA Dropped ==
  ASSUME NEW d, CacheOK(d), NEW n \in InodeRecord, NEW i, Cached(d, n, i),
         \A s \in Slot : ~d.slot[s].dirty
  PROVE  /\ OnDisk(n, i) /\ Complete(n)
         /\ \A e : e.valid = 0 => Text(e, n) = Text(d, n)
<1>1. 1 .. d.valid \subseteq Slot
  BY HereIs
<1>2. OnDisk(n, i) /\ Complete(n)
  BY <1>1 DEF Cached, Complete
<1>3. ASSUME NEW e, e.valid = 0
      PROVE  Text(e, n) = Text(d, n)
  <2>1. \A l : Holding(e, l) = {}
    BY <1>3 DEF Holding
  <2>2. n.size \in 0 .. MaxWords /\ n.size \in Nat
    BY Sizes DEF InodeRecord
  <2>3. ASSUME NEW p \in 0 .. n.size - 1
        PROVE  CachedWord(e, n, p) = CachedWord(d, n, p)
    <3> DEFINE l == p \div ClusterWords
               o == (p % ClusterWords) + 1
               w == CachedWord(d, n, p)
    <3>1. l \in Logical /\ o \in At /\ InFile(n.size, l, o)
      BY <2>2, WordPlace
    <3>2. Shows(d, n, l, o, w)
      BY WordIs
    <3>3. CachedWord(e, n, p) = IF n.blocks[l] # Hole THEN n.blocks[l][o] ELSE Lost
      BY <2>1 DEF CachedWord
    <3> HIDE DEF l, o, w
    <3>4. n.blocks[l] # Hole
      BY <1>2, <2>2, <3>1, Inside DEF Complete
    <3>5. w = n.blocks[l][o]
      BY <1>1, <3>1, <3>2 DEF Shows, Cached
    <3> QED  BY <3>3, <3>4, <3>5 DEF w
  <2>4. \A k \in 1 .. n.size : k - 1 \in 0 .. n.size - 1
    BY <2>2
  <2>5. \A k \in 1 .. n.size : CachedWord(e, n, k - 1) = CachedWord(d, n, k - 1)
    BY <2>3, <2>4
  <2> QED  BY <2>5 DEF Text
<1> QED  BY <1>2, <1>3

\* A descriptor with an empty cache on a file that is on the disk.
LEMMA Emptied ==
  ASSUME NEW n, NEW i, OnDisk(n, i), Complete(n),
         NEW e, e.valid = 0, e.size = n.size, e.pos <= e.size
  PROVE  Cached(e, n, i) /\ Readily(e, n)
<1>1. 1 .. e.valid = {}
  OBVIOUS
<1> QED  BY <1>1 DEF Cached, Complete, Readily, Settled

LEMMA TextIs ==
  ASSUME NEW d, NEW n \in InodeRecord
  PROVE  /\ Len(Text(d, n)) = n.size /\ n.size \in Nat
         /\ Text(d, n) \in Seq({CachedWord(d, n, k - 1) : k \in 1 .. n.size})
         /\ \A k \in 1 .. n.size : Text(d, n)[k] = CachedWord(d, n, k - 1)
<1> DEFINE S == {CachedWord(d, n, k - 1) : k \in 1 .. n.size}
           t == Text(d, n)
<1>1. n.size \in Nat
  BY Sizes DEF InodeRecord
<1>2. t \in [1 .. n.size -> S] /\ \A k \in 1 .. n.size : t[k] = CachedWord(d, n, k - 1)
  BY DEF Text
<1> HIDE DEF t, S
<1>3. t \in Seq(S)
  BY <1>1, <1>2, SeqDef
<1>4. Len(t) \in Nat /\ DOMAIN t = 1 .. Len(t)
  BY <1>3
<1>5. 1 .. Len(t) = 1 .. n.size
  BY <1>2, <1>4
<1>6. Len(t) = n.size
  BY <1>1, <1>4, <1>5
<1> QED  BY <1>1, <1>2, <1>3, <1>6 DEF t, S

\* An action that is about the file i: the other files are left as they are.
LEMMA TidyFile ==
  ASSUME IInv, Tidy, IInv', NEW i \in Inode, NEW m \in InodeRecord,
         Fits(m, Budget(i)), inodes' = [inodes EXCEPT ![i] = m],
         \A g \in Fd : fds[g].open /\ fds[g].inode # i => fds'[g] = fds[g],
         \A g \in Fd : fds'[g].open /\ fds'[g].inode # i => fds'[g] = fds[g],
         \A g, h \in Fd :
           fds'[g].open /\ fds'[g].inode = i /\ fds'[h].open /\ fds'[h].inode = i
             => g = h,
         \A g \in Fd : fds'[g].open /\ fds'[g].inode = i =>
                         Cached(fds'[g], m, i) /\ Readily(fds'[g], m),
         (\A g \in Fd : ~(fds'[g].open /\ fds'[g].inode = i)) =>
           OnDisk(m, i) /\ Complete(m),
         Delivered',
         call'.op = "destroy" =>
           call.op = "destroy" /\ \A g \in Fd, s \in Slot : ~fds'[g].slot[s].dirty
  PROVE  /\ Tidy'
         /\ \A j \in Inode : j # i => Content(j)' = Content(j)
         /\ \A g \in Fd : fds'[g].open /\ fds'[g].inode = i => Content(i)' = Text(fds'[g], m)
         /\ (\A g \in Fd : ~(fds'[g].open /\ fds'[g].inode = i)) =>
              Content(i)' = IF m.used THEN Text(FreshFd, m) ELSE Absent
<1>1. inodes \in [Inode -> InodeRecord] /\ fds \in [Fd -> Descriptor]
  BY DEF IInv
<1>2. inodes'[i] = m /\ \A j \in Inode : j # i => inodes'[j] = inodes[j]
  BY <1>1
<1>3. /\ \A g, h \in Fd : fds[g].open /\ fds[h].open /\ fds[g].inode = fds[h].inode => g = h
      /\ \A g \in Fd : fds[g].open =>
           /\ Cached(fds[g], inodes[fds[g].inode], fds[g].inode)
           /\ Readily(fds[g], inodes[fds[g].inode])
      /\ \A j \in Inode : OpenOn(j) = {} => OnDisk(inodes[j], j) /\ Complete(inodes[j])
  BY DEF Tidy, OpenedOnce
<1>4. \A g, h \in Fd : fds'[g].open /\ fds'[h].open /\ fds'[g].inode = fds'[h].inode => g = h
  BY <1>3
<1>5. ASSUME NEW g \in Fd, fds'[g].open
      PROVE  /\ Cached(fds'[g], inodes'[fds'[g].inode], fds'[g].inode)
             /\ Readily(fds'[g], inodes'[fds'[g].inode])
  <2>1. CASE fds'[g].inode = i
    BY <1>2, <1>5, <2>1
  <2>2. CASE fds'[g].inode # i
    <3>1. fds'[g] = fds[g]
      BY <1>5, <2>2
    <3>2. fds[g].inode \in Inode
      BY <1>1 DEF Descriptor
    <3> QED  BY <1>2, <1>3, <1>5, <2>2, <3>1, <3>2
  <2> QED  BY <2>1, <2>2
<1>6. \A j \in Inode : j # i => (OpenOn(j)' = {} <=> OpenOn(j) = {})
  BY DEF OpenOn, Fd
<1>7. OpenOn(i)' = {} <=> \A g \in Fd : ~(fds'[g].open /\ fds'[g].inode = i)
  BY DEF OpenOn, Fd
<1>8. \A j \in Inode : OpenOn(j)' = {} => OnDisk(inodes'[j], j) /\ Complete(inodes'[j])
  BY <1>2, <1>3, <1>6, <1>7
<1>9. WithinCapacity'
  BY <1>1, StaysWithin
<1>10. Tidy'
  BY <1>4, <1>5, <1>8, <1>9 DEF Readily, Settled, Ahead, Here, Logical, At, Tidy,
    OpenedOnce, Cached, OnDisk, Complete, Begins, InFile, Own
<1>11. ASSUME NEW j \in Inode, j # i
       PROVE  Content(j)' = Content(j)
  <2>1. CASE OpenOn(j) = {}
    BY <1>2, <1>6, <1>10, <1>11, <2>1, ContentNow, ContentThen
  <2>2. CASE OpenOn(j) # {}
    <3>1. PICK g \in Fd : fds[g].open /\ fds[g].inode = j
      BY <2>2 DEF OpenOn
    <3>2. fds'[g] = fds[g] /\ inodes'[j] = inodes[j]
      BY <1>2, <1>11, <3>1
    <3>3. Content(j) = Text(fds[g], inodes[j])
      BY <3>1, ContentNow
    <3>4. Content(j)' = Text(fds'[g], inodes'[j])
      BY <1>10, <3>1, <3>2, ContentThen
    <3> QED  BY <3>2, <3>3, <3>4
  <2> QED  BY <2>1, <2>2
<1>12. \A g \in Fd : fds'[g].open /\ fds'[g].inode = i => Content(i)' = Text(fds'[g], m)
  BY <1>2, <1>10, ContentThen
<1>13. (\A g \in Fd : ~(fds'[g].open /\ fds'[g].inode = i)) =>
         Content(i)' = IF m.used THEN Text(FreshFd, m) ELSE Absent
  BY <1>2, <1>7, <1>10, ContentThen
<1> QED  BY <1>10, <1>11, <1>12, <1>13

\* The same, when the descriptor f becomes e: f was on the file, or not in use
\* and nobody else was on the file.
LEMMA TidyStep ==
  ASSUME IInv, Tidy, IInv', NEW f \in Fd, NEW i \in Inode,
         NEW e, NEW m \in InodeRecord, Fits(m, Budget(i)),
         IF fds[f].open THEN fds[f].inode = i ELSE OpenOn(i) = {},
         fds' = [fds EXCEPT ![f] = e], inodes' = [inodes EXCEPT ![i] = m],
         e.open => e.inode = i /\ Cached(e, m, i) /\ Readily(e, m),
         ~e.open => OnDisk(m, i) /\ Complete(m),
         Delivered',
         call'.op = "destroy" => call.op = "destroy" /\ \A s \in Slot : ~e.slot[s].dirty
  PROVE  /\ Tidy'
         /\ \A j \in Inode : j # i => Content(j)' = Content(j)
         /\ e.open => Content(i)' = Text(e, m)
         /\ ~e.open => Content(i)' = IF m.used THEN Text(FreshFd, m) ELSE Absent
<1>1. fds \in [Fd -> Descriptor]
  BY DEF IInv
<1>2. fds'[f] = e /\ \A g \in Fd : g # f => fds'[g] = fds[g]
  BY <1>1
<1>3. /\ \A g, h \in Fd : fds[g].open /\ fds[h].open /\ fds[g].inode = fds[h].inode => g = h
      /\ call.op = "destroy" => \A g \in Fd, s \in Slot : ~fds[g].slot[s].dirty
  BY DEF Tidy, OpenedOnce
<1>4. \A g \in Fd : g # f /\ fds[g].open => fds[g].inode # i
  BY <1>3 DEF OpenOn
<1>5. /\ \A g \in Fd : fds[g].open /\ fds[g].inode # i => fds'[g] = fds[g]
      /\ \A g \in Fd : fds'[g].open /\ fds'[g].inode # i => fds'[g] = fds[g]
      /\ \A g \in Fd : fds'[g].open /\ fds'[g].inode = i => g = f
  BY <1>2, <1>4
<1>6. \A g, h \in Fd :
        fds'[g].open /\ fds'[g].inode = i /\ fds'[h].open /\ fds'[h].inode = i
          => g = h
  BY <1>5
<1>7. \A g \in Fd : fds'[g].open /\ fds'[g].inode = i =>
                      Cached(fds'[g], m, i) /\ Readily(fds'[g], m)
  BY <1>2, <1>5
<1>8. (\A g \in Fd : ~(fds'[g].open /\ fds'[g].inode = i)) <=> ~e.open
  BY <1>2, <1>5
<1>9. (\A g \in Fd : ~(fds'[g].open /\ fds'[g].inode = i)) => OnDisk(m, i) /\ Complete(m)
  BY <1>8
<1>10. call'.op = "destroy" =>
         call.op = "destroy" /\ \A g \in Fd, s \in Slot : ~fds'[g].slot[s].dirty
  BY <1>2, <1>3
<1>11. /\ Tidy'
       /\ \A j \in Inode : j # i => Content(j)' = Content(j)
       /\ \A g \in Fd : fds'[g].open /\ fds'[g].inode = i => Content(i)' = Text(fds'[g], m)
       /\ (\A g \in Fd : ~(fds'[g].open /\ fds'[g].inode = i)) =>
            Content(i)' = IF m.used THEN Text(FreshFd, m) ELSE Absent
  BY <1>5, <1>6, <1>7, <1>9, <1>10, TidyFile
<1>12. e.open => Content(i)' = Text(e, m)
  BY <1>2, <1>11
<1>13. ~e.open => Content(i)' = IF m.used THEN Text(FreshFd, m) ELSE Absent
  BY <1>8, <1>11
<1> QED  BY <1>11, <1>12, <1>13

\* The same, when no descriptor changes and none is on the file.
LEMMA TidyInode ==
  ASSUME IInv, Tidy, IInv', NEW i \in Inode, NEW m \in InodeRecord, Fits(m, Budget(i)),
         OpenOn(i) = {}, fds' = fds, inodes' = [inodes EXCEPT ![i] = m],
         OnDisk(m, i), Complete(m), Delivered', call'.op # "destroy"
  PROVE  /\ Tidy'
         /\ \A j \in Inode : j # i => Content(j)' = Content(j)
         /\ Content(i)' = IF m.used THEN Text(FreshFd, m) ELSE Absent
<1>1. \A g \in Fd : ~(fds'[g].open /\ fds'[g].inode = i)
  BY DEF OpenOn
<1>2. /\ \A g \in Fd : fds[g].open /\ fds[g].inode # i => fds'[g] = fds[g]
      /\ \A g \in Fd : fds'[g].open /\ fds'[g].inode # i => fds'[g] = fds[g]
  OBVIOUS
<1>3. \A g, h \in Fd :
        fds'[g].open /\ fds'[g].inode = i /\ fds'[h].open /\ fds'[h].inode = i
          => g = h
  BY <1>1
<1>4. \A g \in Fd : fds'[g].open /\ fds'[g].inode = i =>
                      Cached(fds'[g], m, i) /\ Readily(fds'[g], m)
  BY <1>1
<1>5. /\ Tidy'
      /\ \A j \in Inode : j # i => Content(j)' = Content(j)
      /\ \A g \in Fd : fds'[g].open /\ fds'[g].inode = i => Content(i)' = Text(fds'[g], m)
      /\ (\A g \in Fd : ~(fds'[g].open /\ fds'[g].inode = i)) =>
           Content(i)' = IF m.used THEN Text(FreshFd, m) ELSE Absent
  BY <1>2, <1>3, <1>4, TidyFile
<1> QED  BY <1>1, <1>5

\* A file that has just been made or removed holds nothing.
LEMMA NoFileTidy ==
  ASSUME NEW i, NEW m \in InodeRecord, m.size = 0, m.blocks = NoFile.blocks
  PROVE  OnDisk(m, i) /\ Complete(m) /\ Allocated(m) = {}
<1>1. \A l \in Logical : m.blocks[l] = Hole
  BY DEF NoFile
<1>2. \A l \in Logical : ~Begins(0, l)
  <2>1. ASSUME NEW l \in Logical PROVE ~Begins(0, l)
    <3>1. l \in Nat /\ ClusterWords \in Nat
      BY Sizes DEF Logical
    <3>2. l * ClusterWords \in Nat
      BY <3>1
    <3> QED  BY <3>2 DEF Begins
  <2> QED  BY <2>1
<1> QED  BY <1>1, <1>2 DEF OnDisk, Complete, Allocated

LEMMA NothingFits ==
  ASSUME Tidy, NEW i \in Inode, NEW m, Allocated(m) = {}
  PROVE  Fits(m, Budget(i))
<1>1. Fits(inodes[i], Budget(i)) /\ Budget(i) \in Int
  <2>1. Cardinality(TakenBut(inodes, i)) \in Nat
    BY TakenIs
  <2>2. Budget(i) = Capacity - Cardinality(TakenBut(inodes, i))
    BY DEF Budget, TakenBut
  <2> QED  BY <2>1, <2>2, Sizes, FitsNow DEF Tidy
<1>2. Cardinality(Allocated(inodes[i])) \in Nat
  BY AllocatedFinite
<1>3. Cardinality(Allocated(m)) = 0
  BY FS_EmptySet
<1> QED  BY <1>1, <1>2, <1>3 DEF Fits

\* Nothing is delivered between calls.
LEMMA Undelivered ==
  ASSUME ret'.data = << >>
  PROVE  Delivered'
<1>1. DOMAIN ret'.data = {}
  OBVIOUS
<1> QED  BY <1>1 DEF Delivered, Own

LEMMA FlushAllTidy ==
  ASSUME NEW d, CacheOK(d), NEW n \in InodeRecord, NEW i, Cached(d, n, i), Readily(d, n),
         DiskFaults = FALSE, NEW budget, NEW r \in FlushAll(d, n, budget)
  PROVE  /\ Cached(r.d, r.n, i) /\ Readily(r.d, r.n) /\ SameWords(d, n, r.d, r.n)
         /\ CacheOK(r.d) /\ SameFile(d, r.d) /\ r.n \in InodeRecord /\ r.n.used = n.used
         /\ Fits(r.n, budget)
         /\ r.ok \in BOOLEAN
         /\ r.ok => \A s \in Slot : ~r.d.slot[s].dirty
<1> DEFINE e == r.d
           m == r.n
           S == 1 .. d.valid
<1>1. d.valid \in 0 .. CacheClusters /\ 1 - 1 = 0 /\ 1 \in Slot
  BY HereIs, Sizes DEF Slot
<1>2. r \in Flush(d, n, budget, 1, d.valid)
  BY DEF FlushAll
<1>3. d.valid \in 1 - 1 .. d.valid
  BY <1>1
<1>4. Flushed(d, n, e, m, S) /\ r.ok \in BOOLEAN
  BY <1>1, <1>2, <1>3, FlushKeeps
<1>5. Fits(m, budget)
  BY <1>2, FlushFits
<1>6. /\ CacheOK(r.d) /\ SameFile(d, r.d)
      /\ r.n \in InodeRecord /\ r.n.used = n.used
      /\ r.ok => \A s \in Slot : ~r.d.slot[s].dirty
      /\ Carried(d, r.d, r.n)
      /\ r.ok => \A h, k : k.blocks = r.n.blocks => Carried(d, h, k)
  BY AllFlushed
<1>7. S \in SUBSET (1 .. d.valid)
  OBVIOUS
<1> HIDE DEF e, m, S
<1>8. Cached(e, m, i) /\ SameWords(d, n, e, m)
  BY <1>4, <1>7, FlushTidy
<1>9. Readily(e, m)
  BY <1>4, <1>7, FlushReady
<1> QED  BY <1>4, <1>5, <1>6, <1>8, <1>9 DEF e, m

------------------------------------------------------------------------------
(***************************************************************************)
(* The files and descriptors a program sees.                               *)
(***************************************************************************)
LEMMA OpenedIs ==
  /\ \A f \in Fd : fds[f].open =>
       Opened[f] = [open |-> TRUE, inode |-> fds[f].inode, pos |-> fds[f].pos]
  /\ \A f \in Fd : ~fds[f].open =>
       Opened[f] = [open |-> FALSE, inode |-> FreshFd.inode, pos |-> 0]
  /\ \A f \in Fd : Opened[f].open <=> fds[f].open
BY DEF Opened

LEMMA OpenedThen ==
  /\ \A f \in Fd : fds'[f].open =>
       Opened'[f] = [open |-> TRUE, inode |-> fds'[f].inode, pos |-> fds'[f].pos]
  /\ \A f \in Fd : ~fds'[f].open =>
       Opened'[f] = [open |-> FALSE, inode |-> FreshFd.inode, pos |-> 0]
  /\ \A f \in Fd : Opened'[f].open <=> fds'[f].open
BY DEF Opened, FreshFd, Fd, Slot, EmptySlot, Zeros, At

LEMMA MovedIn ==
  ASSUME NEW S, NEW T, NEW i \in S, NEW p \in T, NEW q \in T
  PROVE  [[open |-> TRUE, inode |-> i, pos |-> p] EXCEPT !.pos = q] =
           [open |-> TRUE, inode |-> i, pos |-> q]
<1> DEFINE x == [[open |-> TRUE, inode |-> i, pos |-> p] EXCEPT !.pos = q]
           z == [open |-> TRUE, inode |-> i, pos |-> q]
<1>1. x \in [open : BOOLEAN, inode : S, pos : T]
  OBVIOUS
<1>2. z \in [open : BOOLEAN, inode : S, pos : T]
  OBVIOUS
<1>3. x.open = z.open /\ x.inode = z.inode /\ x.pos = z.pos
  OBVIOUS
<1> HIDE DEF x, z
<1>4. x = z
  BY <1>1, <1>2, <1>3
<1> QED  BY <1>4 DEF x, z

LEMMA Moved ==
  ASSUME NEW i, NEW p, NEW q, NEW x, x = [open |-> TRUE, inode |-> i, pos |-> p],
         NEW y, y = [open |-> TRUE, inode |-> i, pos |-> q]
  PROVE  y = [x EXCEPT !.pos = q]
<1> DEFINE S == {i}
           T == {p, q}
<1>1. i \in S /\ p \in T /\ q \in T
  OBVIOUS
<1> HIDE DEF S, T
<1>2. [[open |-> TRUE, inode |-> i, pos |-> p] EXCEPT !.pos = q] =
        [open |-> TRUE, inode |-> i, pos |-> q]
  BY <1>1, MovedIn
<1>3. [x EXCEPT !.pos = q] = [[open |-> TRUE, inode |-> i, pos |-> p] EXCEPT !.pos = q]
  OBVIOUS
<1> QED  BY <1>2, <1>3

LEMMA OpenedStep ==
  ASSUME IInv, NEW f \in Fd, NEW e, fds' = [fds EXCEPT ![f] = e]
  PROVE  /\ \A g \in Fd \ {f} : Opened'[g] = Opened[g]
         /\ e.open => Opened'[f] = [open |-> TRUE, inode |-> e.inode, pos |-> e.pos]
         /\ Opened'[f].open <=> e.open
         /\ e.open /\ fds[f].open /\ e.inode = fds[f].inode /\ e.pos = fds[f].pos
              => Opened' = Opened
         /\ e.open /\ fds[f].open /\ e.inode = fds[f].inode
              => Opened' = [Opened EXCEPT ![f].pos = e.pos]
<1>1. fds'[f] = e /\ \A g \in Fd \ {f} : fds'[g] = fds[g]
  BY DEF IInv
<1>2. \A g \in Fd \ {f} : Opened'[g] = Opened[g]
  <2>1. ASSUME NEW g \in Fd \ {f} PROVE Opened'[g] = Opened[g]
    <3>1. fds'[g] = fds[g] /\ g \in Fd
      BY <1>1
    <3>2. CASE fds[g].open
      <4>1. Opened[g] = [open |-> TRUE, inode |-> fds[g].inode, pos |-> fds[g].pos]
        BY <3>1, <3>2, OpenedIs
      <4>2. Opened'[g] = [open |-> TRUE, inode |-> fds'[g].inode, pos |-> fds'[g].pos]
        BY <3>1, <3>2, OpenedThen
      <4> QED  BY <3>1, <4>1, <4>2
    <3>3. CASE ~fds[g].open
      <4>1. Opened[g] = [open |-> FALSE, inode |-> FreshFd.inode, pos |-> 0]
        BY <3>1, <3>3, OpenedIs
      <4>2. Opened'[g] = [open |-> FALSE, inode |-> FreshFd.inode, pos |-> 0]
        BY <3>1, <3>3, OpenedThen
      <4> QED  BY <4>1, <4>2
    <3> QED  BY <3>2, <3>3
  <2> QED  BY <2>1
<1>3. e.open => Opened'[f] = [open |-> TRUE, inode |-> e.inode, pos |-> e.pos]
  BY <1>1, OpenedThen
<1>4. Opened'[f].open <=> e.open
  BY <1>1, OpenedThen
<1>5. Opened = [g \in Fd |-> Opened[g]] /\ Opened' = [g \in Fd |-> Opened'[g]]
  BY DEF Opened, Fd
<1>6. ASSUME e.open, fds[f].open, e.inode = fds[f].inode
      PROVE  /\ Opened' = [Opened EXCEPT ![f].pos = e.pos]
             /\ e.pos = fds[f].pos => Opened' = Opened
  <2> DEFINE i == e.inode
             p == fds[f].pos
             q == e.pos
  <2>1. /\ Opened[f] = [open |-> TRUE, inode |-> i, pos |-> p]
        /\ Opened'[f] = [open |-> TRUE, inode |-> i, pos |-> q]
    BY <1>3, <1>6, OpenedIs
  <2> HIDE DEF i, p, q
  <2>2. Opened'[f] = [Opened[f] EXCEPT !.pos = q]
    BY <2>1, Moved
  <2>3. Opened' = [Opened EXCEPT ![f].pos = q]
    BY <1>2, <1>5, <2>2
  <2>4. q = p => Opened' = Opened
    BY <1>2, <1>5, <2>1
  <2> QED  BY <2>3, <2>4 DEF p, q
<1> QED  BY <1>2, <1>3, <1>4, <1>6

LEMMA ContentsStep ==
  ASSUME NEW i \in Inode, \A j \in Inode : j # i => Content(j)' = Content(j)
  PROVE  /\ \A w : Content(i)' = w => Contents' = [Contents EXCEPT ![i] = w]
         /\ Content(i)' = Content(i) => Contents' = Contents
<1>1. /\ Contents' = [j \in Inode |-> Content(j)']
      /\ Contents = [j \in Inode |-> Content(j)]
  BY DEF Contents
<1> QED  BY <1>1

LEMMA ContentsAre ==
  /\ \A i \in Inode : Contents[i] = Content(i)
  /\ \A i \in Inode : Contents'[i] = Content(i)'
BY DEF Contents

LEMMA CloseFiles ==
  ASSUME Careful, IInv, Tidy, IInv', NEW f \in Fd, Close(f)
  PROVE  Tidy' /\ Abstract!Close
<1> DEFINE d == fds[f]
<1>0. PICK i \in Inode : i = d.inode
  BY FileOf DEF Close
<1> DEFINE n == inodes[i]
<1>1. Idle /\ d.open /\ call' = call
  BY DEF Close
<1>2. PICK r \in FlushAll(d, n, Budget(i)) :
        \/ /\ r.ok
           /\ inodes' = [inodes EXCEPT ![i] = [r.n EXCEPT !.size = d.size]]
           /\ fds' = [fds EXCEPT ![f] = [FreshFd EXCEPT !.slot = r.d.slot]]
           /\ ret' = Return("ok")
        \/ /\ ~r.ok
           /\ inodes' = [inodes EXCEPT ![i] = r.n]
           /\ fds' = [fds EXCEPT ![f] = r.d]
           /\ ret' = Return("error")
  BY <1>0 DEF Close
<1>3. CacheOK(d) /\ n \in InodeRecord /\ n.used
  BY <1>0, <1>1, FileOf DEF IInv
<1>4. Cached(d, n, i) /\ Readily(d, n)
  BY <1>0, <1>1 DEF Tidy
<1>5. /\ Cached(r.d, r.n, i) /\ Readily(r.d, r.n) /\ SameWords(d, n, r.d, r.n)
      /\ CacheOK(r.d) /\ SameFile(d, r.d) /\ r.n \in InodeRecord /\ r.n.used = n.used
      /\ Fits(r.n, Budget(i))
      /\ r.ok \in BOOLEAN
      /\ r.ok => \A s \in Slot : ~r.d.slot[s].dirty
  BY <1>3, <1>4, FlushAllTidy DEF Careful
<1>6. Content(i) = Text(d, n)
  BY <1>0, <1>1, ContentNow
<1>7. Text(r.d, r.n) = Text(d, n)
  BY <1>3, <1>5, SameText
<1>8. ret'.data = << >> /\ ret'.missing = 0 /\ ret'.status = (IF r.ok THEN "ok" ELSE "error")
  BY <1>2 DEF Return
<1>9. Delivered'
  BY <1>8, Undelivered
<1>10. call'.op = "none"
  BY <1>1 DEF Idle
<1>11. CASE r.ok
  <2> DEFINE e == [FreshFd EXCEPT !.slot = r.d.slot]
             m == [r.n EXCEPT !.size = d.size]
  <2>1. m = r.n
    <3>1. r.n.size = d.size
      BY <1>5 DEF SameWords, Cached, SameFile
    <3> QED  BY <1>5, <3>1 DEF InodeRecord
  <2>2. ~e.open
    BY DEF FreshFd
  <2>3. OnDisk(r.n, i) /\ Complete(r.n) /\ Text(FreshFd, r.n) = Text(r.d, r.n)
    <3>1. FreshFd.valid = 0
      BY DEF FreshFd
    <3> QED  BY <1>5, <1>11, <3>1, Dropped
  <2>4. inodes' = [inodes EXCEPT ![i] = r.n] /\ fds' = [fds EXCEPT ![f] = e]
    BY <1>2, <1>11, <2>1
  <2> HIDE DEF e, m
  <2>4a. /\ e.open => e.inode = i /\ Cached(e, r.n, i) /\ Readily(e, r.n)
         /\ ~e.open => OnDisk(r.n, i) /\ Complete(r.n)
         /\ IF fds[f].open THEN fds[f].inode = i ELSE OpenOn(i) = {}
         /\ call'.op = "destroy" => call.op = "destroy" /\ \A s \in Slot : ~e.slot[s].dirty
         /\ r.n \in InodeRecord /\ Fits(r.n, Budget(i)) /\ i \in Inode
    BY <1>0, <1>1, <1>3, <1>5, <1>10, <2>2, <2>3
  <2>5. /\ Tidy'
        /\ \A j \in Inode : j # i => Content(j)' = Content(j)
        /\ e.open => Content(i)' = Text(e, r.n)
        /\ ~e.open => Content(i)' = IF r.n.used THEN Text(FreshFd, r.n) ELSE Absent
    BY <1>9, <2>4, <2>4a, TidyStep
  <2>6. Contents' = Contents
    BY <1>3, <1>5, <1>6, <1>7, <2>2, <2>3, <2>5, ContentsStep
  <2>7. ~Opened'[f].open /\ \A g \in Fd \ {f} : Opened'[g] = Opened[g]
    BY <2>2, <2>4, OpenedStep
  <2> QED  BY <1>1, <1>8, <1>11, <2>5, <2>6, <2>7, OpenedIs
           DEF Abstract!Close, Abstract!Idle, Abstract!OthersKept, Abstract!Returned, Idle
<1>12. CASE ~r.ok
  <2> DEFINE e == r.d
             m == r.n
  <2>1. inodes' = [inodes EXCEPT ![i] = m] /\ fds' = [fds EXCEPT ![f] = e]
    BY <1>2, <1>12
  <2>2. e.open /\ e.inode = i /\ e.pos = d.pos
    BY <1>0, <1>1, <1>5 DEF SameFile
  <2> HIDE DEF e, m
  <2>3. Cached(e, m, i) /\ Readily(e, m) /\ m \in InodeRecord /\ Fits(m, Budget(i))
    BY <1>5 DEF e, m
  <2>3a. /\ e.open => e.inode = i /\ Cached(e, m, i) /\ Readily(e, m)
         /\ ~e.open => OnDisk(m, i) /\ Complete(m)
         /\ IF fds[f].open THEN fds[f].inode = i ELSE OpenOn(i) = {}
         /\ call'.op = "destroy" => call.op = "destroy" /\ \A s \in Slot : ~e.slot[s].dirty
         /\ m \in InodeRecord /\ Fits(m, Budget(i)) /\ i \in Inode
    BY <1>0, <1>1, <1>3, <1>10, <2>2, <2>3
  <2>4. /\ Tidy'
        /\ \A j \in Inode : j # i => Content(j)' = Content(j)
        /\ e.open => Content(i)' = Text(e, m)
        /\ ~e.open => Content(i)' = IF m.used THEN Text(FreshFd, m) ELSE Absent
    BY <1>9, <2>1, <2>3a, TidyStep
  <2>5. Contents' = Contents
    BY <1>3, <1>6, <1>7, <2>2, <2>4, ContentsStep DEF e, m
  <2>6. Opened' = Opened
    BY <1>0, <1>1, <2>1, <2>2, OpenedStep
  <2> QED  BY <1>1, <1>8, <1>12, <2>4, <2>5, <2>6, OpenedIs
           DEF Abstract!Close, Abstract!Idle, Abstract!OthersKept, Abstract!Returned, Idle
<1> QED  BY <1>5, <1>11, <1>12

\* A step that moves the descriptor f, or only its cache.
LEMMA QuietStep ==
  ASSUME IInv, Tidy, IInv', NEW f \in Fd, NEW i \in Inode, fds[f].open, fds[f].inode = i,
         NEW e, NEW m \in InodeRecord, Fits(m, Budget(i)),
         fds' = [fds EXCEPT ![f] = e], inodes' = [inodes EXCEPT ![i] = m],
         e.open, e.inode = i, Cached(e, m, i), Readily(e, m),
         Text(e, m) = Text(fds[f], inodes[i]),
         Delivered', call'.op # "destroy"
  PROVE  /\ Tidy' /\ Contents' = Contents
         /\ Opened' = [Opened EXCEPT ![f].pos = e.pos]
         /\ e.pos = fds[f].pos => Opened' = Opened
<1>1. /\ Tidy'
      /\ \A j \in Inode : j # i => Content(j)' = Content(j)
      /\ e.open => Content(i)' = Text(e, m)
      /\ ~e.open => Content(i)' = IF m.used THEN Text(FreshFd, m) ELSE Absent
  BY TidyStep
<1>2. Content(i)' = Content(i)
  BY <1>1, ContentNow
<1>3. Contents' = Contents
  BY <1>1, <1>2, ContentsStep
<1>4. e.inode = fds[f].inode
  OBVIOUS
<1>5. Opened' = [Opened EXCEPT ![f].pos = e.pos]
  BY <1>4, OpenedStep
<1>6. e.pos = fds[f].pos => Opened' = Opened
  BY <1>4, OpenedStep
<1> QED  BY <1>1, <1>3, <1>5, <1>6

LEMMA SeekFiles ==
  ASSUME Careful, IInv, Tidy, IInv', NEW f \in Fd, NEW p \in 0 .. MaxWords, Seek(f, p)
  PROVE  Tidy' /\ Abstract!Seek
<1> DEFINE d == fds[f]
<1>0. PICK i \in Inode : i = d.inode
  BY FileOf DEF Seek
<1> DEFINE n == inodes[i]
<1>1. /\ Idle /\ d.open /\ call' = call /\ p <= d.size /\ ret'.data = << >>
      /\ ret'.missing = 0
  <2>1. /\ Idle /\ d.open /\ call' = call /\ p <= d.size
    BY DEF Seek, Careful
  <2>2. \E status : ret' = Return(status)
    BY DEF Seek
  <2>3. ret'.data = << >> /\ ret'.missing = 0
    BY <2>2 DEF Return
  <2> QED  BY <2>1, <2>3
<1>2. CacheOK(d) /\ d \in Descriptor /\ n \in InodeRecord /\ inodes \in [Inode -> InodeRecord]
      /\ fds \in [Fd -> Descriptor]
  BY <1>0, FileOf DEF IInv
<1>3. Cached(d, n, i) /\ Readily(d, n) /\ Fits(n, Budget(i))
  BY <1>0, <1>1, FitsNow DEF Tidy
<1>4. Contents[i] = Text(d, n) /\ Len(Contents[i]) = d.size
  <2>1. Content(i) = Text(d, n)
    BY <1>0, <1>1, ContentNow
  <2>2. Len(Text(d, n)) = n.size
    BY <1>2, TextIs
  <2> QED  BY <1>3, <2>1, <2>2, ContentsAre DEF Cached
<1>5. Opened[f] = [open |-> TRUE, inode |-> i, pos |-> d.pos]
  BY <1>0, <1>1, OpenedIs
<1>6. Delivered' /\ call'.op = "none"
  BY <1>1, Undelivered DEF Idle
<1>7. p \in 0 .. Len(Contents[i])
  BY <1>1, <1>2, <1>4, Sizes DEF Descriptor
<1>8. \/ /\ d.pos \div ClusterWords = p \div ClusterWords
         /\ fds' = [fds EXCEPT ![f].pos = p]
         /\ ret' = Return("ok")
         /\ UNCHANGED inodes
      \/ \E r \in FlushAll(d, n, Budget(i)) :
           /\ inodes' = [inodes EXCEPT ![i] = r.n]
           /\ fds' = [fds EXCEPT ![f] =
                IF r.ok THEN [r.d EXCEPT !.valid = 0, !.recent = << >>, !.pos = p]
                        ELSE r.d]
           /\ ret' = Return(IF r.ok THEN "ok" ELSE "error")
  BY <1>0 DEF Seek
<1>9. ASSUME NEW e, NEW m \in InodeRecord, Fits(m, Budget(i)),
             fds' = [fds EXCEPT ![f] = e], inodes' = [inodes EXCEPT ![i] = m],
             e.open, e.inode = i, e.pos = p, Cached(e, m, i), Readily(e, m),
             Text(e, m) = Text(d, n), ret'.status = "ok"
      PROVE  Tidy' /\ Abstract!Seek
  <2>1. Tidy' /\ Contents' = Contents /\ Opened' = [Opened EXCEPT ![f].pos = p]
    BY <1>0, <1>1, <1>6, <1>9, QuietStep
  <2>2. \A g \in Fd \ {f} : Opened'[g] = Opened[g]
    BY <1>9, OpenedStep
  <2>3. Opened'[f] = [open |-> TRUE, inode |-> i, pos |-> p]
    BY <1>9, OpenedStep
  <2> DEFINE x == Opened[f]
             y == Opened'[f]
  <2>4. x.open /\ x.inode = i
    BY <1>5
  <2>5. x = [open |-> TRUE, inode |-> i, pos |-> d.pos]
        /\ y = [open |-> TRUE, inode |-> i, pos |-> p]
    BY <1>5, <2>3
  <2> HIDE DEF x, y, d
  <2>6. y = [x EXCEPT !.pos = p]
    BY <2>5, Moved
  <2>7. \E q \in 0 .. Len(Contents[x.inode]) : y = [x EXCEPT !.pos = q]
    BY <1>7, <2>4, <2>6
  <2>8. Abstract!Idle /\ Abstract!OthersKept(f) /\ Abstract!Returned("ok")
    BY <1>1, <1>9, <2>2 DEF Abstract!Idle, Abstract!OthersKept, Abstract!Returned, Idle
  <2>9. Contents' = Contents /\ call' = call
    BY <1>1, <2>1
  <2>10. Abstract!Seek
    BY <2>4, <2>7, <2>8, <2>9, Zenon DEF Abstract!Seek, x, y
  <2> QED  BY <2>1, <2>10
<1>10. CASE /\ d.pos \div ClusterWords = p \div ClusterWords
            /\ fds' = [fds EXCEPT ![f].pos = p]
            /\ ret' = Return("ok")
            /\ UNCHANGED inodes
  <2> DEFINE e == [d EXCEPT !.pos = p]
  <2>1. /\ e \in Descriptor /\ e.open = d.open /\ e.inode = d.inode /\ e.pos = p
        /\ e.valid = d.valid /\ e.recent = d.recent /\ e.slot = d.slot /\ e.size = d.size
    BY <1>2 DEF Descriptor
  <2>2. fds' = [fds EXCEPT ![f] = e] /\ inodes' = [inodes EXCEPT ![i] = n]
    BY <1>2, <1>10
  <2> HIDE DEF e
  <2>3. CacheOK(e)
    BY <1>2, <2>1 DEF CacheOK, Ordered, Flushable
  <2>4. Cached(e, n, i) /\ SameWords(d, n, e, n)
    BY <1>1, <1>2, <1>3, <2>1, <2>3, SlotsTidy
  <2>5. Here(e) = Here(d)
    BY <1>10, <2>1 DEF Here
  <2>6. Readily(e, n)
    BY <1>2, <1>3, <2>1, <2>3, <2>5, MovesReady
  <2>7. Text(e, n) = Text(d, n)
    BY <1>2, <2>4, SameText
  <2>8. ret'.status = "ok"
    BY <1>10 DEF Return
  <2> QED  BY <1>0, <1>1, <1>2, <1>3, <1>9, <2>1, <2>2, <2>4, <2>6, <2>7, <2>8
<1>11. ASSUME NEW r \in FlushAll(d, n, Budget(i)),
              inodes' = [inodes EXCEPT ![i] = r.n],
              fds' = [fds EXCEPT ![f] =
                IF r.ok THEN [r.d EXCEPT !.valid = 0, !.recent = << >>, !.pos = p]
                        ELSE r.d],
              ret' = Return(IF r.ok THEN "ok" ELSE "error")
       PROVE  Tidy' /\ Abstract!Seek
  <2> DEFINE g == r.d
             m == r.n
             e == [g EXCEPT !.valid = 0, !.recent = << >>, !.pos = p]
  <2>1. /\ Cached(r.d, r.n, i) /\ Readily(r.d, r.n) /\ SameWords(d, n, r.d, r.n)
        /\ CacheOK(r.d) /\ SameFile(d, r.d) /\ r.n \in InodeRecord /\ r.n.used = n.used
        /\ Fits(r.n, Budget(i))
        /\ r.ok \in BOOLEAN
        /\ r.ok => \A s \in Slot : ~r.d.slot[s].dirty
    BY <1>2, <1>3, FlushAllTidy DEF Careful
  <2>2. Text(g, m) = Text(d, n)
    BY <1>2, <2>1, SameText
  <2>3. g \in Descriptor /\ g.open /\ g.inode = i /\ g.pos = d.pos /\ g.size = d.size
        /\ m.size = d.size
    BY <1>0, <1>1, <2>1 DEF CacheOK, SameFile, Cached
  <2>4. CASE r.ok
    <3>1. fds' = [fds EXCEPT ![f] = e] /\ inodes' = [inodes EXCEPT ![i] = m]
      BY <1>11, <2>4
    <3>2. OnDisk(m, i) /\ Complete(m) /\ \A h : h.valid = 0 => Text(h, m) = Text(g, m)
      BY <2>1, <2>4, Dropped
    <3>3. m \in InodeRecord /\ Fits(m, Budget(i))
      BY <2>1
    <3> HIDE DEF g, m
    <3>4. /\ e.open = g.open /\ e.inode = g.inode /\ e.size = g.size
          /\ e.valid = 0 /\ e.pos = p
      BY <2>3 DEF Descriptor
    <3> HIDE DEF e
    <3>5. Cached(e, m, i) /\ Readily(e, m)
      BY <1>1, <2>3, <3>2, <3>4, Emptied
    <3>6. Text(e, m) = Text(d, n)
      BY <2>2, <3>2, <3>4
    <3>7. ret'.status = "ok"
      BY <1>11, <2>4 DEF Return
    <3> QED  BY <1>9, <2>3, <3>1, <3>3, <3>4, <3>5, <3>6, <3>7
  <2>5. CASE ~r.ok
    <3>1. fds' = [fds EXCEPT ![f] = g] /\ inodes' = [inodes EXCEPT ![i] = m]
      BY <1>11, <2>5
    <3>2. m \in InodeRecord /\ Fits(m, Budget(i)) /\ Cached(g, m, i) /\ Readily(g, m)
      BY <2>1
    <3>3. ret'.status = "error"
      BY <1>11, <2>5 DEF Return
    <3> HIDE DEF g, m
    <3>4. Tidy' /\ Contents' = Contents /\ Opened' = Opened
      BY <1>0, <1>1, <1>6, <2>2, <2>3, <3>1, <3>2, QuietStep
    <3> QED  BY <1>1, <1>5, <3>3, <3>4
             DEF Abstract!Seek, Abstract!Idle, Abstract!OthersKept, Abstract!Returned, Idle
  <2> QED  BY <2>1, <2>4, <2>5
<1> QED  BY <1>8, <1>10, <1>11

LEMMA OpenedAs ==
  ASSUME NEW f \in Fd, fds[f].open
  PROVE  Opened[f].open /\ Opened[f].inode = fds[f].inode /\ Opened[f].pos = fds[f].pos
<1>1. Opened[f] = [open |-> TRUE, inode |-> fds[f].inode, pos |-> fds[f].pos]
  BY OpenedIs
<1> QED  BY <1>1

LEMMA NotAbsent ==
  ASSUME IInv, Tidy, NEW i \in Inode, inodes[i].used, OpenOn(i) = {}
  PROVE  Contents[i] # Absent
<1> DEFINE n == inodes[i]
<1>1. n \in InodeRecord /\ n.size \in 0 .. MaxWords
  BY DEF IInv, InodeRecord
<1>2. Contents[i] = Text(FreshFd, n)
  BY ContentNow, ContentsAre
<1>3. ASSUME NEW k \in 1 .. n.size
      PROVE  CachedWord(FreshFd, n, k - 1) \in AllWords \cup {Lost}
  <2> DEFINE l == (k - 1) \div ClusterWords
             o == ((k - 1) % ClusterWords) + 1
  <2>1. l \in Logical /\ o \in At
    BY <1>1, <1>3, WordPlace
  <2>2. Holding(FreshFd, l) = {}
    BY Fresh DEF Holding
  <2>3. n.blocks[l] # Hole => n.blocks[l][o] \in AllWords
    BY <1>1, <2>1 DEF InodeRecord, Block
  <2>4. CachedWord(FreshFd, n, k - 1) = IF n.blocks[l] # Hole THEN n.blocks[l][o] ELSE Lost
    BY <2>2 DEF CachedWord
  <2> QED  BY <2>3, <2>4
<1>4. Text(FreshFd, n) \in [1 .. n.size -> AllWords \cup {Lost}]
  BY <1>3 DEF Text
<1> QED  BY <1>1, <1>2, <1>4, AbsentAssumption

LEMMA RemoveFileFiles ==
  ASSUME Careful, IInv, Tidy, IInv', NEW i \in Inode, RemoveFile(i)
  PROVE  Tidy' /\ Abstract!Remove
<1>1. /\ Idle /\ inodes[i].used /\ OpenOn(i) = {} /\ fds' = fds /\ call' = call
      /\ inodes' = [inodes EXCEPT ![i] = NoFile]
      /\ ret'.status = "ok" /\ ret'.data = << >> /\ ret'.missing = 0
  BY DEF RemoveFile, Return
<1>2. NoFile \in InodeRecord /\ NoFile.used = FALSE /\ NoFile.size = 0
  BY NoFileType DEF NoFile
<1>3. OnDisk(NoFile, i) /\ Complete(NoFile) /\ Allocated(NoFile) = {}
  BY <1>2, NoFileTidy
<1>4. Fits(NoFile, Budget(i))
  BY <1>3, NothingFits
<1>5. Delivered' /\ call'.op # "destroy"
  BY <1>1, Undelivered DEF Idle
<1>6. /\ Tidy'
      /\ \A j \in Inode : j # i => Content(j)' = Content(j)
      /\ Content(i)' = IF NoFile.used THEN Text(FreshFd, NoFile) ELSE Absent
  BY <1>1, <1>2, <1>3, <1>4, <1>5, TidyInode
<1>7. Contents' = [Contents EXCEPT ![i] = Absent]
  BY <1>2, <1>6, ContentsStep
<1>8. Opened' = Opened
  BY <1>1 DEF Opened, FreshFd, Fd, Slot, EmptySlot, Zeros, At
<1>9. Contents[i] # Absent
  BY <1>1, NotAbsent
<1>10. ASSUME NEW f \in Fd, Opened[f].open PROVE Opened[f].inode # i
  <2>1. fds[f].open
    BY <1>10, OpenedIs
  <2>2. Opened[f].inode = fds[f].inode
    BY <2>1, OpenedAs
  <2> QED  BY <1>1, <2>1, <2>2 DEF OpenOn
<1> QED  BY <1>1, <1>6, <1>7, <1>8, <1>9, <1>10
         DEF Abstract!Remove, Abstract!Idle, Abstract!Returned, Idle

\* What an open finds, or makes: a file without words, or the one that is there.
LEMMA OpenMakes ==
  ASSUME Careful, IInv, Tidy, IInv', NEW i \in Inode, NEW flags \in OpenFlags, Open(i, flags),
         NEW m, inodes' = [inodes EXCEPT ![i] = m],
         m = IF ~inodes[i].used \/ {"truncate", "write"} \subseteq flags
             THEN [NoFile EXCEPT !.used = TRUE] ELSE inodes[i]
  PROVE  /\ m \in InodeRecord /\ m.used /\ OpenOn(i) = {}
         /\ OnDisk(m, i) /\ Complete(m) /\ Fits(m, Budget(i))
         /\ \/ Text(FreshFd, m) = << >>
            \/ inodes[i].used /\ Text(FreshFd, m) = Content(i)
<1> DEFINE n == inodes[i]
<1>1. OpenOn(i) = {}
  BY DEF Open, Careful
<1>2. n \in InodeRecord /\ inodes \in [Inode -> InodeRecord]
  BY DEF IInv
<1>3. m \in InodeRecord
  BY <1>2 DEF IInv
<1>4. CASE ~n.used \/ {"truncate", "write"} \subseteq flags
  <2>1. m = [NoFile EXCEPT !.used = TRUE]
    BY <1>4
  <2>2. m.used /\ m.size = 0 /\ m.blocks = NoFile.blocks
    BY <2>1 DEF NoFile
  <2>3. OnDisk(m, i) /\ Complete(m) /\ Allocated(m) = {}
    BY <1>3, <2>2, NoFileTidy
  <2>4. Fits(m, Budget(i))
    BY <2>3, NothingFits
  <2>5. Text(FreshFd, m) = << >>
    BY <2>2 DEF Text
  <2> QED  BY <1>1, <1>3, <2>2, <2>3, <2>4, <2>5
<1>5. CASE ~(~n.used \/ {"truncate", "write"} \subseteq flags)
  <2>1. m = n /\ n.used
    BY <1>2, <1>5 DEF InodeRecord
  <2>2. OnDisk(n, i) /\ Complete(n) /\ Fits(n, Budget(i))
    BY <1>1, FitsNow DEF Tidy
  <2>3. Content(i) = Text(FreshFd, n)
    BY <1>1, <2>1, ContentNow
  <2> QED  BY <1>1, <1>3, <2>1, <2>2, <2>3
<1> QED  BY <1>4, <1>5

LEMMA OpenFiles ==
  ASSUME Careful, IInv, Tidy, IInv', NEW i \in Inode, NEW flags \in OpenFlags, Open(i, flags)
  PROVE  Tidy' /\ Abstract!Open
<1> DEFINE n == inodes[i]
           m == IF ~n.used \/ {"truncate", "write"} \subseteq flags
                THEN [NoFile EXCEPT !.used = TRUE] ELSE n
           closed == {f \in Fd : ~fds[f].open}
           text == Text(FreshFd, m)
<1>1. /\ Idle /\ call' = call /\ inodes' = [inodes EXCEPT ![i] = m]
  BY DEF Open
<1>2. \/ /\ closed = {}
         /\ ret' = Return("error")
         /\ fds' = fds
      \/ /\ closed # {}
         /\ fds' = [fds EXCEPT ![First(closed)] =
              [FreshFd EXCEPT !.open = TRUE, !.inode = i, !.flags = flags,
                              !.pos = IF "append" \in flags THEN m.size ELSE 0,
                              !.size = m.size, !.slot = fds[First(closed)].slot]]
         /\ ret' = Return("ok")
  BY DEF Open
<1>3. /\ m \in InodeRecord /\ m.used /\ OpenOn(i) = {}
      /\ OnDisk(m, i) /\ Complete(m) /\ Fits(m, Budget(i))
      /\ \/ text = << >>
         \/ inodes[i].used /\ text = Content(i)
  <2> DEFINE k == m
  <2>1. k = IF ~inodes[i].used \/ {"truncate", "write"} \subseteq flags
            THEN [NoFile EXCEPT !.used = TRUE] ELSE inodes[i]
    OBVIOUS
  <2>2. inodes' = [inodes EXCEPT ![i] = k]
    BY <1>1
  <2> HIDE DEF k
  <2>3. /\ k \in InodeRecord /\ k.used /\ OpenOn(i) = {}
        /\ OnDisk(k, i) /\ Complete(k) /\ Fits(k, Budget(i))
        /\ \/ Text(FreshFd, k) = << >>
           \/ inodes[i].used /\ Text(FreshFd, k) = Content(i)
    BY <2>1, <2>2, OpenMakes
  <2> USE DEF k
  <2> QED  BY <2>3
<1>4. fds \in [Fd -> Descriptor] /\ inodes \in [Inode -> InodeRecord]
  BY DEF IInv
<1>5. m.size \in 0 .. MaxWords
  BY <1>3 DEF InodeRecord
<1> HIDE DEF m
<1>6. \A f \in Fd : Opened[f].open => Opened[f].inode # i
  <2>1. ASSUME NEW f \in Fd, Opened[f].open PROVE Opened[f].inode # i
    <3>1. fds[f].open
      BY <2>1, OpenedIs
    <3>2. Opened[f].inode = fds[f].inode
      BY <3>1, OpenedAs
    <3> QED  BY <1>3, <3>1, <3>2 DEF OpenOn
  <2> QED  BY <2>1
<1>7. ret'.data = << >> /\ ret'.missing = 0
  BY <1>2 DEF Return
<1>8. Delivered' /\ call'.op # "destroy"
  BY <1>1, <1>7, Undelivered DEF Idle
<1>9. ASSUME Content(i)' = text, \A j \in Inode : j # i => Content(j)' = Content(j)
      PROVE  /\ Contents' \in {[Contents EXCEPT ![i] = << >>]}
                              \cup (IF Contents[i] = Absent THEN {} ELSE {Contents})
             /\ Contents'[i] = text
  <2>1. CASE text = << >>
    <3>1. Content(i)' = << >>
      BY <1>9, <2>1
    <3>2. Contents' = [Contents EXCEPT ![i] = << >>]
      BY <1>9, <3>1, ContentsStep
    <3> QED  BY <1>9, <3>2, ContentsAre
  <2>2. CASE inodes[i].used /\ text = Content(i)
    <3>1. Content(i)' = Content(i)
      BY <1>9, <2>2
    <3>2. Contents' = Contents
      BY <1>9, <3>1, ContentsStep
    <3>3. Contents[i] # Absent
      BY <1>3, <2>2, NotAbsent
    <3> QED  BY <1>9, <3>2, <3>3, ContentsAre
  <2> QED  BY <1>3, <2>1, <2>2
<1>10. CASE /\ closed = {}
            /\ ret' = Return("error")
            /\ fds' = fds
  <2>1. /\ Tidy'
        /\ \A j \in Inode : j # i => Content(j)' = Content(j)
        /\ Content(i)' = IF m.used THEN Text(FreshFd, m) ELSE Absent
    BY <1>1, <1>3, <1>8, <1>10, TidyInode
  <2>2. Content(i)' = text /\ \A j \in Inode : j # i => Content(j)' = Content(j)
    BY <1>3, <2>1
  <2>3. /\ Contents' \in {[Contents EXCEPT ![i] = << >>]}
                         \cup (IF Contents[i] = Absent THEN {} ELSE {Contents})
    BY <1>9, <2>2
  <2>4. Opened' = Opened
    BY <1>10 DEF Opened, FreshFd, Fd, Slot, EmptySlot, Zeros, At
  <2>5. \A f \in Fd : Opened[f].open
    BY <1>10, OpenedIs
  <2>6. ret'.status = "error"
    BY <1>10 DEF Return
  <2> QED  BY <1>1, <1>6, <1>7, <2>1, <2>3, <2>4, <2>5, <2>6
           DEF Abstract!Open, Abstract!Idle, Abstract!Returned, Idle
<1>11. CASE /\ closed # {}
            /\ fds' = [fds EXCEPT ![First(closed)] =
                 [FreshFd EXCEPT !.open = TRUE, !.inode = i, !.flags = flags,
                                 !.pos = IF "append" \in flags THEN m.size ELSE 0,
                                 !.size = m.size, !.slot = fds[First(closed)].slot]]
            /\ ret' = Return("ok")
  <2>1. PICK f \in Fd : f = First(closed) /\ ~fds[f].open
    <3>1. closed \in SUBSET Nat
      BY Sizes DEF Fd
    <3> QED  BY <1>11, <3>1, FirstIs
  <2> DEFINE e == [FreshFd EXCEPT !.open = TRUE, !.inode = i, !.flags = flags,
                                  !.pos = IF "append" \in flags THEN m.size ELSE 0,
                                  !.size = m.size, !.slot = fds[f].slot]
  <2>2. fds' = [fds EXCEPT ![f] = e]
    BY <1>11, <2>1
  <2>3. e.open = TRUE /\ e.inode = i /\ e.size = m.size /\ e.valid = 0
        /\ e.pos \in {0, m.size}
    BY Fresh DEF Descriptor
  <2> HIDE DEF e, closed
  <2>4. Cached(e, m, i) /\ Readily(e, m)
    <3>1. e.pos <= e.size
      BY <1>5, <2>3
    <3> QED  BY <1>3, <2>3, <3>1, Emptied
  <2>5. Text(e, m) = text
    BY <2>3, Fresh, Uncached
  <2>6. /\ IF fds[f].open THEN fds[f].inode = i ELSE OpenOn(i) = {}
        /\ inodes' = [inodes EXCEPT ![i] = m]
        /\ e.open => e.inode = i /\ Cached(e, m, i) /\ Readily(e, m)
        /\ ~e.open => OnDisk(m, i) /\ Complete(m)
        /\ call'.op = "destroy" => call.op = "destroy" /\ \A s \in Slot : ~e.slot[s].dirty
        /\ m \in InodeRecord /\ Fits(m, Budget(i)) /\ Delivered'
    BY <1>1, <1>3, <1>8, <2>1, <2>3, <2>4
  <2>7. /\ Tidy'
        /\ \A j \in Inode : j # i => Content(j)' = Content(j)
        /\ e.open => Content(i)' = Text(e, m)
        /\ ~e.open => Content(i)' = IF m.used THEN Text(FreshFd, m) ELSE Absent
    BY <2>2, <2>6, TidyStep
  <2>8. Content(i)' = text /\ \A j \in Inode : j # i => Content(j)' = Content(j)
    BY <2>3, <2>5, <2>7
  <2>9. /\ Contents' \in {[Contents EXCEPT ![i] = << >>]}
                         \cup (IF Contents[i] = Absent THEN {} ELSE {Contents})
        /\ Contents'[i] = text
    BY <1>9, <2>8
  <2>10. Len(Contents'[i]) = m.size
    BY <1>3, <2>9, TextIs
  <2>11. Opened'[f] = [open |-> TRUE, inode |-> i, pos |-> e.pos]
    BY <2>2, <2>3, OpenedStep
  <2>12. \A g \in Fd \ {f} : Opened'[g] = Opened[g]
    BY <2>2, OpenedStep
  <2>13. ret'.status = "ok"
    BY <1>11 DEF Return
  <2>14. ~Opened[f].open
    BY <2>1, OpenedIs
  <2> HIDE DEF text
  <2>15. \E pos \in {0, Len(Contents'[i])} : Opened'[f] = [open |-> TRUE, inode |-> i, pos |-> pos]
    BY <2>3, <2>10, <2>11
  <2> QED  BY <1>1, <1>6, <1>7, <2>7, <2>9, <2>12, <2>13, <2>14, <2>15
           DEF Abstract!Open, Abstract!Idle, Abstract!OthersKept, Abstract!Returned, Idle
<1> QED  BY <1>2, <1>10, <1>11

\* A step that changes neither files nor descriptors.
LEMMA Still ==
  ASSUME IInv, Tidy, IInv', fds' = fds, inodes' = inodes, Delivered',
         call'.op = "destroy" => \A f \in Fd, s \in Slot : ~fds[f].slot[s].dirty
  PROVE  Tidy' /\ Contents' = Contents /\ Opened' = Opened
<1>1. /\ \A g, h \in Fd : fds[g].open /\ fds[h].open /\ fds[g].inode = fds[h].inode => g = h
      /\ \A g \in Fd : fds[g].open =>
           /\ Cached(fds[g], inodes[fds[g].inode], fds[g].inode)
           /\ Readily(fds[g], inodes[fds[g].inode])
      /\ \A j \in Inode : OpenOn(j) = {} => OnDisk(inodes[j], j) /\ Complete(inodes[j])
      /\ WithinCapacity
  BY DEF Tidy, OpenedOnce
<1>2. WithinCapacity'
  BY <1>1 DEF WithinCapacity, Taken, Allocated, Logical
<1>3. \A j \in Inode : OpenOn(j)' = OpenOn(j)
  BY DEF OpenOn, Fd
<1>4. Tidy'
  <2>1. \A g, h \in Fd :
          fds'[g].open /\ fds'[h].open /\ fds'[g].inode = fds'[h].inode => g = h
    BY <1>1
  <2>2. \A g \in Fd : fds'[g].open =>
          /\ Cached(fds'[g], inodes'[fds'[g].inode], fds'[g].inode)
          /\ Readily(fds'[g], inodes'[fds'[g].inode])
    BY <1>1
  <2>3. \A j \in Inode : OpenOn(j)' = {} => OnDisk(inodes'[j], j) /\ Complete(inodes'[j])
    BY <1>1, <1>3
  <2>4. call'.op = "destroy" => \A g \in Fd, s \in Slot : ~fds'[g].slot[s].dirty
    OBVIOUS
  <2> QED  BY <1>2, <2>1, <2>2, <2>3, <2>4
           DEF Readily, Settled, Ahead, Here, Logical, At, Slot, Fd, Tidy,
    OpenedOnce, Cached, OnDisk, Complete, Begins, InFile, Own
<1>5. ASSUME NEW j \in Inode PROVE Content(j)' = Content(j)
  <2>1. CASE OpenOn(j) = {}
    BY <1>3, <1>4, <2>1, ContentNow, ContentThen
  <2>2. CASE OpenOn(j) # {}
    <3>1. PICK g \in Fd : fds[g].open /\ fds[g].inode = j
      BY <2>2 DEF OpenOn
    <3>2. Content(j) = Text(fds[g], inodes[j])
      BY <3>1, ContentNow
    <3>3. Content(j)' = Text(fds'[g], inodes'[j])
      BY <1>4, <3>1, ContentThen
    <3> QED  BY <3>2, <3>3
  <2> QED  BY <2>1, <2>2
<1>6. Contents' = Contents
  <2>1. PICK i \in Inode : TRUE
    BY SizesAssumption
  <2> QED  BY <1>5, ContentsStep
<1>7. Opened' = Opened
  BY DEF Opened, FreshFd, Fd, Slot, EmptySlot, Zeros, At
<1> QED  BY <1>4, <1>6, <1>7

\* The positions and sizes of the open files, as the abstraction sees them.
LEMMA FileAt ==
  ASSUME IInv, Tidy, NEW f \in Fd, fds[f].open
  PROVE  /\ Opened[f].open /\ Opened[f].inode = fds[f].inode /\ Opened[f].pos = fds[f].pos
         /\ Contents[fds[f].inode] = Text(fds[f], inodes[fds[f].inode])
         /\ Len(Contents[fds[f].inode]) = fds[f].size
<1>1. PICK i \in Inode : i = fds[f].inode
  BY FileOf
<1>2. inodes[i] \in InodeRecord
  BY <1>1, FileOf
<1>3. Content(i) = Text(fds[f], inodes[i])
  BY <1>1, ContentNow
<1>4. Len(Text(fds[f], inodes[i])) = inodes[i].size
  BY <1>2, TextIs
<1>5. fds[f].size = inodes[i].size
  BY <1>1 DEF Tidy, Cached
<1>6. Contents[i] = Content(i)
  BY ContentsAre
<1> QED  BY <1>1, <1>3, <1>4, <1>5, <1>6, OpenedAs

LEMMA StartFiles ==
  ASSUME IInv, Tidy, IInv', Idle, fds' = fds, inodes' = inodes, ret' = Return("none"),
         call'.op # "none",
         call'.op = "destroy" => \A f \in Fd, s \in Slot : ~fds[f].slot[s].dirty
  PROVE  Tidy' /\ Abstract!Start
<1>1. ret'.status = "none" /\ ret'.data = << >> /\ ret'.missing = 0
  BY DEF Return
<1>2. Tidy' /\ Contents' = Contents /\ Opened' = Opened
  BY <1>1, Undelivered, Still
<1>3. /\ call'.op \in {"none", "read", "write", "destroy"} /\ call'.fd \in Fd
      /\ call'.op \in {"read", "write"} => call'.left > 0 /\ fds[call'.fd].open
      /\ call'.op = "read" => fds[call'.fd].pos + call'.left <= fds[call'.fd].size
  BY DEF IInv, CallOK, Fd
<1>4. PICK f \in Fd : f = call'.fd
  BY <1>3
<1>5. call'.op \in {"read", "write"} =>
        /\ Opened[f].open /\ Opened[f].pos = fds[f].pos
        /\ Len(Contents[Opened[f].inode]) = fds[f].size
  BY <1>3, <1>4, FileAt
<1>6. \/ call'.op = "destroy"
      \/ /\ call'.op \in {"read", "write"}
         /\ call'.left > 0
         /\ Opened[call'.fd].open
         /\ call'.op = "read" =>
              Opened[call'.fd].pos + call'.left <= Len(Contents[Opened[call'.fd].inode])
  BY <1>3, <1>4, <1>5
<1> QED  BY <1>1, <1>2, <1>6
         DEF Abstract!Start, Abstract!Idle, Abstract!Returned, Idle

LEMMA StartDestroyFiles ==
  ASSUME Careful, IInv, Tidy, IInv', StartDestroy
  PROVE  Tidy' /\ Abstract!Start
<1>1. /\ Idle /\ ret' = Return("none") /\ fds' = fds /\ inodes' = inodes
      /\ call' = [NoCall EXCEPT !.op = "destroy"]
      /\ \A f \in Fd : Dirty(fds[f], Slot) = {}
  BY DEF StartDestroy, Careful
<1>2. call'.op = "destroy"
  BY <1>1 DEF NoCall
<1>3. \A f \in Fd, s \in Slot : ~fds[f].slot[s].dirty
  BY <1>1 DEF Dirty
<1> QED  BY <1>1, <1>2, <1>3, StartFiles

LEMMA StartReadFiles ==
  ASSUME IInv, Tidy, IInv', NEW f \in Fd, NEW len \in Length, StartRead(f, len)
  PROVE  Tidy' /\ Abstract!Start
<1>1. /\ Idle /\ ret' = Return("none") /\ fds' = fds /\ inodes' = inodes
  BY DEF StartRead
<1>2. call'.op = "read"
  BY DEF StartRead
<1> QED  BY <1>1, <1>2, StartFiles

LEMMA StartWriteFiles ==
  ASSUME IInv, Tidy, IInv', NEW f \in Fd, NEW len \in Length, NEW w,
         StartWrite(f, len, w)
  PROVE  Tidy' /\ Abstract!Start
<1>1. /\ Idle /\ ret' = Return("none") /\ fds' = fds /\ inodes' = inodes
  BY DEF StartWrite
<1>2. call'.op = "write"
  BY DEF StartWrite
<1> QED  BY <1>1, <1>2, StartFiles

LEMMA InPlace ==
  ASSUME NEW k \in Nat, NEW o \in 0 .. ClusterWords - 1, NEW p, p = k * ClusterWords + o
  PROVE  p \in Nat /\ p \div ClusterWords = k /\ p % ClusterWords = o
<1> DEFINE c == ClusterWords
           q == p \div c
           r == p % c
<1>1. c \in Nat \ {0} /\ o \in 0 .. c - 1 /\ p = k * c + o
  BY Sizes
<1>2. k * c \in Nat
  BY <1>1
<1>3. p \in Nat
  BY <1>1, <1>2
<1>4. q \in Nat /\ r \in 0 .. c - 1 /\ p = c * q + r
  BY <1>1, <1>3
<1>5. p = q * c + r /\ q * c \in Nat
  BY <1>1, <1>4
<1>6. q < k => q * c + c <= k * c
  BY <1>4, Apart
<1>7. k < q => k * c + c <= q * c
  BY <1>4, Apart
<1> DEFINE kc == k * c
           qc == q * c
<1>8. /\ p = kc + o /\ p = qc + r /\ kc \in Nat /\ qc \in Nat
      /\ q < k => qc + c <= kc
      /\ k < q => kc + c <= qc
  BY <1>1, <1>2, <1>5, <1>6, <1>7
<1> HIDE DEF kc, qc, q, r, c
<1>9. ~(q < k) /\ ~(k < q)
  BY <1>1, <1>4, <1>8
<1>10. q = k
  BY <1>4, <1>9
<1>11. kc = qc
  BY <1>10 DEF kc, qc
<1>12. r = o
  BY <1>1, <1>4, <1>8, <1>11
<1> QED  BY <1>3, <1>10, <1>12 DEF c, q, r

\* A round of reading delivers the words at the position.
LEMMA ReadWords ==
  ASSUME NEW d, CacheOK(d), NEW n \in InodeRecord, NEW i, Cached(d, n, i),
         NEW s \in 1 .. d.valid, d.slot[s].index = Here(d),
         NEW c \in Nat, Offset(d) + c <= ClusterWords, d.pos + c <= n.size
  PROVE  LET data == SubSeq(d.slot[s].words, Offset(d) + 1, Offset(d) + c)
         IN  /\ data = SubSeq(Text(d, n), d.pos + 1, d.pos + c)
             /\ \A k \in DOMAIN data : data[k] \in Own(i)
<1> DEFINE w == d.slot[s].words
           t == Text(d, n)
           a == Offset(d)
           p == d.pos
           x == SubSeq(w, a + 1, a + c)
           y == SubSeq(t, p + 1, p + c)
           S == {w[o] : o \in At}
<1>1. /\ p \in Nat /\ Here(d) \in Nat /\ Here(d) \in Logical /\ s \in Slot
      /\ n.size \in Nat /\ p \in 0 .. MaxWords
  BY HereIs, TextIs DEF CacheOK, Descriptor
<1>2. a \in 0 .. ClusterWords - 1 /\ p = Here(d) * ClusterWords + a
      /\ ClusterWords \in Nat \ {0}
  <2>1. p % ClusterWords \in 0 .. ClusterWords - 1
        /\ p = ClusterWords * (p \div ClusterWords) + (p % ClusterWords)
        /\ ClusterWords \in Nat \ {0}
    BY <1>1, Place, Sizes
  <2> QED  BY <1>1, <2>1 DEF Offset, Here
<1>3. ASSUME NEW k \in 1 .. c
      PROVE  /\ w[a + k] \in S /\ w[a + k] \in Own(i)
             /\ t[p + k] = w[a + k]
  <2> DEFINE b == p + k - 1
             o == a + k - 1
  <2>1. /\ o \in 0 .. ClusterWords - 1 /\ b = Here(d) * ClusterWords + o
        /\ b \in 0 .. n.size - 1 /\ p + k \in 1 .. n.size /\ b + 1 = p + k
        /\ o + 1 = a + k /\ a + k \in At
    <3> DEFINE z == Here(d) * ClusterWords
    <3>1. z \in Nat /\ p = z + a
      BY <1>1, <1>2
    <3> HIDE DEF z, a, p
    <3>2. /\ o \in 0 .. ClusterWords - 1 /\ b = z + o
          /\ b \in 0 .. n.size - 1 /\ p + k \in 1 .. n.size /\ b + 1 = p + k
          /\ o + 1 = a + k /\ a + k \in 1 .. ClusterWords
      <4>1. a + c <= ClusterWords /\ p + c <= n.size
        BY DEF a, p
      <4> QED  BY <1>1, <1>2, <3>1, <4>1
    <3> QED  BY <3>2 DEF z, At
  <2> HIDE DEF b, o
  <2>2. b \div ClusterWords = Here(d) /\ b % ClusterWords = o
    BY <1>1, <2>1, InPlace
  <2>3. \A v : Shows(d, n, Here(d), a + k, v) => v = CachedWord(d, n, b)
    <3>1. LET l == b \div ClusterWords
              e == (b % ClusterWords) + 1
          IN  /\ Shows(d, n, l, e, CachedWord(d, n, b))
              /\ \A v : Shows(d, n, l, e, v) => v = CachedWord(d, n, b)
      BY <2>1, WordIs
    <3> QED  BY <2>1, <2>2, <3>1
  <2>4. Shows(d, n, Here(d), a + k, w[a + k])
    BY DEF Shows
  <2>5. w[a + k] = CachedWord(d, n, b)
    BY <2>3, <2>4
  <2>6. t[p + k] = CachedWord(d, n, (p + k) - 1)
    BY <2>1, TextIs
  <2>7. (p + k) - 1 = b
    BY <1>1 DEF b
  <2>8. w[a + k] \in Own(i)
    BY <2>1 DEF Cached
  <2> QED  BY <2>1, <2>5, <2>6, <2>7, <2>8
<1>4. a \in Nat /\ p \in Nat
  BY <1>1, <1>2
<1> HIDE DEF w, t, a, p, S
<1>5. \A k \in a + 1 .. a + c : w[k] \in S /\ w[k] \in Own(i)
  <2> SUFFICES ASSUME NEW k \in a + 1 .. a + c PROVE w[k] \in S /\ w[k] \in Own(i)
    OBVIOUS
  <2> DEFINE j == k - a
  <2>1. j \in 1 .. c /\ a + j = k
    BY <1>4
  <2> HIDE DEF j
  <2> QED  BY <1>3, <2>1
<1>6. \A k \in p + 1 .. p + c : t[k] \in S
  <2> SUFFICES ASSUME NEW k \in p + 1 .. p + c PROVE t[k] \in S
    OBVIOUS
  <2> DEFINE j == k - p
  <2>1. j \in 1 .. c /\ p + j = k
    BY <1>4
  <2> HIDE DEF j
  <2>2. t[p + j] = w[a + j] /\ w[a + j] \in S
    BY <1>3, <2>1
  <2> QED  BY <2>1, <2>2
<1>7. /\ x \in Seq(S)
      /\ Len(x) = IF a + 1 <= a + c THEN (a + c) - (a + 1) + 1 ELSE 0
      /\ \A k \in 1 .. (a + c) - (a + 1) + 1 : x[k] = w[(a + 1) + k - 1]
  <2>1. a + 1 \in Int /\ a + c \in Int
    BY <1>4
  <2>2. \A k \in a + 1 .. a + c : w[k] \in S
    BY <1>5
  <2> QED  BY <2>1, <2>2, SubSeqProperties
<1>8. /\ y \in Seq(S)
      /\ Len(y) = IF p + 1 <= p + c THEN (p + c) - (p + 1) + 1 ELSE 0
      /\ \A k \in 1 .. (p + c) - (p + 1) + 1 : y[k] = t[(p + 1) + k - 1]
  <2>1. p + 1 \in Int /\ p + c \in Int
    BY <1>4
  <2> QED  BY <1>6, <2>1, SubSeqProperties
<1> HIDE DEF x, y
<1>9. Len(x) = c /\ Len(y) = c
  BY <1>4, <1>7, <1>8
<1>10. ASSUME NEW k \in 1 .. c PROVE x[k] = y[k] /\ x[k] \in Own(i)
  <2>1. /\ k \in 1 .. (a + c) - (a + 1) + 1 /\ (a + 1) + k - 1 = a + k
        /\ k \in 1 .. (p + c) - (p + 1) + 1 /\ (p + 1) + k - 1 = p + k
    BY <1>4
  <2>2. x[k] = w[a + k] /\ y[k] = t[p + k]
    BY <1>7, <1>8, <2>1
  <2> QED  BY <1>3, <2>2
<1>11. x = y
  BY <1>7, <1>8, <1>9, <1>10, SeqEqual
<1>12. \A k \in DOMAIN x : x[k] \in Own(i)
  <2>1. DOMAIN x = 1 .. Len(x)
    BY <1>7
  <2> QED  BY <1>9, <1>10, <2>1
<1> QED  BY <1>11, <1>12 DEF x, y, w, t, a, p

\* The abstract call goes on as the call does.
LEMMA Advances ==
  ASSUME IInv, call.op \in {"read", "write"}, NEW f \in Fd, f = call.fd,
         NEW c, c = Chunk(fds[f]), call' = Proceed(c), ret'.status = Status(c),
         Opened' = [Opened EXCEPT ![f].pos = fds[f].pos + c]
  PROVE  /\ Abstract!Advance(c) /\ c \in 1 .. call.left
         /\ call'.op \in {"none", call.op}
         /\ call'.op # "none" => call'.fd = f
<1>1. /\ call.left \in Nat /\ c \in Nat /\ c > 0 /\ c <= call.left /\ fds[f].open
  BY ChunkIs
<1>2. Opened[f].pos = fds[f].pos
  BY <1>1, OpenedAs
<1>3. Opened' = [Opened EXCEPT ![call.fd].pos = @ + c]
  BY <1>2
<1>4. call \in [op : {"none", "read", "write", "destroy"}, fd : Fd, left : Nat,
                word : AllWords]
  BY DEF IInv, CallOK
<1>5. CASE call.left = c
  <2>1. call'.op = "none" /\ ret'.status = "ok"
    BY <1>5 DEF Proceed, Status, NoCall
  <2>2. Abstract!Advance(c)
    BY <1>3, <1>5, <2>1 DEF Abstract!Advance
  <2>3. c \in 1 .. call.left
    BY <1>1
  <2> QED  BY <2>1, <2>2, <2>3
<1>6. CASE call.left # c
  <2>1. call' = [call EXCEPT !.left = @ - c] /\ ret'.status = "none"
    BY <1>6 DEF Proceed, Status
  <2>2. call'.op = call.op /\ call'.fd = f
    BY <1>4, <2>1
  <2>3. c < call.left
    BY <1>1, <1>6
  <2>4. Abstract!Advance(c)
    BY <1>3, <2>1, <2>3 DEF Abstract!Advance
  <2>5. c \in 1 .. call.left
    BY <1>1
  <2>6. call'.op \in {"none", call.op} /\ (call'.op # "none" => call'.fd = f)
    BY <2>2
  <2> QED  BY <2>4, <2>5, <2>6
<1> QED  BY <1>5, <1>6

LEMMA BudgetType ==
  ASSUME NEW i \in Inode
  PROVE  Budget(i) \in Int
<1>1. Cardinality(TakenBut(inodes, i)) \in Nat
  BY TakenIs
<1> QED  BY <1>1, Sizes DEF Budget, TakenBut

LEMMA ReadFiles ==
  ASSUME Careful, IInv, Tidy, IInv', ReadRound
  PROVE  Tidy' /\ Abstract!Read
<1>0. call.op = "read"
  BY DEF ReadRound
<1>1. PICK f \in Fd : f = call.fd
  BY <1>0, ChunkIs
<1> DEFINE d == fds[f]
<1>2. PICK i \in Inode : i = d.inode
  BY FileOf
<1> DEFINE n == inodes[i]
           l == Here(d)
           c == Chunk(d)
           budget == Budget(i)
<1>3. /\ c \in Nat /\ c > 0 /\ c <= call.left /\ call.left \in Nat
      /\ Offset(d) \in Nat /\ Offset(d) + c <= ClusterWords
      /\ d.pos + c \in 0 .. MaxWords /\ l \in Logical /\ l + 1 \in Logical
      /\ d.pos + call.left <= d.size /\ d.open
  BY <1>0, <1>1, ChunkIs
<1>4. /\ CacheOK(d) /\ d \in Descriptor /\ n \in InodeRecord
      /\ inodes \in [Inode -> InodeRecord] /\ fds \in [Fd -> Descriptor]
  BY <1>2, FileOf DEF IInv
<1>5. Cached(d, n, i) /\ Readily(d, n) /\ Fits(n, budget)
  BY <1>2, <1>3, FitsNow DEF Tidy
<1>6. budget \in Int
  BY BudgetType
<1>7. d.pos \in Nat /\ d.size \in Nat /\ n.size = d.size
  BY <1>4, <1>5, HereIs DEF Cached
<1>8. d.pos + c <= d.size
  BY <1>3, <1>7
<1>9. Begins(d.size, l)
  <2> DEFINE z == l * ClusterWords
             o == d.pos % ClusterWords
  <2>1. d.pos \in 0 .. MaxWords
    BY <1>4 DEF Descriptor
  <2>2. o \in 0 .. ClusterWords - 1 /\ ClusterWords \in Nat \ {0} /\ l \in Nat
        /\ d.pos = ClusterWords * l + o
    BY <1>4, <2>1, Place, HereIs, Sizes DEF Here
  <2> HIDE DEF o, l
  <2>3. z \in Nat /\ d.pos = z + o /\ o \in Nat
    BY <2>2
  <2> HIDE DEF z, c
  <2>4. z < d.size
    BY <1>3, <1>7, <1>8, <2>3
  <2> QED  BY <2>4 DEF z, Begins
<1>10. \E r \in Load(d, n, budget, l) :
         /\ inodes' = [inodes EXCEPT ![i] = r.n]
         /\ \/ ~r.ok
            \/ /\ r.ok
               /\ \E e \in Prefetch([r.d EXCEPT !.pos = @ + c], r.n, l + 1) :
                    fds' = [fds EXCEPT ![f] = e]
               /\ call' = Proceed(c)
               /\ ret' = [status |-> Status(c), missing |-> 0,
                          data |-> SubSeq(r.d.slot[r.s].words,
                                          Offset(d) + 1, Offset(d) + c)]
  BY <1>1, <1>2 DEF ReadRound
<1> HIDE DEF d, n, l, c, budget
<1>11. PICK r \in Load(d, n, budget, l) :
         /\ inodes' = [inodes EXCEPT ![i] = r.n]
         /\ \/ ~r.ok
            \/ /\ r.ok
               /\ \E e \in Prefetch([r.d EXCEPT !.pos = @ + c], r.n, l + 1) :
                    fds' = [fds EXCEPT ![f] = e]
               /\ call' = Proceed(c)
               /\ ret' = [status |-> Status(c), missing |-> 0,
                          data |-> SubSeq(r.d.slot[r.s].words,
                                          Offset(d) + 1, Offset(d) + c)]
  BY <1>10
<1> DEFINE g == r.d
           m == r.n
           h == [g EXCEPT !.pos = @ + c]
<1>12. Loaded(d, n, l, r)
  BY <1>3, <1>4, LoadSound
<1>13. Cached(r.d, r.n, i) /\ SameWords(d, n, r.d, r.n)
  BY <1>3, <1>4, <1>5, LoadTidy DEF Careful
<1>14. /\ Readily(r.d, r.n)
       /\ Fits(n, budget) /\ budget \in Int /\ Begins(d.size, l) => r.ok
  BY <1>4, <1>5, LoadReady DEF Careful, l
<1>15. Fits(r.n, budget)
  BY <1>5, LoadFits DEF Careful
<1>16. /\ g \in Descriptor /\ CacheOK(g) /\ m \in InodeRecord
       /\ g.open = d.open /\ g.inode = d.inode /\ g.pos = d.pos /\ g.size = d.size
       /\ Cached(g, m, i) /\ Readily(g, m) /\ Fits(m, budget) /\ SameWords(d, n, g, m)
       /\ r.s \in 1 .. g.valid /\ g.slot[r.s].index = l
  BY <1>5, <1>6, <1>9, <1>12, <1>13, <1>14, <1>15 DEF Loaded, SameFile, CacheOK
<1>17. PICK e \in Prefetch(h, m, l + 1) : fds' = [fds EXCEPT ![f] = e]
  BY <1>5, <1>6, <1>9, <1>11, <1>14
<1>18. /\ inodes' = [inodes EXCEPT ![i] = m] /\ call' = Proceed(c)
       /\ ret' = [status |-> Status(c), missing |-> 0,
                  data |-> SubSeq(g.slot[r.s].words, Offset(d) + 1, Offset(d) + c)]
  BY <1>5, <1>6, <1>9, <1>11, <1>14
<1> HIDE DEF g, m
<1>19. /\ h \in Descriptor /\ h.open = g.open /\ h.inode = g.inode /\ h.pos = d.pos + c
       /\ h.size = g.size /\ h.valid = g.valid /\ h.recent = g.recent /\ h.slot = g.slot
  BY <1>3, <1>16 DEF Descriptor
<1> HIDE DEF h
<1>20. CacheOK(h)
  BY <1>16, <1>19 DEF CacheOK, Ordered, Flushable
<1>21. Cached(h, m, i) /\ SameWords(g, m, h, m)
  <2>1. h.pos <= h.size
    BY <1>8, <1>16, <1>19
  <2> QED  BY <1>16, <1>19, <1>20, <2>1, SlotsTidy
<1>22. Readily(h, m)
  <2>1. g.pos <= h.pos
    BY <1>3, <1>7, <1>16, <1>19
  <2> QED  BY <1>16, <1>19, <1>20, <2>1, MovesReady
<1>23. CacheOK(e) /\ SameFile(h, e)
  BY <1>3, <1>16, <1>20, PrefetchSound
<1>24. Cached(e, m, i) /\ SameWords(h, m, e, m)
  BY <1>3, <1>16, <1>20, <1>21, PrefetchTidy
<1>25. Readily(e, m)
  BY <1>3, <1>16, <1>20, <1>22, PrefetchReady
<1>26. e.open /\ e.inode = i /\ e.pos = d.pos + c
  BY <1>2, <1>3, <1>16, <1>19, <1>23 DEF SameFile, d
<1>27. Text(g, m) = Text(d, n)
  BY <1>4, <1>16, SameText
<1>28. Text(e, m) = Text(d, n)
  <2>1. Text(h, m) = Text(g, m)
    BY <1>16, <1>21, SameText
  <2>2. Text(e, m) = Text(h, m)
    BY <1>16, <1>24, SameText
  <2> QED  BY <1>27, <2>1, <2>2
<1> DEFINE data == SubSeq(g.slot[r.s].words, Offset(d) + 1, Offset(d) + c)
<1>29. /\ data = SubSeq(Text(d, n), d.pos + 1, d.pos + c)
       /\ \A k \in DOMAIN data : data[k] \in Own(i)
  <2> DEFINE s == r.s
  <2>1. Here(g) = l /\ Offset(g) = Offset(d) /\ g.pos = d.pos
    BY <1>16 DEF Here, Offset, l
  <2>2. s \in 1 .. g.valid /\ g.slot[s].index = Here(g)
    BY <1>16, <2>1
  <2>3. Offset(g) + c <= ClusterWords
    BY <1>3, <2>1
  <2>4. g.pos + c <= m.size
    BY <1>8, <1>16 DEF Cached
  <2> HIDE DEF s
  <2>5. LET x == SubSeq(g.slot[s].words, Offset(g) + 1, Offset(g) + c)
        IN  /\ x = SubSeq(Text(g, m), g.pos + 1, g.pos + c)
            /\ \A k \in DOMAIN x : x[k] \in Own(i)
    BY <1>3, <1>16, <2>2, <2>3, <2>4, ReadWords
  <2> QED  BY <1>27, <2>1, <2>5 DEF s
<1>30. ret'.data = data /\ ret'.status = Status(c) /\ ret'.missing = 0
  BY <1>18
<1>31. call'.op \in {"none", "read"} /\ (call'.op = "read" => call'.fd = f)
  <2>1. call \in [op : {"none", "read", "write", "destroy"}, fd : Fd, left : Nat,
                  word : AllWords]
    BY DEF IInv, CallOK
  <2>2. call' = NoCall \/ call' = [call EXCEPT !.left = @ - c]
    BY <1>18 DEF Proceed
  <2> QED  BY <1>0, <1>1, <2>1, <2>2 DEF NoCall
<1>32. Delivered'
  <2>1. \A k \in DOMAIN ret'.data : ret'.data[k] \in Own(i)
    BY <1>29, <1>30
  <2>2. fds'[f].inode = i
    BY <1>4, <1>17, <1>26
  <2>3. call'.op = "read" => fds'[call'.fd].inode = i
    BY <1>31, <2>2
  <2> QED  BY <2>1, <2>3 DEF Delivered, Own
<1>33. /\ Tidy' /\ Contents' = Contents
       /\ Opened' = [Opened EXCEPT ![f].pos = e.pos]
       /\ e.pos = fds[f].pos => Opened' = Opened
  <2>1. call'.op # "destroy"
    BY <1>31
  <2>2. fds[f].open /\ fds[f].inode = i /\ Text(e, m) = Text(fds[f], inodes[i])
        /\ Fits(m, Budget(i))
    BY <1>2, <1>3, <1>16, <1>28 DEF d, n, budget
  <2> QED  BY <1>16, <1>17, <1>18, <1>24, <1>25, <1>26, <1>32, <2>1, <2>2, QuietStep
<1>34. /\ Abstract!Advance(c) /\ c \in 1 .. call.left
       /\ call'.op \in {"none", call.op}
       /\ call'.op # "none" => call'.fd = f
  <2>1. Opened' = [Opened EXCEPT ![f].pos = fds[f].pos + c]
    BY <1>26, <1>33 DEF d
  <2>2. c = Chunk(fds[f])
    BY DEF c, d
  <2>3. call.op \in {"read", "write"}
    BY <1>0
  <2> QED  BY <1>1, <1>18, <1>30, <2>1, <2>2, <2>3, Advances
<1>35. /\ Opened[f].inode = i /\ Opened[f].pos = d.pos
       /\ Contents[i] = Text(d, n)
  BY <1>2, <1>3, FileAt DEF d, n
<1>36. ret'.data = SubSeq(Contents[Opened[call.fd].inode], Opened[call.fd].pos + 1,
                          Opened[call.fd].pos + c)
  BY <1>1, <1>29, <1>30, <1>35
<1> HIDE DEF data
<1>37. Abstract!Read
  BY <1>0, <1>30, <1>33, <1>34, <1>36 DEF Abstract!Read
<1> QED  BY <1>33, <1>37

\* What a round of writing leaves is what the abstract one does.
LEMMA OverlayIs ==
  ASSUME NEW g, NEW n \in InodeRecord, g.pos \in Nat, g.pos <= n.size,
         NEW e, NEW m \in InodeRecord, NEW c \in Nat, NEW word,
         Overwritten(g, n, e, m, c, word)
  PROVE  Text(e, m) = Abstract!Overlay(Text(g, n), g.pos, c, word)
<1> DEFINE t == Text(g, n)
           p == g.pos
           z == IF p + c > n.size THEN p + c ELSE n.size
<1>1. Len(t) = n.size /\ n.size \in Nat /\ p \in Nat /\ p <= n.size
  BY TextIs
<1>2. m.size = z
  BY DEF Overwritten, Grown
<1>3. \A k \in 1 .. n.size : t[k] = CachedWord(g, n, k - 1)
  BY TextIs
<1>4. \A b \in 0 .. z - 1 :
        CachedWord(e, m, b) = IF p <= b /\ b < p + c THEN word ELSE CachedWord(g, n, b)
  BY <1>2 DEF Overwritten
<1> HIDE DEF t, p
<1>5. ASSUME NEW k \in 1 .. z
      PROVE  CachedWord(e, m, k - 1) = IF p < k /\ k <= p + c THEN word ELSE t[k]
  <2>1. z \in Nat
    BY <1>1
  <2>2. k - 1 \in 0 .. z - 1 /\ (p <= k - 1 <=> p < k) /\ (k - 1 < p + c <=> k <= p + c)
        /\ ((p < k /\ k <= p + c) \/ k \in 1 .. n.size)
    BY <1>1, <2>1
  <2>3. CachedWord(e, m, k - 1) = IF p < k /\ k <= p + c THEN word ELSE CachedWord(g, n, k - 1)
    BY <1>4, <2>2
  <2>4. k \in 1 .. n.size => t[k] = CachedWord(g, n, k - 1)
    BY <1>3
  <2> QED  BY <2>2, <2>3, <2>4
<1>6. Text(e, m) = [k \in 1 .. z |-> IF p < k /\ k <= p + c THEN word ELSE t[k]]
  BY <1>2, <1>5 DEF Text
<1>7. Abstract!Overlay(t, p, c, word) =
        [k \in 1 .. z |-> IF p < k /\ k <= p + c THEN word ELSE t[k]]
  BY <1>1 DEF Abstract!Overlay
<1> QED  BY <1>6, <1>7 DEF t, p

\* The slot a round of writing fills, and then its flush if the cluster is full.
LEMMA WriteMakes ==
  ASSUME Careful, IInv, NEW g, CacheOK(g), NEW k \in InodeRecord, NEW i \in Inode,
         Cached(g, k, i), Readily(g, k), Fits(k, Budget(i)),
         NEW s \in 1 .. g.valid, g.slot[s].index = Here(g),
         \A t \in 1 .. g.valid : g.slot[t].index = Here(g) => s <= t,
         NEW c \in Nat, Offset(g) + c <= ClusterWords, g.pos + c \in 0 .. MaxWords,
         call.word \in AllWords, call.word \in WordOf[i],
         NEW e, e = Written(g, s, c),
         NEW m, m = IF e.size > g.size THEN [k EXCEPT !.size = e.size] ELSE k,
         NEW q, q \in IF e.pos % ClusterWords = 0 THEN FlushSlot(e, m, Budget(i), s)
                      ELSE {[ok |-> TRUE, d |-> e, n |-> m]}
  PROVE  /\ q.n \in InodeRecord /\ Fits(q.n, Budget(i))
         /\ Cached(q.d, q.n, i) /\ Readily(q.d, q.n)
         /\ q.d.open = g.open /\ q.d.inode = g.inode /\ q.d.pos = g.pos + c
         /\ q.ok \in BOOLEAN
         /\ Text(q.d, q.n) = Abstract!Overlay(Text(g, k), g.pos, c, call.word)
<1>1. /\ CacheOK(e) /\ e.open = g.open /\ e.inode = g.inode
      /\ e.pos = g.pos + c /\ e.valid = g.valid
  BY WrittenSound
<1>2. e.size = Grown(g.size, g.pos, c)
  BY WrittenIs
<1>3. g.pos \in Nat /\ g.size \in Nat /\ g.size = k.size /\ g.pos <= k.size
      /\ e.size \in 0 .. MaxWords
  BY <1>1, HereIs DEF Cached, CacheOK, Descriptor
<1>4. m \in InodeRecord /\ m.blocks = k.blocks
  BY <1>3 DEF InodeRecord
<1>5. m.size = e.size
  <2>1. ~(e.size > g.size) => e.size = g.size
    BY <1>2, <1>3 DEF Grown
  <2>2. e.size > g.size => m.size = e.size
    BY DEF InodeRecord
  <2>3. ~(e.size > g.size) => m.size = k.size
    OBVIOUS
  <2> QED  BY <1>3, <2>1, <2>2, <2>3
<1>6. Cached(e, m, i) /\ Overwritten(g, k, e, m, c, call.word)
  BY <1>4, <1>5, WriteTidy
<1>7. Readily(e, m)
  BY <1>4, WriteReady
<1>8. Text(e, m) = Abstract!Overlay(Text(g, k), g.pos, c, call.word)
  BY <1>3, <1>4, <1>6, OverlayIs
<1>9. Fits(m, Budget(i))
  BY <1>4 DEF Fits, Allocated
<1>10. CASE e.pos % ClusterWords = 0
  <2>1. q \in FlushSlot(e, m, Budget(i), s) /\ s \in 1 .. e.valid
    BY <1>1, <1>10
  <2>2. Flushed(e, m, q.d, q.n, {s}) /\ q.ok \in BOOLEAN
    BY <1>1, <1>4, <2>1, FlushSlotKeeps
  <2>3. {s} \in SUBSET (1 .. e.valid)
    BY <2>1
  <2> DEFINE h == q.d
             b == q.n
  <2>4. Flushed(e, m, h, b, {s})
    BY <2>2
  <2>5. b \in InodeRecord /\ SameFile(e, h)
    BY <2>4 DEF Flushed, Stored
  <2>6. Fits(b, Budget(i))
    BY <2>1, FlushFits DEF FlushSlot, Careful
  <2> HIDE DEF h, b
  <2>7. Cached(h, b, i) /\ SameWords(e, m, h, b)
    BY <1>1, <1>4, <1>6, <2>3, <2>4, FlushTidy
  <2>8. Readily(h, b)
    BY <1>1, <1>4, <1>6, <1>7, <2>3, <2>4, FlushReady
  <2>9. Text(h, b) = Text(e, m)
    BY <1>4, <2>7, SameText
  <2>10. h.open = g.open /\ h.inode = g.inode /\ h.pos = g.pos + c
    BY <1>1, <2>5 DEF SameFile
  <2> QED  BY <1>8, <2>2, <2>5, <2>6, <2>7, <2>8, <2>9, <2>10 DEF h, b
<1>11. CASE e.pos % ClusterWords # 0
  <2>1. q = [ok |-> TRUE, d |-> e, n |-> m]
    BY <1>11
  <2>2. q.ok = TRUE /\ q.d = e /\ q.n = m
    BY <2>1
  <2> QED  BY <1>1, <1>4, <1>6, <1>7, <1>8, <1>9, <2>2
<1> QED  BY <1>10, <1>11

LEMMA WriteFiles ==
  ASSUME Careful, IInv, Tidy, IInv', WriteRound
  PROVE  Tidy' /\ Abstract!Write
<1>0. call.op = "write"
  BY DEF WriteRound
<1>1. PICK f \in Fd : f = call.fd
  BY <1>0, ChunkIs
<1> DEFINE d == fds[f]
<1>2. PICK i \in Inode : i = d.inode
  BY FileOf
<1> DEFINE n == inodes[i]
           l == Here(d)
           c == Chunk(d)
           budget == Budget(i)
<1>3. /\ c \in Nat /\ Offset(d) + c <= ClusterWords
      /\ d.pos + c \in 0 .. MaxWords /\ l \in Logical /\ d.open
  BY <1>0, <1>1, ChunkIs
<1>4. /\ CacheOK(d) /\ d \in Descriptor /\ n \in InodeRecord
      /\ inodes \in [Inode -> InodeRecord] /\ fds \in [Fd -> Descriptor]
      /\ call \in [op : {"none", "read", "write", "destroy"}, fd : Fd, left : Nat,
                   word : AllWords]
      /\ call.word \in WordOf[i]
  BY <1>0, <1>1, <1>2, FileOf DEF IInv, CallOK
<1>5. Cached(d, n, i) /\ Readily(d, n) /\ Fits(n, budget)
  BY <1>2, <1>3, FitsNow DEF Tidy
<1>6. Opened[f].open /\ Opened[f].inode = i /\ Opened[f].pos = d.pos
      /\ Contents[i] = Text(d, n)
  BY <1>2, <1>3, FileAt
<1>7. fds[f].open /\ fds[f].inode = i /\ d = fds[f] /\ n = inodes[i] /\ c = Chunk(fds[f])
      /\ budget = Budget(i) /\ l = Here(d)
  BY <1>2, <1>3
<1>8. \E r \in Load(d, n, budget, l) :
        \/ /\ ~r.ok
           /\ inodes' = [inodes EXCEPT ![i] = r.n]
           /\ fds' = [fds EXCEPT ![f] = r.d]
           /\ call' = NoCall
           /\ ret' = Return("error")
        \/ /\ r.ok
           /\ LET e == Written(r.d, r.s, c)
                  m == IF e.size > d.size THEN [r.n EXCEPT !.size = e.size] ELSE r.n
                  full == e.pos % ClusterWords = 0
              IN  \E q \in IF full THEN FlushSlot(e, m, budget, r.s)
                           ELSE {[ok |-> TRUE, d |-> e, n |-> m]} :
                    /\ inodes' = [inodes EXCEPT ![i] = q.n]
                    /\ fds' = [fds EXCEPT ![f] = q.d]
                    /\ call' = IF q.ok THEN Proceed(c) ELSE NoCall
                    /\ ret' = Return(IF q.ok THEN Status(c) ELSE "error")
  BY <1>1, <1>2, ZenonT(60) DEF WriteRound
<1> HIDE DEF d, n, l, c, budget
<1>9. PICK r \in Load(d, n, budget, l) :
        \/ /\ ~r.ok
           /\ inodes' = [inodes EXCEPT ![i] = r.n]
           /\ fds' = [fds EXCEPT ![f] = r.d]
           /\ call' = NoCall
           /\ ret' = Return("error")
        \/ /\ r.ok
           /\ LET e == Written(r.d, r.s, c)
                  m == IF e.size > d.size THEN [r.n EXCEPT !.size = e.size] ELSE r.n
                  full == e.pos % ClusterWords = 0
              IN  \E q \in IF full THEN FlushSlot(e, m, budget, r.s)
                           ELSE {[ok |-> TRUE, d |-> e, n |-> m]} :
                    /\ inodes' = [inodes EXCEPT ![i] = q.n]
                    /\ fds' = [fds EXCEPT ![f] = q.d]
                    /\ call' = IF q.ok THEN Proceed(c) ELSE NoCall
                    /\ ret' = Return(IF q.ok THEN Status(c) ELSE "error")
  BY <1>8
<1> DEFINE g == r.d
           k == r.n
           s == r.s
<1>10. Loaded(d, n, l, r)
  BY <1>3, <1>4, LoadSound
<1>11. Cached(r.d, r.n, i) /\ SameWords(d, n, r.d, r.n)
  BY <1>3, <1>4, <1>5, LoadTidy DEF Careful
<1>12. /\ Readily(r.d, r.n)
       /\ Fits(n, budget) /\ budget \in Int /\ Begins(d.size, l) => r.ok
  BY <1>4, <1>5, <1>7, LoadReady DEF Careful
<1>13. Fits(r.n, budget)
  BY <1>5, LoadFits DEF Careful
<1>14. /\ g \in Descriptor /\ CacheOK(g) /\ k \in InodeRecord
       /\ g.open = d.open /\ g.inode = d.inode /\ g.pos = d.pos /\ g.size = d.size
       /\ Cached(g, k, i) /\ Readily(g, k) /\ Fits(k, Budget(i)) /\ SameWords(d, n, g, k)
  BY <1>7, <1>10, <1>11, <1>12, <1>13 DEF Loaded, SameFile, CacheOK
<1>15. r.ok => /\ s \in 1 .. g.valid /\ g.slot[s].index = l
               /\ \A t \in 1 .. g.valid : g.slot[t].index = l => s <= t
  BY <1>10 DEF Loaded
<1>16. Text(g, k) = Text(d, n)
  BY <1>4, <1>14, SameText
<1>17. CASE /\ ~r.ok
            /\ inodes' = [inodes EXCEPT ![i] = r.n]
            /\ fds' = [fds EXCEPT ![f] = r.d]
            /\ call' = NoCall
            /\ ret' = Return("error")
  <2>1. fds' = [fds EXCEPT ![f] = g] /\ inodes' = [inodes EXCEPT ![i] = k]
    BY <1>17
  <2>2. /\ call'.op = "none" /\ ret'.status = "error" /\ ret'.data = << >> /\ ret'.missing = 0
    BY <1>17 DEF NoCall, Return
  <2>3. Delivered' /\ call'.op # "destroy"
    BY <2>2, Undelivered
  <2>4. g.open /\ g.inode = i /\ g.pos = fds[f].pos /\ Text(g, k) = Text(fds[f], inodes[i])
    BY <1>7, <1>14, <1>16
  <2> HIDE DEF g, k
  <2>5. /\ Tidy' /\ Contents' = Contents
        /\ Opened' = [Opened EXCEPT ![f].pos = g.pos]
        /\ g.pos = fds[f].pos => Opened' = Opened
    BY <1>7, <1>14, <2>1, <2>3, <2>4, QuietStep
  <2>6. Abstract!GiveUp /\ UNCHANGED <<Contents, Opened>>
    BY <2>2, <2>4, <2>5 DEF Abstract!GiveUp, Abstract!Returned
  <2>7. Abstract!Write
    BY <1>0, <2>6 DEF Abstract!Write
  <2> QED  BY <2>5, <2>7
<1> DEFINE e == Written(g, s, c)
           m == IF e.size > d.size THEN [k EXCEPT !.size = e.size] ELSE k
<1>18. CASE /\ r.ok
            /\ \E q \in IF e.pos % ClusterWords = 0 THEN FlushSlot(e, m, budget, s)
                        ELSE {[ok |-> TRUE, d |-> e, n |-> m]} :
                 /\ inodes' = [inodes EXCEPT ![i] = q.n]
                 /\ fds' = [fds EXCEPT ![f] = q.d]
                 /\ call' = IF q.ok THEN Proceed(c) ELSE NoCall
                 /\ ret' = Return(IF q.ok THEN Status(c) ELSE "error")
  <2>1. PICK q \in IF e.pos % ClusterWords = 0 THEN FlushSlot(e, m, budget, s)
                   ELSE {[ok |-> TRUE, d |-> e, n |-> m]} :
          /\ inodes' = [inodes EXCEPT ![i] = q.n]
          /\ fds' = [fds EXCEPT ![f] = q.d]
          /\ call' = IF q.ok THEN Proceed(c) ELSE NoCall
          /\ ret' = Return(IF q.ok THEN Status(c) ELSE "error")
    BY <1>18
  <2>2. s \in 1 .. g.valid /\ g.slot[s].index = l
        /\ \A t \in 1 .. g.valid : g.slot[t].index = l => s <= t
    BY <1>15, <1>18
  <2>3. e = Written(g, s, c) /\ m = IF e.size > d.size THEN [k EXCEPT !.size = e.size] ELSE k
    OBVIOUS
  <2> HIDE DEF g, k, s, e, m
  <2>4. Here(g) = l /\ Offset(g) = Offset(d)
    BY <1>7, <1>14 DEF Here, Offset
  <2>5. m = IF e.size > g.size THEN [k EXCEPT !.size = e.size] ELSE k
    BY <1>14, <2>3
  <2>6. q \in IF e.pos % ClusterWords = 0 THEN FlushSlot(e, m, Budget(i), s)
              ELSE {[ok |-> TRUE, d |-> e, n |-> m]}
    BY <1>7, <2>1
  <2>7. /\ s \in 1 .. g.valid /\ g.slot[s].index = Here(g)
        /\ \A t \in 1 .. g.valid : g.slot[t].index = Here(g) => s <= t
        /\ Offset(g) + c <= ClusterWords /\ g.pos + c \in 0 .. MaxWords
        /\ call.word \in AllWords /\ call.word \in WordOf[i] /\ c \in Nat
    BY <1>3, <1>4, <1>14, <2>2, <2>4
  <2>8. /\ q.n \in InodeRecord /\ Fits(q.n, Budget(i))
        /\ Cached(q.d, q.n, i) /\ Readily(q.d, q.n)
        /\ q.d.open = g.open /\ q.d.inode = g.inode /\ q.d.pos = g.pos + c
        /\ q.ok \in BOOLEAN
        /\ Text(q.d, q.n) = Abstract!Overlay(Text(g, k), g.pos, c, call.word)
    BY <1>14, <2>3, <2>5, <2>6, <2>7, WriteMakes
  <2> DEFINE h == q.d
             b == q.n
             new == Abstract!Overlay(Contents[i], Opened[f].pos, c, call.word)
  <2>9. /\ h.open /\ h.inode = i /\ h.pos = fds[f].pos + c
        /\ b \in InodeRecord /\ Fits(b, Budget(i)) /\ Cached(h, b, i) /\ Readily(h, b)
        /\ Text(h, b) = new
    BY <1>3, <1>6, <1>7, <1>14, <1>16, <2>8
  <2>10. fds' = [fds EXCEPT ![f] = h] /\ inodes' = [inodes EXCEPT ![i] = b]
    BY <2>1
  <2> HIDE DEF h, b, new
  <2>11. ret'.data = << >> /\ ret'.missing = 0
    BY <2>1 DEF Return
  <2>12. call'.op \in {"none", "write"}
    <3>1. call' = NoCall \/ call' = [call EXCEPT !.left = @ - c]
      BY <2>1 DEF Proceed
    <3> QED  BY <1>0, <1>4, <3>1 DEF NoCall
  <2>13. Delivered' /\ call'.op # "destroy"
    BY <2>11, <2>12, Undelivered
  <2>14. /\ IF fds[f].open THEN fds[f].inode = i ELSE OpenOn(i) = {}
         /\ h.open => h.inode = i /\ Cached(h, b, i) /\ Readily(h, b)
         /\ ~h.open => OnDisk(b, i) /\ Complete(b)
         /\ call'.op = "destroy" => call.op = "destroy" /\ \A x \in Slot : ~h.slot[x].dirty
         /\ b \in InodeRecord /\ Fits(b, Budget(i)) /\ Delivered'
    BY <1>7, <2>9, <2>13
  <2>15. /\ Tidy'
         /\ \A j \in Inode : j # i => Content(j)' = Content(j)
         /\ h.open => Content(i)' = Text(h, b)
         /\ ~h.open => Content(i)' = IF b.used THEN Text(FreshFd, b) ELSE Absent
    BY <2>10, <2>14, TidyStep
  <2>16. Contents' = [Contents EXCEPT ![i] = new]
    <3>1. Content(i)' = new
      BY <2>9, <2>15
    <3> QED  BY <2>15, <3>1, ContentsStep
  <2>17. Opened' = [Opened EXCEPT ![f].pos = fds[f].pos + c]
    <3>1. h.open /\ fds[f].open /\ h.inode = fds[f].inode
      BY <1>7, <2>9
    <3>2. Opened' = [Opened EXCEPT ![f].pos = h.pos]
      BY <2>10, <3>1, OpenedStep
    <3> QED  BY <2>9, <3>2
  <2>18. c \in 1 .. call.left
    BY <1>0, <1>1, <1>7, ChunkIs
  <2>19. Contents' = [Contents EXCEPT ![Opened[call.fd].inode] =
                        Abstract!Overlay(@, Opened[call.fd].pos, c, call.word)]
    BY <1>1, <1>6, <2>16 DEF new
  <2>20. CASE q.ok
    <3>1. call' = Proceed(c) /\ ret'.status = Status(c)
      BY <2>1, <2>20 DEF Return
    <3>2. call.op \in {"read", "write"}
      BY <1>0
    <3>3. Abstract!Advance(c)
      BY <1>1, <1>7, <2>17, <3>1, <3>2, Advances
    <3>4. Abstract!Write
      BY <1>0, <2>11, <2>18, <2>19, <3>3 DEF Abstract!Write
    <3> QED  BY <2>15, <3>4
  <2>21. CASE ~q.ok
    <3>1. call' = NoCall /\ ret' = Return("error")
      BY <2>1, <2>21
    <3>2. Abstract!GiveUp
      BY <3>1 DEF Abstract!GiveUp, Abstract!Returned, NoCall, Return
    <3>3. Opened' = [Opened EXCEPT ![call.fd].pos = @ + c]
      <4>1. Opened[f].pos = fds[f].pos
        BY <1>6, <1>7
      <4> QED  BY <1>1, <2>17, <4>1
    <3>4. Abstract!Write
      BY <1>0, <2>18, <2>19, <3>2, <3>3 DEF Abstract!Write
    <3> QED  BY <2>15, <3>4
  <2> QED  BY <2>20, <2>21
<1> QED  BY <1>9, <1>17, <1>18

LEMMA DestroyFiles ==
  ASSUME Careful, IInv, Tidy, IInv', DestroyRound
  PROVE  Tidy' /\ Abstract!Destroy
<1> DEFINE opened == {h \in Fd : fds[h].open}
<1>1. call.op = "destroy" /\ \A h \in Fd, s \in Slot : ~fds[h].slot[s].dirty
  BY DEF DestroyRound, Tidy
<1>2. PICK f \in Fd : f = First(opened) /\ fds[f].open
  <2>0. \E g \in Fd : fds[g].open
    BY <1>1 DEF IInv, CallOK
  <2>1. opened \in SUBSET Nat /\ opened # {}
    BY <2>0, Sizes DEF Fd
  <2> HIDE DEF opened
  <2>2. First(opened) \in opened
    BY <2>1, FirstIs
  <2> QED  BY <2>2 DEF opened
<1> DEFINE d == fds[f]
<1>3. PICK i \in Inode : i = d.inode
  BY FileOf
<1> DEFINE n == inodes[i]
<1>4. /\ \E r \in FlushAll(d, n, Budget(i)) :
           inodes' = [inodes EXCEPT ![i] =
                        IF r.ok THEN [r.n EXCEPT !.size = d.size] ELSE r.n]
      /\ \/ /\ opened = {f}
            /\ fds' = [g \in Fd |-> FreshFd]
            /\ call' = NoCall
            /\ ret' = Return("ok")
         \/ /\ opened # {f}
            /\ fds' = [fds EXCEPT ![f] = FreshFd]
            /\ UNCHANGED <<call, ret>>
  BY <1>2, <1>3 DEF DestroyRound
<1>5. PICK r \in FlushAll(d, n, Budget(i)) :
        inodes' = [inodes EXCEPT ![i] =
                     IF r.ok THEN [r.n EXCEPT !.size = d.size] ELSE r.n]
  BY <1>4
<1>6. /\ CacheOK(d) /\ n \in InodeRecord /\ n.used /\ d.valid \in 0 .. CacheClusters
      /\ 1 .. d.valid \subseteq Slot
      /\ inodes \in [Inode -> InodeRecord] /\ fds \in [Fd -> Descriptor]
  BY <1>2, <1>3, FileOf, HereIs DEF IInv
<1>7. Cached(d, n, i) /\ Readily(d, n)
  BY <1>2, <1>3 DEF Tidy
<1>8. /\ Cached(r.d, r.n, i) /\ Readily(r.d, r.n) /\ SameWords(d, n, r.d, r.n)
      /\ CacheOK(r.d) /\ SameFile(d, r.d) /\ r.n \in InodeRecord /\ r.n.used = n.used
      /\ Fits(r.n, Budget(i))
      /\ r.ok \in BOOLEAN
      /\ r.ok => \A s \in Slot : ~r.d.slot[s].dirty
  BY <1>6, <1>7, FlushAllTidy DEF Careful
<1>9. r.ok
  <2>1. 1 \in Slot /\ d.valid \in 1 - 1 .. d.valid
    BY <1>6, Sizes DEF Slot
  <2>2. r \in Flush(d, n, Budget(i), 1, d.valid)
    BY DEF FlushAll
  <2> HIDE DEF d, n
  <2>3. r.ok \/ \E s \in 1 .. d.valid : d.slot[s].dirty
    BY <1>6, <2>1, <2>2, FlushKeeps
  <2> QED  BY <1>1, <1>6, <2>3 DEF d
<1>10. [r.n EXCEPT !.size = d.size] = r.n
  <2>1. r.n.size = d.size
    BY <1>8 DEF Cached, SameFile
  <2> QED  BY <1>8, <2>1 DEF InodeRecord
<1> DEFINE m == r.n
           e == FreshFd
<1>11. inodes' = [inodes EXCEPT ![i] = m]
  BY <1>5, <1>9, <1>10
<1>12. OnDisk(m, i) /\ Complete(m) /\ m \in InodeRecord /\ Fits(m, Budget(i))
  BY <1>8, <1>9, Dropped
<1>13. e.open = FALSE /\ \A s \in Slot : ~e.slot[s].dirty
  BY Fresh
<1>14. \A g \in Fd : fds[g].open /\ fds[g].inode = i => g = f
  BY <1>2, <1>3 DEF Tidy, OpenedOnce
<1> HIDE DEF m
<1>15. CASE /\ opened # {f}
            /\ fds' = [fds EXCEPT ![f] = FreshFd]
            /\ UNCHANGED <<call, ret>>
  <2>1. fds' = [fds EXCEPT ![f] = e] /\ call' = call
    BY <1>15
  <2> HIDE DEF e
  <2>2. Delivered'
    BY <1>1, <2>1 DEF Delivered
  <2>3. /\ IF fds[f].open THEN fds[f].inode = i ELSE OpenOn(i) = {}
        /\ e.open => e.inode = i /\ Cached(e, m, i) /\ Readily(e, m)
        /\ ~e.open => OnDisk(m, i) /\ Complete(m)
        /\ call'.op = "destroy" => call.op = "destroy" /\ \A s \in Slot : ~e.slot[s].dirty
        /\ m \in InodeRecord /\ Fits(m, Budget(i)) /\ Delivered'
    BY <1>1, <1>2, <1>3, <1>12, <1>13, <2>2
  <2>4. /\ Tidy'
        /\ \A j \in Inode : j # i => Content(j)' = Content(j)
        /\ e.open => Content(i)' = Text(e, m)
        /\ ~e.open => Content(i)' = IF m.used THEN Text(FreshFd, m) ELSE Absent
    BY <1>11, <2>1, <2>3, TidyStep
  <2>5. ~Opened'[f].open /\ \A g \in Fd \ {f} : Opened'[g] = Opened[g]
    BY <1>13, <2>1, OpenedStep
  <2>6. Opened[f].open /\ Opened[f].inode = i
    BY <1>2, <1>3, OpenedAs
  <2>7. \A j \in Inode : j # i => Contents'[j] = Contents[j]
    BY <2>4, ContentsAre
  <2>8. Abstract!Destroy
    BY <1>1, <2>1, <2>5, <2>6, <2>7 DEF Abstract!Destroy, Abstract!OthersKept
  <2> QED  BY <2>4, <2>8
<1>16. CASE /\ opened = {f}
            /\ fds' = [g \in Fd |-> FreshFd]
            /\ call' = NoCall
            /\ ret' = Return("ok")
  <2>1. \A g \in Fd : fds'[g].open = FALSE
    BY <1>13, <1>16
  <2>2. \A g \in Fd : fds[g].open => g = f
    BY <1>16
  <2>3. call'.op = "none" /\ ret'.data = << >>
    BY <1>16 DEF NoCall, Return
  <2>4. Delivered'
    BY <2>3, Undelivered
  <2>5. /\ \A g \in Fd : fds[g].open /\ fds[g].inode # i => fds'[g] = fds[g]
        /\ \A g \in Fd : fds'[g].open /\ fds'[g].inode # i => fds'[g] = fds[g]
        /\ \A g, h \in Fd :
             fds'[g].open /\ fds'[g].inode = i /\ fds'[h].open /\ fds'[h].inode = i
               => g = h
        /\ \A g \in Fd : fds'[g].open /\ fds'[g].inode = i =>
                           Cached(fds'[g], m, i) /\ Readily(fds'[g], m)
        /\ (\A g \in Fd : ~(fds'[g].open /\ fds'[g].inode = i)) =>
             OnDisk(m, i) /\ Complete(m)
        /\ call'.op = "destroy" =>
             call.op = "destroy" /\ \A g \in Fd, s \in Slot : ~fds'[g].slot[s].dirty
    BY <1>3, <1>12, <2>1, <2>2, <2>3
  <2>6. /\ Tidy'
        /\ \A j \in Inode : j # i => Content(j)' = Content(j)
    BY <1>11, <1>12, <2>4, <2>5, TidyFile
  <2>7. ASSUME NEW g \in Fd \ {f} PROVE Opened'[g] = Opened[g]
    <3>1. ~fds[g].open /\ ~fds'[g].open
      BY <2>1, <2>2
    <3> QED  BY <3>1, OpenedIs, OpenedThen
  <2>8. ~Opened'[f].open
    BY <2>1, OpenedThen
  <2>9. Opened[f].open /\ Opened[f].inode = i
    BY <1>2, <1>3, OpenedAs
  <2>10. \A j \in Inode : j # i => Contents'[j] = Contents[j]
    BY <2>6, ContentsAre
  <2>11. Abstract!Destroy
    BY <1>1, <2>3, <2>7, <2>8, <2>9, <2>10 DEF Abstract!Destroy, Abstract!OthersKept
  <2> QED  BY <2>6, <2>11
<1> QED  BY <1>4, <1>15, <1>16

------------------------------------------------------------------------------
(***************************************************************************)
(* The theorems.                                                           *)
(***************************************************************************)
LEMMA TidyInitially == Init => Tidy /\ Abstract!Init
<1> SUFFICES ASSUME Init PROVE Tidy /\ Abstract!Init
  OBVIOUS
<1>0. IInv
  BY Initially
<1>1. /\ inodes = [i \in Inode |-> NoFile] /\ fds = [f \in Fd |-> FreshFd]
      /\ call = NoCall /\ ret = Return("ok")
  BY DEF Init
<1>2. \A f \in Fd : fds[f].open = FALSE /\ \A s \in Slot : ~fds[f].slot[s].dirty
  BY <1>1, Fresh
<1>3. call.op = "none" /\ ret.status = "ok" /\ ret.data = << >> /\ ret.missing = 0
  BY <1>1 DEF NoCall, Return
<1>4. \A i \in Inode : inodes[i].used = FALSE /\ inodes[i] = NoFile
  BY <1>1, NoFileType
<1>5. \A i \in Inode : OnDisk(NoFile, i) /\ Complete(NoFile) /\ Allocated(NoFile) = {}
  <2>1. NoFile \in InodeRecord /\ NoFile.size = 0
    BY NoFileType DEF NoFile
  <2> QED  BY <2>1, NoFileTidy
<1>6. WithinCapacity
  <2>1. \A i \in Inode : Allocated(inodes[i]) = {}
    BY <1>4, <1>5
  <2>2. Taken(inodes) = {}
    BY <2>1 DEF Taken
  <2>3. Cardinality(Taken(inodes)) = 0
    BY <2>2, FS_EmptySet
  <2> QED  BY <2>3, Sizes DEF WithinCapacity
<1>7. Tidy
  <2>1. OpenedOnce /\ Delivered
    BY <1>2, <1>3 DEF OpenedOnce, Delivered
  <2>2. \A i \in Inode : OnDisk(inodes[i], i) /\ Complete(inodes[i])
    BY <1>4, <1>5
  <2> QED  BY <1>2, <1>3, <1>6, <2>1, <2>2 DEF Tidy
<1>8. Contents = [i \in Inode |-> Absent]
  <2>1. \A i \in Inode : Content(i) = Absent
    BY <1>4 DEF Content
  <2> QED  BY <2>1 DEF Contents
<1>9. \A f \in Fd : ~Opened[f].open
  BY <1>2, OpenedIs
<1>10. ret = [status |-> "ok", data |-> << >>, missing |-> 0]
  BY <1>1 DEF Return
<1> QED  BY <1>3, <1>7, <1>8, <1>9, <1>10 DEF Abstract!Init

LEMMA TidyStill ==
  ASSUME IInv, Tidy, IInv', UNCHANGED vars
  PROVE  Tidy' /\ UNCHANGED Abstract!vars
<1>1. inodes' = inodes /\ fds' = fds /\ call' = call /\ ret' = ret
  BY DEF vars
<1>2. Delivered'
  BY <1>1 DEF Tidy, Delivered, Own
<1>3. call'.op = "destroy" => \A f \in Fd, s \in Slot : ~fds[f].slot[s].dirty
  BY <1>1 DEF Tidy
<1>4. Tidy' /\ Contents' = Contents /\ Opened' = Opened
  BY <1>1, <1>2, <1>3, Still
<1> QED  BY <1>1, <1>4 DEF Abstract!vars

LEMMA FilesStep ==
  ASSUME Careful, IInv, Tidy, [Next]_vars
  PROVE  Tidy' /\ [Abstract!Next]_(Abstract!vars)
<1>0. IInv'
  BY StepKeeps
<1>1. CASE UNCHANGED vars
  BY <1>0, <1>1, TidyStill
<1>2. CASE ReadRound
  BY <1>0, <1>2, ReadFiles DEF Abstract!Next
<1>3. CASE WriteRound
  BY <1>0, <1>3, WriteFiles DEF Abstract!Next
<1>4. CASE DestroyRound
  BY <1>0, <1>4, DestroyFiles DEF Abstract!Next
<1>5. CASE StartDestroy
  BY <1>0, <1>5, StartDestroyFiles DEF Abstract!Next
<1>6. ASSUME NEW i \in Inode, RemoveFile(i)
      PROVE  Tidy' /\ Abstract!Next
  BY <1>0, <1>6, RemoveFileFiles DEF Abstract!Next
<1>7. ASSUME NEW i \in Inode, NEW flags \in OpenFlags, Open(i, flags)
      PROVE  Tidy' /\ Abstract!Next
  BY <1>0, <1>7, OpenFiles DEF Abstract!Next
<1>8. ASSUME NEW f \in Fd, Close(f)
      PROVE  Tidy' /\ Abstract!Next
  BY <1>0, <1>8, CloseFiles DEF Abstract!Next
<1>9. ASSUME NEW f \in Fd, NEW p \in 0 .. MaxWords, Seek(f, p)
      PROVE  Tidy' /\ Abstract!Next
  BY <1>0, <1>9, SeekFiles DEF Abstract!Next
<1>10. ASSUME NEW f \in Fd, NEW len \in Length, StartRead(f, len)
       PROVE  Tidy' /\ Abstract!Next
  BY <1>0, <1>10, StartReadFiles DEF Abstract!Next
<1>11. ASSUME NEW f \in Fd, NEW len \in Length, NEW w, StartWrite(f, len, w)
       PROVE  Tidy' /\ Abstract!Next
  BY <1>0, <1>11, StartWriteFiles DEF Abstract!Next
<1> QED
  BY <1>1, <1>2, <1>3, <1>4, <1>5, <1>6, <1>7, <1>8, <1>9, <1>10, <1>11 DEF Next, Round

LEMMA NothingForeign == IInv /\ Tidy => NoForeignWords
<1> SUFFICES ASSUME IInv, Tidy PROVE NoForeignWords
  OBVIOUS
<1>1. ASSUME NEW i \in Inode PROVE OnDisk(inodes[i], i)
  <2>1. CASE OpenOn(i) = {}
    BY <2>1 DEF Tidy
  <2>2. CASE OpenOn(i) # {}
    <3>1. PICK f \in Fd : fds[f].open /\ fds[f].inode = i
      BY <2>2 DEF OpenOn
    <3> QED  BY <3>1 DEF Tidy, Cached
  <2> QED  BY <2>1, <2>2
<1>2. \A f \in Fd : fds[f].open =>
        \A o \in DOMAIN ret.data : call.op = "read" /\ call.fd = f =>
          ret.data[o] \in {0} \cup WordOf[fds[f].inode]
  BY DEF Tidy, Delivered, Own
<1>3. ASSUME NEW f \in Fd, fds[f].open
      PROVE  \A s \in 1 .. fds[f].valid, o \in At :
               fds[f].slot[s].words[o] \in {0} \cup WordOf[fds[f].inode]
  BY <1>3 DEF Tidy, Cached, Own
<1> QED  BY <1>1, <1>2, <1>3 DEF NoForeignWords, OnDisk, Own

\* Programs that open a file once and seek inside it, on a disk that works but
\* may be full, see in a file, on the disk and in the cache, only words that
\* were written to it, and zeros: an eviction never writes a cluster of one
\* file into another, and a load never shows what a slot held before.
THEOREM OnlyOwnWords ==
  ASSUME Careful
  PROVE  Spec => []NoForeignWords
<1>1. Init => IInv /\ Tidy
  BY Initially, TidyInitially
<1>2. IInv /\ Tidy /\ [Next]_vars => IInv' /\ Tidy'
  BY StepKeeps, FilesStep
<1>3. IInv /\ Tidy => NoForeignWords
  BY NothingForeign
<1> QED  BY <1>1, <1>2, <1>3, PTL DEF Spec

\* For such programs, any number of files, descriptors and cached clusters, and
\* any capacity of the disk, the open files of src/vfs/io.c are sequences of
\* words with a position: a read delivers the words at the position, all that
\* were asked for and are there, also when the disk is full and other words are
\* stuck in the cache; a write replaces or appends just its words.
THEOREM FilesAreWords ==
  ASSUME Careful
  PROVE  Spec => ImplementsWordFiles
<1>1. Init => IInv /\ Tidy /\ Abstract!Init
  BY Initially, TidyInitially
<1>2. IInv /\ Tidy /\ [Next]_vars
        => IInv' /\ Tidy' /\ [Abstract!Next]_(Abstract!vars)
  BY StepKeeps, FilesStep
<1> QED  BY <1>1, <1>2, PTL DEF Spec, ImplementsWordFiles, Abstract!Spec
==========================================================================
