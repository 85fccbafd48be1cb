--------------------------- MODULE AllocProofs ---------------------------
(***************************************************************************)
(* Proofs about Alloc, and that it implements FileStore, for every disk    *)
(* size, pointer-block size, number of inodes and set of requests.         *)
(***************************************************************************)
EXTENDS AllocFiles, TLAPS

--------------------------------------------------------------------------
(***************************************************************************)
(* Where a logical cluster hangs.                                          *)
(***************************************************************************)
LEMMA HeightType ==
  ASSUME NEW l
  PROVE  HeightOf(l) \in Height
BY DEF HeightOf, Height

LEMMA SpanType == \A h \in Height : Span(h) \in Nat \ {0}
<1>1. PointersPerCluster * PointersPerCluster \in Nat \ {0}
  BY SizesAssumption
<1>. QED  BY <1>1, SizesAssumption DEF Span

LEMMA BeforeType == \A h \in Height : Before(h) \in Nat
<1>1. PointersPerCluster * PointersPerCluster \in Nat
  BY SizesAssumption
<1>. QED  BY <1>1, SizesAssumption DEF Before, Height

LEMMA SlotType ==
  ASSUME NEW l \in Nat, NEW h \in Height
  PROVE  SlotOf(l, h) \in Slot
<1>1. Before(HeightOf(l)) \in Nat
  BY BeforeType, HeightType
<1>2. Span(h) \in Nat \ {0}
  BY SpanType
<1>. DEFINE q == (l - Before(HeightOf(l))) \div Span(h)
<1>3. q \in Int
  BY <1>1, <1>2
<1>. HIDE DEF q
<1>4. q % PointersPerCluster \in 0 .. PointersPerCluster - 1
  BY <1>3, SizesAssumption
<1>. QED  BY <1>4 DEF SlotOf, Slot, q

\* The inode field that holds the tree of a logical cluster has its height.
LEMMA RootFits ==
  ASSUME NEW l \in Nat
  PROVE  /\ RootOf(l) \in Root
         /\ RootHeight(RootOf(l)) = HeightOf(l)
<1>1. CASE HeightOf(l) = 0
  <2>1. l < DirectPointers
    BY <1>1, SizesAssumption, PointersPerCluster * PointersPerCluster \in Nat
    DEF HeightOf
  <2>. QED  BY <1>1, <2>1, SizesAssumption DEF RootOf, Root, RootHeight
<1>2. CASE HeightOf(l) # 0
  <2>1. HeightOf(l) \in 1 .. 3
    BY <1>2, HeightType DEF Height
  <2>. QED  BY <1>2, <2>1, SizesAssumption DEF RootOf, Root, RootHeight
<1>. QED  BY <1>1, <1>2

LEMMA DivType == \A n \in Nat : n \div PointersPerCluster \in Nat
<1>. SUFFICES ASSUME NEW n \in Nat
             PROVE  n \div PointersPerCluster \in Nat
  OBVIOUS
<1>1. PointersPerCluster \in Nat \ {0}
  BY SizesAssumption
<1>2. \A p \in Nat \ {0} : n \div p \in Int /\ 0 <= n \div p
  OBVIOUS
<1>. QED  BY <1>1, <1>2

LEMMA LogicalType ==
  ASSUME TypeOK
  PROVE  LogicalIndex \in Nat
<1>1. call.off + call.done \in Nat
  BY DEF TypeOK
<1>. QED  BY <1>1, DivType DEF LogicalIndex

LEMMA ChunkType ==
  ASSUME TypeOK, Walking
  PROVE  Chunk \in Nat \ {0}
<1>1. Offset \in 0 .. PointersPerCluster - 1
  BY SizesAssumption DEF TypeOK, Offset
<1>. QED  BY <1>1, SizesAssumption DEF TypeOK, Walking, Chunk

--------------------------------------------------------------------------
(***************************************************************************)
(* Facts about a state that satisfies the invariant.                       *)
(***************************************************************************)
\* The pointer under the cursor.
LEMMA PointerFits ==
  ASSUME IInv, Walking
  PROVE  /\ Pointer \in Cluster
         /\ Pointer # 0 =>
              Pointer \in used \ Reserved /\ level[Pointer] = at.height
<1>1. LogicalIndex \in Nat
  BY LogicalType DEF IInv
<1>2. call.inode \in Inode
  BY SizesAssumption DEF IInv, TypeOK, Walking, Idle, NoInode, Inode
<1>3. CASE at.block = 0
  <2>1. RootOf(LogicalIndex) \in Root
        /\ RootHeight(RootOf(LogicalIndex)) = at.height
    BY <1>1, <1>3, RootFits DEF IInv, CursorSound
  <2>2. Pointer = LiveRoot(call.inode)[RootOf(LogicalIndex)]
    BY <1>3 DEF Pointer, LiveRoot
  <2>3. Pointer \in Cluster
    BY <1>3, <2>1 DEF Pointer, IInv, TypeOK
  <2>. QED  BY <1>2, <2>1, <2>2, <2>3 DEF IInv, PointersSound
<1>4. CASE at.block # 0
  <2>1. SlotOf(LogicalIndex, at.height) \in Slot
    BY <1>1, SlotType DEF IInv, TypeOK
  <2>2. /\ at.block \in PointerBlocks
        /\ level[at.block] = at.height + 1
        /\ at.height \in Nat
    BY <1>4 DEF IInv, CursorSound, TypeOK, Height
  <2>3. Pointer = disk[at.block][SlotOf(LogicalIndex, at.height)]
    BY <1>4 DEF Pointer
  <2>4. Pointer # 0 =>
          Pointer \in used \ Reserved /\ level[Pointer] = at.height
    BY <2>1, <2>2, <2>3 DEF IInv, PointersSound
  <2>5. 0 \in Cluster
    BY SizesAssumption DEF Cluster
  <2>. QED  BY <2>4, <2>5 DEF IInv, TypeOK
<1>. QED  BY <1>3, <1>4

\* A free cluster is no metadata, so its number is not the null pointer, and
\* no live pointer leads to it.
LEMMA FreeFits ==
  ASSUME IInv, NEW c \in Free
  PROVE  /\ c \in Cluster /\ c \notin used /\ c \notin Reserved /\ c # 0
         /\ c \notin PointerBlocks
         /\ c # at.block
         /\ \A i \in Inode, r \in Root : LiveRoot(i)[r] # c
         /\ \A b \in PointerBlocks, s \in Slot : disk[b][s] # c
<1>1. /\ c \in Cluster /\ c \notin used /\ c \notin Reserved
      /\ c \notin PointerBlocks
  BY DEF Free, IInv, PointersSound, PointerBlocks
<1>2. 0 \in Reserved
  BY SizesAssumption DEF Reserved
<1>3. c # 0
  BY <1>1, <1>2
<1>. QED
  BY <1>1, <1>3 DEF IInv, PointersSound, CursorSound, PointerBlocks

--------------------------------------------------------------------------
(***************************************************************************)
(* One lemma per action: it preserves the invariant.                       *)
(***************************************************************************)
\* Marking a free cluster used makes it a pointer block if it was taken for
\* one, and changes the standing of no other cluster.
LEMMA MarkUsed ==
  ASSUME IInv, NEW c \in Free, Walking,
         used' = used \cup {c},
         level' = [level EXCEPT ![c] = at.height]
  PROVE  /\ used' \subseteq Cluster
         /\ level' \in [Cluster -> Height]
         /\ Reserved \subseteq used'
         /\ \A d \in used : d \in used' /\ level'[d] = level[d]
         /\ c \in used' \ Reserved /\ level'[c] = at.height
         /\ \A b \in PointerBlocks' : b \in PointerBlocks \/ b = c
         /\ \A b \in PointerBlocks : b \in PointerBlocks'
<1>1. /\ c \in Cluster /\ c \notin used /\ c \notin Reserved
  BY FreeFits
<1>2. at.height \in Height
  BY DEF IInv, TypeOK
<1>3. \A d \in used : d \in used' /\ level'[d] = level[d]
  BY <1>1 DEF IInv, TypeOK
<1>4. level'[c] = at.height
  BY <1>1 DEF IInv, TypeOK
<1>. QED
  BY <1>1, <1>2, <1>3, <1>4
  DEF IInv, TypeOK, PointersSound, PointerBlocks, Reserved

LEMMA AllocateRootStep ==
  ASSUME IInv, AllocateRoot
  PROVE  IInv'
<1>. DEFINE R == RootOf(LogicalIndex)
<1>1. PICK c \in Free :
        /\ used' = used \cup {c}
        /\ disk' = [disk EXCEPT ![c] = Zeros]
        /\ level' = [level EXCEPT ![c] = at.height]
        /\ call' = [call EXCEPT !.root[R] = c]
  BY DEF AllocateRoot
<1>2. /\ Walking /\ at.block = 0 /\ Pointer = 0
      /\ UNCHANGED <<index, at, ret>>
  BY DEF AllocateRoot
<1>3. LogicalIndex \in Nat
  BY LogicalType DEF IInv
<1>4. R \in Root /\ RootHeight(R) = at.height
  BY <1>2, <1>3, RootFits DEF IInv, CursorSound
<1>5. call.inode \in Inode /\ Pointer = call.root[R]
  BY <1>2, SizesAssumption
  DEF IInv, TypeOK, Walking, Idle, NoInode, Inode, Pointer
<1>6. /\ c \in Cluster /\ c \notin used /\ c \notin Reserved /\ c # 0
      /\ \A i \in Inode, r \in Root : LiveRoot(i)[r] # c
      /\ \A b \in PointerBlocks, s \in Slot : disk[b][s] # c
  BY FreeFits
<1>7. /\ used' \subseteq Cluster
      /\ level' \in [Cluster -> Height]
      /\ Reserved \subseteq used'
      /\ \A d \in used : d \in used' /\ level'[d] = level[d]
      /\ c \in used' \ Reserved /\ level'[c] = at.height
      /\ \A b \in PointerBlocks' : b \in PointerBlocks \/ b = c
      /\ \A b \in PointerBlocks : b \in PointerBlocks'
  BY <1>1, <1>2, MarkUsed
<1>. HIDE DEF R
<1>8. /\ call' \in [inode : 0 .. InodeCount, off : Nat, len : Nat,
                    word : Word \cup {0}, done : Nat, root : [Root -> Cluster]]
      /\ call'.inode = call.inode /\ call'.off = call.off
      /\ call'.len = call.len /\ call'.done = call.done
      /\ call'.root = [call.root EXCEPT ![R] = c]
  BY <1>1, <1>4, <1>6 DEF IInv, TypeOK
<1>9. TypeOK'
  <2>1. disk' \in [Cluster -> [Slot -> Nat]]
    BY <1>1, <1>6 DEF IInv, TypeOK, Zeros
  <2>. QED  BY <1>2, <1>7, <1>8, <2>1 DEF IInv, TypeOK
<1>10. \A i \in Inode, r \in Root :
         LiveRoot(i)'[r] = IF i = call.inode /\ r = R
                           THEN c ELSE LiveRoot(i)[r]
  BY <1>2, <1>4, <1>8 DEF LiveRoot, IInv, TypeOK
<1>11. \A b \in PointerBlocks', s \in Slot :
         disk'[b][s] # 0 => b \in PointerBlocks /\ disk'[b][s] = disk[b][s]
  <2>1. \A s \in Slot : disk'[c][s] = 0
    BY <1>1, <1>6 DEF IInv, TypeOK, Zeros
  <2>2. \A b \in PointerBlocks : b # c => disk'[b] = disk[b]
    BY <1>1 DEF IInv, TypeOK, PointerBlocks
  <2>. QED  BY <1>7, <2>1, <2>2
<1>12. LiveRoot(call.inode)[R] = 0
  BY <1>2, <1>5 DEF LiveRoot
<1>13. PointersSound'
  <2>1. \A i \in Inode, r \in Root :
          LiveRoot(i)'[r] # 0 =>
            LiveRoot(i)'[r] \in used' \ Reserved
            /\ level'[LiveRoot(i)'[r]] = RootHeight(r)
    BY <1>4, <1>7, <1>10 DEF IInv, PointersSound
  <2>2. \A b \in PointerBlocks', s \in Slot :
          disk'[b][s] # 0 =>
            disk'[b][s] \in used' \ Reserved
            /\ level'[disk'[b][s]] = level'[b] - 1
    BY <1>7, <1>11 DEF IInv, PointersSound, PointerBlocks
  <2>. QED  BY <1>7, <2>1, <2>2 DEF PointersSound, Reserved
<1>14. SingleOwner'
  <2>1. \A i, j \in Inode, r, q \in Root :
          LiveRoot(i)'[r] # 0 /\ LiveRoot(i)'[r] = LiveRoot(j)'[q]
            => i = j /\ r = q
    BY <1>6, <1>10 DEF IInv, SingleOwner
  <2>2. \A a, b \in PointerBlocks', s, t \in Slot :
          disk'[a][s] # 0 /\ disk'[a][s] = disk'[b][t] => a = b /\ s = t
    BY <1>11 DEF IInv, SingleOwner
  <2>3. \A i \in Inode, r \in Root, b \in PointerBlocks', s \in Slot :
          LiveRoot(i)'[r] # 0 => LiveRoot(i)'[r] # disk'[b][s]
    BY <1>6, <1>10, <1>11 DEF IInv, SingleOwner
  <2>. QED  BY <2>1, <2>2, <2>3 DEF SingleOwner
<1>15. CursorSound'
  <2>1. \A i \in Inode, r \in Root :
          i = call'.inode /\ index'[i].root[r] # 0
            => call'.root[r] = index'[i].root[r]
    BY <1>2, <1>4, <1>5, <1>8 DEF IInv, CursorSound, TypeOK
  <2>2. Walking' /\ at'.block = 0 => at'.height = HeightOf(LogicalIndex')
    BY <1>2, <1>8 DEF IInv, CursorSound, Walking, Idle, LogicalIndex
  <2>. QED  BY <1>2, <2>1, <2>2 DEF CursorSound
<1>. QED  BY <1>9, <1>13, <1>14, <1>15 DEF IInv

LEMMA AllocateInBlockStep ==
  ASSUME IInv, AllocateInBlock
  PROVE  IInv'
<1>. DEFINE B == at.block
            S == SlotOf(LogicalIndex, at.height)
<1>1. PICK c \in Free :
        /\ used' = used \cup {c}
        /\ disk' = [disk EXCEPT ![c] = Zeros, ![B][S] = c]
        /\ level' = [level EXCEPT ![c] = at.height]
  BY DEF AllocateInBlock
<1>2. /\ Walking /\ B # 0 /\ Pointer = 0
      /\ UNCHANGED <<index, call, at, ret>>
  BY DEF AllocateInBlock
<1>3. S \in Slot
  BY LogicalType, SlotType DEF IInv, TypeOK
<1>4. /\ B \in PointerBlocks /\ level[B] = at.height + 1
      /\ B \in Cluster /\ Pointer = disk[B][S]
  BY <1>2 DEF IInv, CursorSound, TypeOK, Pointer
<1>5. /\ c \in Cluster /\ c \notin used /\ c \notin Reserved /\ c # 0
      /\ c \notin PointerBlocks /\ c # B
      /\ \A i \in Inode, r \in Root : LiveRoot(i)[r] # c
      /\ \A b \in PointerBlocks, s \in Slot : disk[b][s] # c
  BY FreeFits
<1>6. /\ used' \subseteq Cluster
      /\ level' \in [Cluster -> Height]
      /\ Reserved \subseteq used'
      /\ \A d \in used : d \in used' /\ level'[d] = level[d]
      /\ c \in used' \ Reserved /\ level'[c] = at.height
      /\ \A b \in PointerBlocks' : b \in PointerBlocks \/ b = c
      /\ \A b \in PointerBlocks : b \in PointerBlocks'
  BY <1>1, <1>2, MarkUsed
<1>. HIDE DEF S, B
<1>7. disk' \in [Cluster -> [Slot -> Nat]]
  <2>1. Zeros \in [Slot -> Nat] /\ c \in Nat
    BY <1>5, SizesAssumption DEF Zeros, Cluster
  <2>. DEFINE cleared == [disk EXCEPT ![c] = Zeros]
  <2>3. cleared \in [Cluster -> [Slot -> Nat]]
    BY <2>1 DEF IInv, TypeOK
  <2>4. disk' = [cleared EXCEPT ![B][S] = c]
    BY <1>1
  <2>. HIDE DEF cleared
  <2>. QED  BY <1>3, <1>4, <2>1, <2>3, <2>4
<1>8. /\ \A s \in Slot : disk'[c][s] = 0
      /\ \A s \in Slot : disk'[B][s] = IF s = S THEN c ELSE disk[B][s]
      /\ \A b \in PointerBlocks : b # B => disk'[b] = disk[b]
  BY <1>1, <1>3, <1>4, <1>5 DEF IInv, TypeOK, Zeros, PointerBlocks
<1>9. TypeOK'
  BY <1>2, <1>6, <1>7 DEF IInv, TypeOK
<1>10. \A i \in Inode, r \in Root : LiveRoot(i)'[r] = LiveRoot(i)[r]
  BY <1>2 DEF LiveRoot
<1>11. \A b \in PointerBlocks', s \in Slot :
         disk'[b][s] # 0 =>
           /\ b \in PointerBlocks
           /\ disk'[b][s] = IF b = B /\ s = S THEN c ELSE disk[b][s]
  BY <1>6, <1>8
<1>12. PointersSound'
  <2>1. \A i \in Inode, r \in Root :
          LiveRoot(i)'[r] # 0 =>
            LiveRoot(i)'[r] \in used' \ Reserved
            /\ level'[LiveRoot(i)'[r]] = RootHeight(r)
    BY <1>6, <1>10 DEF IInv, PointersSound
  <2>2. ASSUME NEW b \in PointerBlocks', NEW s \in Slot, disk'[b][s] # 0
        PROVE  disk'[b][s] \in used' \ Reserved
               /\ level'[disk'[b][s]] = level'[b] - 1
    <3>1. b \in PointerBlocks /\ level'[b] = level[b]
      BY <1>6, <1>11, <2>2 DEF PointerBlocks
    <3>2. CASE b = B /\ s = S
      <4>1. disk'[b][s] = c /\ at.height \in Int
        BY <1>9, <1>11, <2>2, <3>2, <1>2 DEF TypeOK, Height
      <4>. QED  BY <1>4, <1>6, <3>1, <3>2, <4>1
    <3>3. CASE ~(b = B /\ s = S)
      <4>1. disk'[b][s] = disk[b][s]
        BY <1>11, <2>2, <3>3
      <4>. QED  BY <1>6, <2>2, <3>1, <4>1 DEF IInv, PointersSound
    <3>. QED  BY <3>2, <3>3
  <2>. QED  BY <1>6, <2>1, <2>2 DEF PointersSound, Reserved
<1>13. SingleOwner'
  <2>1. \A i, j \in Inode, r, q \in Root :
          LiveRoot(i)'[r] # 0 /\ LiveRoot(i)'[r] = LiveRoot(j)'[q]
            => i = j /\ r = q
    BY <1>10 DEF IInv, SingleOwner
  <2>2. \A a, b \in PointerBlocks', s, t \in Slot :
          disk'[a][s] # 0 /\ disk'[a][s] = disk'[b][t] => a = b /\ s = t
    BY <1>5, <1>11 DEF IInv, SingleOwner
  <2>3. \A i \in Inode, r \in Root, b \in PointerBlocks', s \in Slot :
          LiveRoot(i)'[r] # 0 => LiveRoot(i)'[r] # disk'[b][s]
    BY <1>5, <1>10, <1>11 DEF IInv, SingleOwner
  <2>. QED  BY <2>1, <2>2, <2>3 DEF SingleOwner
<1>14. CursorSound'
  <2>1. level'[B] = level[B] /\ B \in PointerBlocks'
    BY <1>4, <1>6 DEF PointerBlocks
  <2>. QED
    BY <1>2, <1>4, <2>1
    DEF IInv, CursorSound, B, Walking, Idle, LogicalIndex
<1>. QED  BY <1>9, <1>12, <1>13, <1>14 DEF IInv

--------------------------------------------------------------------------
\* Dropping or renaming pointers of inodes, with no change on the disk.
LEMMA FewerRoots ==
  ASSUME IInv, UNCHANGED <<used, disk, level>>,
         \A i \in Inode, r \in Root :
           LiveRoot(i)'[r] = 0 \/ LiveRoot(i)'[r] = LiveRoot(i)[r]
  PROVE  PointersSound' /\ SingleOwner'
<1>1. PointerBlocks' = PointerBlocks
  BY DEF PointerBlocks
<1>2. PointersSound'
  BY <1>1 DEF IInv, PointersSound, Reserved
<1>3. SingleOwner'
  <2>1. \A i, j \in Inode, r, q \in Root :
          LiveRoot(i)'[r] # 0 /\ LiveRoot(i)'[r] = LiveRoot(j)'[q]
            => i = j /\ r = q
    BY DEF IInv, SingleOwner
  <2>2. \A i \in Inode, r \in Root, b \in PointerBlocks', s \in Slot :
          LiveRoot(i)'[r] # 0 => LiveRoot(i)'[r] # disk'[b][s]
    BY <1>1 DEF IInv, SingleOwner
  <2>3. \A a, b \in PointerBlocks', s, t \in Slot :
          disk'[a][s] # 0 /\ disk'[a][s] = disk'[b][t] => a = b /\ s = t
    BY <1>1 DEF IInv, SingleOwner
  <2>. QED  BY <2>1, <2>2, <2>3 DEF SingleOwner
<1>. QED  BY <1>2, <1>3

LEMMA IdleTypes ==
  /\ NoCall \in [inode : 0 .. InodeCount, off : Nat, len : Nat,
                 word : Word \cup {0}, done : Nat, root : [Root -> Cluster]]
  /\ UnusedInode \in [kind : Kind, root : [Root -> Cluster]]
  /\ Top \in [block : Cluster, height : Height]
  /\ NoPointers \in [Root -> Cluster]
  /\ NoInode \notin Inode
<1>1. 0 \in Cluster /\ InodeCount \in 0 .. InodeCount
  BY SizesAssumption DEF Cluster
<1>2. NoPointers \in [Root -> Cluster]
  BY <1>1 DEF NoPointers
<1>. QED
  BY <1>1, <1>2, SizesAssumption
  DEF NoCall, NoInode, UnusedInode, Kind, Top, Height, Inode

\* A call that gives up leaves the inodes with pointers they had before.
LEMMA AbortStep ==
  ASSUME IInv, ~Idle, NEW status \in {"no_space", "io_error"}, Abort(status)
  PROVE  /\ index' \in [Inode -> [kind : Kind, root : [Root -> Cluster]]]
         /\ call' = NoCall /\ at' = Top /\ ret' = status
         /\ \A i \in Inode, r \in Root :
              LiveRoot(i)'[r] = 0 \/ LiveRoot(i)'[r] = LiveRoot(i)[r]
         /\ CursorSound'
<1>1. /\ call' = NoCall /\ at' = Top /\ ret' = status
      /\ index' = IF index[call.inode].kind = "symlink"
                  THEN [index EXCEPT ![call.inode] = UnusedInode]
                  ELSE index
  BY DEF Abort, EndCall
<1>2. index' \in [Inode -> [kind : Kind, root : [Root -> Cluster]]]
  BY <1>1, IdleTypes DEF IInv, TypeOK
<1>3. call'.inode \notin Inode
  BY <1>1, IdleTypes DEF NoCall
<1>4. ASSUME NEW i \in Inode, NEW r \in Root
      PROVE  LiveRoot(i)'[r] = 0 \/ LiveRoot(i)'[r] = LiveRoot(i)[r]
  <2>1. LiveRoot(i)' = index'[i].root
    BY <1>3 DEF LiveRoot
  <2>2. index'[i].root = index[i].root \/ index'[i].root = NoPointers
    BY <1>1 DEF IInv, TypeOK, UnusedInode
  <2>. QED  BY <2>1, <2>2 DEF LiveRoot, NoPointers, IInv, CursorSound
<1>5. CursorSound'
  <2>1. at'.block = 0 /\ Idle'
    BY <1>1 DEF Top, Idle, NoCall
  <2>. QED  BY <1>3, <2>1 DEF CursorSound, Walking
<1>. QED  BY <1>1, <1>2, <1>4, <1>5

LEMMA LosePointerStep ==
  ASSUME IInv, LosePointer
  PROVE  IInv'
<1>1. PICK c \in Free :
        /\ used' = used \cup {c}
        /\ disk' = [disk EXCEPT ![c] = Zeros]
        /\ level' = [level EXCEPT ![c] = at.height]
  BY DEF LosePointer
<1>2. Walking /\ ~Idle /\ Abort("io_error")
  BY DEF LosePointer, Walking
<1>3. /\ index' \in [Inode -> [kind : Kind, root : [Root -> Cluster]]]
      /\ call' = NoCall /\ at' = Top /\ ret' = "io_error"
      /\ \A i \in Inode, r \in Root :
           LiveRoot(i)'[r] = 0 \/ LiveRoot(i)'[r] = LiveRoot(i)[r]
      /\ CursorSound'
  BY <1>2, AbortStep
<1>4. c \in Cluster /\ c \notin used
  BY FreeFits
<1>5. /\ used' \subseteq Cluster
      /\ level' \in [Cluster -> Height]
      /\ Reserved \subseteq used'
      /\ \A d \in used : d \in used' /\ level'[d] = level[d]
      /\ \A b \in PointerBlocks' : b \in PointerBlocks \/ b = c
  BY <1>1, <1>2, MarkUsed
<1>6. \A b \in PointerBlocks', s \in Slot :
        disk'[b][s] # 0 => b \in PointerBlocks /\ disk'[b][s] = disk[b][s]
  <2>1. \A s \in Slot : disk'[c][s] = 0
    BY <1>1, <1>4 DEF IInv, TypeOK, Zeros
  <2>2. \A b \in PointerBlocks : b # c => disk'[b] = disk[b]
    BY <1>1 DEF IInv, TypeOK, PointerBlocks
  <2>. QED  BY <1>5, <2>1, <2>2
<1>7. TypeOK'
  <2>1. disk' \in [Cluster -> [Slot -> Nat]]
    BY <1>1, <1>4 DEF IInv, TypeOK, Zeros
  <2>. QED  BY <1>3, <1>5, <2>1, IdleTypes DEF TypeOK
<1>8. PointersSound'
  <2>1. \A i \in Inode, r \in Root :
          LiveRoot(i)'[r] # 0 =>
            LiveRoot(i)'[r] \in used' \ Reserved
            /\ level'[LiveRoot(i)'[r]] = RootHeight(r)
    BY <1>3, <1>5 DEF IInv, PointersSound
  <2>2. \A b \in PointerBlocks', s \in Slot :
          disk'[b][s] # 0 =>
            disk'[b][s] \in used' \ Reserved
            /\ level'[disk'[b][s]] = level'[b] - 1
    BY <1>5, <1>6 DEF IInv, PointersSound, PointerBlocks
  <2>. QED  BY <1>5, <2>1, <2>2 DEF PointersSound, Reserved
<1>9. SingleOwner'
  <2>1. \A i, j \in Inode, r, q \in Root :
          LiveRoot(i)'[r] # 0 /\ LiveRoot(i)'[r] = LiveRoot(j)'[q]
            => i = j /\ r = q
    BY <1>3 DEF IInv, SingleOwner
  <2>2. \A a, b \in PointerBlocks', s, t \in Slot :
          disk'[a][s] # 0 /\ disk'[a][s] = disk'[b][t] => a = b /\ s = t
    BY <1>6 DEF IInv, SingleOwner
  <2>3. \A i \in Inode, r \in Root, b \in PointerBlocks', s \in Slot :
          LiveRoot(i)'[r] # 0 => LiveRoot(i)'[r] # disk'[b][s]
    BY <1>3, <1>6 DEF IInv, SingleOwner
  <2>. QED  BY <2>1, <2>2, <2>3 DEF SingleOwner
<1>. QED  BY <1>3, <1>7, <1>8, <1>9 DEF IInv

LEMMA FailStep ==
  ASSUME IInv, NoSpace \/ IoError
  PROVE  IInv'
<1>1. PICK status \in {"no_space", "io_error"} : Abort(status)
  BY DEF NoSpace, IoError
<1>2. ~Idle /\ UNCHANGED <<used, disk, level>>
  BY DEF NoSpace, IoError, Walking
<1>3. /\ index' \in [Inode -> [kind : Kind, root : [Root -> Cluster]]]
      /\ call' = NoCall /\ at' = Top /\ ret' = status
      /\ \A i \in Inode, r \in Root :
           LiveRoot(i)'[r] = 0 \/ LiveRoot(i)'[r] = LiveRoot(i)[r]
      /\ CursorSound'
  BY <1>1, <1>2, AbortStep
<1>4. PointersSound' /\ SingleOwner'
  BY <1>2, <1>3, FewerRoots
<1>5. TypeOK'
  BY <1>2, <1>3, IdleTypes DEF IInv, TypeOK
<1>. QED  BY <1>3, <1>4, <1>5 DEF IInv

LEMMA DescendStep ==
  ASSUME IInv, Descend
  PROVE  IInv'
<1>1. /\ Walking /\ Pointer # 0 /\ at.height > 0
      /\ at' = [block |-> Pointer, height |-> at.height - 1]
      /\ UNCHANGED <<used, disk, level, index, call, ret>>
  BY DEF Descend
<1>2. /\ Pointer \in Cluster
      /\ Pointer \in used \ Reserved /\ level[Pointer] = at.height
  BY <1>1, PointerFits
<1>3. at.height - 1 \in Height /\ at.height \in Int
  BY <1>1 DEF IInv, TypeOK, Height
<1>4. PointersSound' /\ SingleOwner'
  BY <1>1, FewerRoots DEF LiveRoot
<1>5. TypeOK'
  BY <1>1, <1>2, <1>3 DEF IInv, TypeOK
<1>6. CursorSound'
  <2>1. /\ at'.block = Pointer /\ at'.height = at.height - 1
        /\ at'.block \in PointerBlocks'
        /\ level'[at'.block] = at'.height + 1
    BY <1>1, <1>2, <1>3 DEF PointerBlocks
  <2>. QED
    BY <1>1, <2>1 DEF IInv, CursorSound, Walking, Idle, LogicalIndex
<1>. QED  BY <1>4, <1>5, <1>6 DEF IInv

LEMMA WriteChunkStep ==
  ASSUME IInv, WriteChunk
  PROVE  IInv'
<1>. DEFINE n == call.off + call.done + Chunk
            data == [s \in Slot |-> IF Offset <= s /\ s < Offset + Chunk
                                   THEN call.word ELSE disk[Pointer][s]]
<1>1. /\ Walking /\ Pointer # 0 /\ at.height = 0
      /\ disk' = [disk EXCEPT ![Pointer] = data]
      /\ call' = [call EXCEPT !.done = @ + Chunk]
      /\ at' = [block |-> 0, height |-> HeightOf(n \div PointersPerCluster)]
      /\ UNCHANGED <<used, level, index, ret>>
  BY DEF WriteChunk
<1>2. Pointer \in Cluster /\ level[Pointer] = 0
  BY <1>1, PointerFits
<1>3. Chunk \in Nat
  BY <1>1, ChunkType DEF IInv
<1>4. data \in [Slot -> Nat]
  <2>1. call.word \in Nat
    <3>1. call.word \in Word \cup {0}
      BY DEF IInv, TypeOK
    <3>2. \A w \in Word : w \in Nat
      BY InputAssumption
    <3>. QED  BY <3>1, <3>2
  <2>2. disk[Pointer] \in [Slot -> Nat]
    BY <1>2 DEF IInv, TypeOK
  <2>. QED  BY <2>1, <2>2
<1>. HIDE DEF data
<1>5. /\ call' \in [inode : 0 .. InodeCount, off : Nat, len : Nat,
                    word : Word \cup {0}, done : Nat, root : [Root -> Cluster]]
      /\ call'.inode = call.inode /\ call'.root = call.root
      /\ call'.off = call.off /\ call'.done = call.done + Chunk
  <2>1. call.done + Chunk \in Nat
    BY <1>3 DEF IInv, TypeOK
  <2>2. call' = [call EXCEPT !.done = call.done + Chunk]
    BY <1>1
  <2>. QED  BY <2>1, <2>2 DEF IInv, TypeOK
<1>6. TypeOK'
  <2>1. disk' \in [Cluster -> [Slot -> Nat]]
    BY <1>1, <1>4 DEF IInv, TypeOK
  <2>2. at' \in [block : Cluster, height : Height]
    BY <1>1, HeightType, SizesAssumption DEF Cluster
  <2>. QED  BY <1>1, <1>5, <2>1, <2>2 DEF IInv, TypeOK
<1>7. /\ PointerBlocks' = PointerBlocks
      /\ \A b \in PointerBlocks : disk'[b] = disk[b]
  BY <1>1, <1>2 DEF IInv, TypeOK, PointerBlocks
<1>8. \A i \in Inode : LiveRoot(i)' = LiveRoot(i)
  BY <1>1, <1>5 DEF LiveRoot
<1>9. PointersSound'
  BY <1>1, <1>7, <1>8 DEF IInv, PointersSound, Reserved
<1>10. SingleOwner'
  BY <1>7, <1>8 DEF IInv, SingleOwner
<1>11. CursorSound'
  <2>1. call'.off + call'.done = n
    BY <1>3, <1>5 DEF IInv, TypeOK
  <2>2. at'.block = 0 /\ at'.height = HeightOf(LogicalIndex')
    BY <1>1, <2>1 DEF LogicalIndex
  <2>. QED  BY <1>1, <1>5, <2>2 DEF IInv, CursorSound
<1>. QED  BY <1>6, <1>9, <1>10, <1>11 DEF IInv

LEMMA CommitStep ==
  ASSUME IInv, Commit
  PROVE  IInv'
<1>1. /\ ~Idle /\ index' = [index EXCEPT ![call.inode].root = call.root]
      /\ call' = NoCall /\ at' = Top /\ ret' = "ok"
      /\ UNCHANGED <<used, disk, level>>
  BY DEF Commit, EndCall
<1>2. call'.inode \notin Inode
  BY <1>1, IdleTypes DEF NoCall
<1>3. \A i \in Inode : LiveRoot(i)' = LiveRoot(i)
  BY <1>1, <1>2 DEF LiveRoot, IInv, TypeOK
<1>4. PointersSound' /\ SingleOwner'
  BY <1>1, <1>3, FewerRoots
<1>5. TypeOK'
  BY <1>1, IdleTypes DEF IInv, TypeOK
<1>6. CursorSound'
  BY <1>1, <1>2 DEF CursorSound, Walking, Idle, Top, NoCall
<1>. QED  BY <1>4, <1>5, <1>6 DEF IInv

\* A call that starts works on the pointers its inode has, or on none.
LEMMA StartStep ==
  ASSUME IInv, Idle, NEW i \in Inode, NEW q \in Request, NEW w \in Word,
         NEW root \in {NoPointers, index[i].root},
         index' \in [Inode -> [kind : Kind, root : [Root -> Cluster]]],
         index'[i].root = root,
         \A j \in Inode \ {i} : index'[j].root = index[j].root,
         StartCall(i, q, w, root),
         UNCHANGED <<used, disk, level>>
  PROVE  IInv'
<1>1. q.off \in Nat /\ q.len \in Nat
  BY InputAssumption
<1>2. /\ call' = [inode |-> i, off |-> q.off, len |-> q.len, word |-> w,
                 done |-> 0, root |-> root]
      /\ at' = [block |-> 0,
                height |-> HeightOf(q.off \div PointersPerCluster)]
      /\ ret' = "none"
  BY DEF StartCall
<1>3. root \in [Root -> Cluster]
  BY IdleTypes DEF IInv, TypeOK
<1>4. TypeOK'
  <2>1. i \in 0 .. InodeCount /\ 0 \in Cluster
    BY SizesAssumption DEF Inode, Cluster
  <2>2. call' \in [inode : 0 .. InodeCount, off : Nat, len : Nat,
                   word : Word \cup {0}, done : Nat, root : [Root -> Cluster]]
    BY <1>1, <1>2, <1>3, <2>1
  <2>3. at' \in [block : Cluster, height : Height]
    BY <1>2, <2>1, HeightType
  <2>. QED  BY <1>2, <2>2, <2>3 DEF IInv, TypeOK
<1>5. call.inode \notin Inode
  BY IdleTypes DEF Idle
<1>6. ASSUME NEW j \in Inode, NEW r \in Root
      PROVE  LiveRoot(j)'[r] = 0 \/ LiveRoot(j)'[r] = LiveRoot(j)[r]
  BY <1>2, <1>5 DEF LiveRoot, NoPointers
<1>7. PointersSound' /\ SingleOwner'
  BY <1>6, FewerRoots
<1>8. CursorSound'
  <2>1. LogicalIndex' = q.off \div PointersPerCluster
    BY <1>1, <1>2 DEF LogicalIndex
  <2>. QED  BY <1>2, <2>1 DEF CursorSound
<1>. QED  BY <1>4, <1>7, <1>8 DEF IInv

\* An inode that gets a new kind and keeps or drops its pointers, while no
\* call runs and nothing is freed.
LEMMA IndexStep ==
  ASSUME IInv, Idle, NEW i \in Inode, NEW kind \in Kind,
         NEW root \in {NoPointers, index[i].root},
         index' = [index EXCEPT ![i] = [kind |-> kind, root |-> root]],
         ret' = "ok", UNCHANGED <<used, disk, level, call, at>>
  PROVE  IInv'
<1>1. call.inode \notin Inode
  BY IdleTypes DEF Idle
<1>2. root \in [Root -> Cluster]
  BY IdleTypes DEF IInv, TypeOK
<1>3. index' \in [Inode -> [kind : Kind, root : [Root -> Cluster]]]
  BY <1>2 DEF IInv, TypeOK
<1>4. TypeOK'
  BY <1>3 DEF IInv, TypeOK
<1>5. ASSUME NEW j \in Inode, NEW r \in Root
      PROVE  LiveRoot(j)'[r] = 0 \/ LiveRoot(j)'[r] = LiveRoot(j)[r]
  BY <1>1 DEF LiveRoot, NoPointers, IInv, TypeOK
<1>6. PointersSound' /\ SingleOwner'
  BY <1>5, FewerRoots
<1>7. CursorSound'
  BY <1>1 DEF IInv, CursorSound, Idle, Walking
<1>. QED  BY <1>4, <1>6, <1>7 DEF IInv

--------------------------------------------------------------------------
(***************************************************************************)
(* Truncation frees a cluster only together with the pointer that leads to *)
(* it: every cluster it frees is a pointer of the truncated inode or a     *)
(* word of a pointer block that is freed too.                              *)
(***************************************************************************)
OwnedIn(t, top, F) ==
  /\ t # 0
  /\ t = top \/ \E b \in PointerBlocks \cap F, s \in Slot : t = disk[b][s]

LEMMA Freed1Owned ==
  ASSUME NEW c \in PointerBlocks, c # 0, NEW bad
  PROVE  \A t \in Freed1(c, bad) : OwnedIn(t, c, Freed1(c, bad))
BY DEF Freed1, Targets, OwnedIn

LEMMA Freed2Owned ==
  ASSUME IInv, NEW c \in PointerBlocks, c # 0, level[c] = 2, NEW bad
  PROVE  \A t \in Freed2(c, bad) : OwnedIn(t, c, Freed2(c, bad))
<1>1. CASE c \in bad
  BY <1>1 DEF Freed2
<1>2. CASE c \notin bad
  <2>1. Freed2(c, bad) =
          {c} \cup UNION {Freed1(d, bad) : d \in Targets(c)}
    BY <1>2 DEF Freed2
  <2>2. ASSUME NEW d \in Targets(c)
        PROVE  /\ d # 0 /\ d \in PointerBlocks
               /\ \E s \in Slot : d = disk[c][s]
               /\ \A t \in Freed1(d, bad) : OwnedIn(t, d, Freed1(d, bad))
    <3>1. d # 0 /\ \E s \in Slot : d = disk[c][s]
      BY DEF Targets
    <3>2. d \in PointerBlocks
      BY <3>1 DEF IInv, PointersSound, PointerBlocks
    <3>. QED  BY <3>1, <3>2, Freed1Owned
  <2>3. ASSUME NEW t \in Freed2(c, bad)
        PROVE  OwnedIn(t, c, Freed2(c, bad))
    <3>1. CASE t = c
      BY <3>1 DEF OwnedIn
    <3>2. CASE t # c
      <4>1. PICK d \in Targets(c) : t \in Freed1(d, bad)
        BY <2>1, <3>2
      <4>2. Freed1(d, bad) \subseteq Freed2(c, bad) /\ c \in Freed2(c, bad)
        BY <2>1
      <4>3. OwnedIn(t, d, Freed1(d, bad))
        BY <2>2, <4>1
      <4>4. t # 0
        BY <4>3 DEF OwnedIn
      <4>5. \E b \in PointerBlocks \cap Freed2(c, bad), s \in Slot :
              t = disk[b][s]
        BY <2>2, <4>2, <4>3 DEF OwnedIn
      <4>. QED  BY <4>4, <4>5 DEF OwnedIn
    <3>. QED  BY <3>1, <3>2
  <2>. QED  BY <2>3
<1>. QED  BY <1>1, <1>2

LEMMA Freed3Owned ==
  ASSUME IInv, NEW c \in PointerBlocks, c # 0, level[c] = 3, NEW bad
  PROVE  \A t \in Freed3(c, bad) : OwnedIn(t, c, Freed3(c, bad))
<1>1. CASE c \in bad
  BY <1>1 DEF Freed3
<1>2. CASE c \notin bad
  <2>1. Freed3(c, bad) =
          {c} \cup UNION {Freed2(d, bad) : d \in Targets(c)}
    BY <1>2 DEF Freed3
  <2>2. ASSUME NEW d \in Targets(c)
        PROVE  /\ d # 0 /\ d \in PointerBlocks
               /\ \E s \in Slot : d = disk[c][s]
               /\ \A t \in Freed2(d, bad) : OwnedIn(t, d, Freed2(d, bad))
    <3>1. d # 0 /\ \E s \in Slot : d = disk[c][s]
      BY DEF Targets
    <3>2. d \in PointerBlocks /\ level[d] = 2
      BY <3>1 DEF IInv, PointersSound, PointerBlocks
    <3>. QED  BY <3>1, <3>2, Freed2Owned
  <2>3. ASSUME NEW t \in Freed3(c, bad)
        PROVE  OwnedIn(t, c, Freed3(c, bad))
    <3>1. CASE t = c
      BY <3>1 DEF OwnedIn
    <3>2. CASE t # c
      <4>1. PICK d \in Targets(c) : t \in Freed2(d, bad)
        BY <2>1, <3>2
      <4>2. Freed2(d, bad) \subseteq Freed3(c, bad) /\ c \in Freed3(c, bad)
        BY <2>1
      <4>3. OwnedIn(t, d, Freed2(d, bad))
        BY <2>2, <4>1
      <4>4. t # 0
        BY <4>3 DEF OwnedIn
      <4>5. \E b \in PointerBlocks \cap Freed3(c, bad), s \in Slot :
              t = disk[b][s]
        BY <2>2, <4>2, <4>3 DEF OwnedIn
      <4>. QED  BY <4>4, <4>5 DEF OwnedIn
    <3>. QED  BY <3>1, <3>2
  <2>. QED  BY <2>3
<1>. QED  BY <1>1, <1>2

LEMMA FreedOwned ==
  ASSUME IInv, Idle, NEW i \in Inode, NEW bad
  PROVE  \A t \in Freed(index[i].root, bad) :
           /\ t # 0
           /\ \/ \E r \in Root : t = LiveRoot(i)[r]
              \/ \E b \in PointerBlocks \cap Freed(index[i].root, bad),
                    s \in Slot : t = disk[b][s]
<1>. DEFINE root == index[i].root
            F == Freed(root, bad)
<1>1. LiveRoot(i) = root
  BY IdleTypes DEF Idle, LiveRoot
<1>2. ASSUME NEW r \in Root, NEW t \in FreedBelow(RootHeight(r), root[r], bad)
      PROVE  OwnedIn(t, root[r], FreedBelow(RootHeight(r), root[r], bad))
  <2>1. root[r] # 0
    BY <1>2 DEF FreedBelow
  <2>2. /\ root[r] \in used \ Reserved
        /\ level[root[r]] = RootHeight(r)
    BY <1>1, <2>1 DEF IInv, PointersSound
  <2>3. RootHeight(r) \in Height
    BY SizesAssumption DEF RootHeight, Root, Height
  <2>4. CASE RootHeight(r) = 0
    BY <1>2, <2>1, <2>4 DEF FreedBelow, OwnedIn
  <2>5. CASE RootHeight(r) # 0
    <3>1. root[r] \in PointerBlocks
      BY <2>2, <2>3, <2>5 DEF PointerBlocks, Height
    <3>2. RootHeight(r) \in 1 .. 3
      BY <2>3, <2>5 DEF Height
    <3>. QED
      BY <1>2, <2>1, <2>2, <3>1, <3>2, Freed1Owned, Freed2Owned, Freed3Owned
      DEF FreedBelow
  <2>. QED  BY <2>4, <2>5
<1>3. ASSUME NEW t \in F
      PROVE  /\ t # 0
             /\ \/ \E r \in Root : t = root[r]
                \/ \E b \in PointerBlocks \cap F, s \in Slot : t = disk[b][s]
  <2>1. PICK r \in Root : t \in FreedBelow(RootHeight(r), root[r], bad)
    BY DEF Freed
  <2>2. FreedBelow(RootHeight(r), root[r], bad) \subseteq F
    BY DEF Freed
  <2>3. OwnedIn(t, root[r], FreedBelow(RootHeight(r), root[r], bad))
    BY <1>2, <2>1
  <2>. QED  BY <2>2, <2>3 DEF OwnedIn
<1>. QED  BY <1>1, <1>3

\* Freeing the clusters of an inode together with its pointers: no pointer
\* that remains leads to a freed cluster, because it would be a second
\* pointer to it.
LEMMA ReleaseStep ==
  ASSUME IInv, Idle, NEW i \in Inode, NEW kind \in Kind, NEW bad,
         used' = used \ Freed(index[i].root, bad),
         index' = [index EXCEPT ![i] = [kind |-> kind, root |-> NoPointers]],
         ret' = "ok", UNCHANGED <<disk, level, call, at>>
  PROVE  IInv'
<1>. DEFINE F == Freed(index[i].root, bad)
<1>1. call.inode \notin Inode
  BY IdleTypes DEF Idle
<1>2. \A j \in Inode : LiveRoot(j) = index[j].root /\ LiveRoot(j)' = index'[j].root
  BY <1>1 DEF LiveRoot
<1>3. \A j \in Inode \ {i} : LiveRoot(j)' = LiveRoot(j)
  BY <1>2 DEF IInv, TypeOK
<1>4. \A r \in Root : LiveRoot(i)'[r] = 0
  BY <1>2 DEF IInv, TypeOK, NoPointers
<1>5. \A t \in F :
        /\ t # 0
        /\ \/ \E r \in Root : t = LiveRoot(i)[r]
           \/ \E b \in PointerBlocks \cap F, s \in Slot : t = disk[b][s]
  BY FreedOwned
<1>. HIDE DEF F
<1>6. PointerBlocks' = PointerBlocks \ F
  BY DEF PointerBlocks, F
<1>7. ASSUME NEW j \in Inode \ {i}, NEW r \in Root, LiveRoot(j)[r] # 0
      PROVE  LiveRoot(j)[r] \notin F
  BY <1>5, <1>7 DEF IInv, SingleOwner
<1>8. ASSUME NEW b \in PointerBlocks \ F, NEW s \in Slot, disk[b][s] # 0
      PROVE  disk[b][s] \notin F
  BY <1>5, <1>8 DEF IInv, SingleOwner
<1>9. F \cap Reserved = {}
  BY <1>5 DEF IInv, PointersSound
<1>10. PointersSound'
  <2>1. Reserved' \subseteq used'
    BY <1>9 DEF IInv, PointersSound, Reserved, F
  <2>2. ASSUME NEW j \in Inode, NEW r \in Root, LiveRoot(j)'[r] # 0
        PROVE  /\ LiveRoot(j)'[r] \in (used \ F) \ Reserved
               /\ level[LiveRoot(j)'[r]] = RootHeight(r)
    <3>1. j # i /\ LiveRoot(j)' = LiveRoot(j)
      BY <1>3, <1>4, <2>2
    <3>. QED  BY <1>7, <2>2, <3>1 DEF IInv, PointersSound
  <2>3. ASSUME NEW b \in PointerBlocks \ F, NEW s \in Slot, disk[b][s] # 0
        PROVE  /\ disk[b][s] \in (used \ F) \ Reserved
               /\ level[disk[b][s]] = level[b] - 1
    BY <1>8, <2>3 DEF IInv, PointersSound
  <2>. QED
    BY <1>6, <2>1, <2>2, <2>3 DEF PointersSound, Reserved, F
<1>11. SingleOwner'
  <2>1. ASSUME NEW j \in Inode, NEW r \in Root, LiveRoot(j)'[r] # 0
        PROVE  j # i /\ LiveRoot(j)' = LiveRoot(j)
    BY <1>3, <1>4, <2>1
  <2>2. ASSUME NEW j \in Inode, NEW k \in Inode, NEW r \in Root, NEW q \in Root,
               LiveRoot(j)'[r] # 0, LiveRoot(j)'[r] = LiveRoot(k)'[q]
        PROVE  j = k /\ r = q
    BY <2>1, <2>2 DEF IInv, SingleOwner
  <2>3. ASSUME NEW j \in Inode, NEW r \in Root, NEW b \in PointerBlocks',
               NEW s \in Slot, LiveRoot(j)'[r] # 0
        PROVE  LiveRoot(j)'[r] # disk'[b][s]
    BY <1>6, <2>1, <2>3 DEF IInv, SingleOwner
  <2>4. ASSUME NEW a \in PointerBlocks', NEW b \in PointerBlocks',
               NEW s \in Slot, NEW t \in Slot,
               disk'[a][s] # 0, disk'[a][s] = disk'[b][t]
        PROVE  a = b /\ s = t
    BY <1>6, <2>4 DEF IInv, SingleOwner
  <2>. QED  BY <2>2, <2>3, <2>4 DEF SingleOwner
<1>12. TypeOK'
  <2>1. index' \in [Inode -> [kind : Kind, root : [Root -> Cluster]]]
    BY IdleTypes DEF IInv, TypeOK
  <2>. QED  BY <2>1 DEF IInv, TypeOK
<1>13. CursorSound'
  BY <1>1 DEF IInv, CursorSound, Idle, Walking
<1>. QED  BY <1>10, <1>11, <1>12, <1>13 DEF IInv

--------------------------------------------------------------------------
(***************************************************************************)
(* The invariant.                                                          *)
(***************************************************************************)
LEMMA InitInv == Init => IInv
<1>. SUFFICES ASSUME Init PROVE IInv
  OBVIOUS
<1>1. 0 \in Cluster /\ Reserved \subseteq Cluster
  BY SizesAssumption DEF Cluster, Reserved
<1>2. call.inode \notin Inode
  BY IdleTypes DEF Init, NoCall
<1>3. \A i \in Inode, r \in Root : LiveRoot(i)[r] = 0
  BY <1>2 DEF Init, LiveRoot, UnusedInode, NoPointers
<1>4. PointerBlocks = {}
  BY DEF Init, PointerBlocks
<1>5. TypeOK
  BY <1>1, IdleTypes DEF Init, TypeOK, Zeros, Height
<1>6. PointersSound /\ SingleOwner
  BY <1>3, <1>4 DEF Init, PointersSound, SingleOwner
<1>7. CursorSound
  BY <1>2, IdleTypes DEF Init, CursorSound, Walking, Idle, Top, NoCall
<1>. QED  BY <1>5, <1>6, <1>7 DEF IInv

LEMMA NextStep == IInv /\ [Next]_vars => IInv'
<1>. SUFFICES ASSUME IInv, [Next]_vars PROVE IInv'
  OBVIOUS
<1>1. CASE CallStep
  <2>1. CASE AllocateRoot
    BY <2>1, AllocateRootStep
  <2>2. CASE AllocateInBlock
    BY <2>2, AllocateInBlockStep
  <2>3. CASE LosePointer
    BY <2>3, LosePointerStep
  <2>4. CASE NoSpace \/ IoError
    BY <2>4, FailStep
  <2>5. CASE Descend
    BY <2>5, DescendStep
  <2>6. CASE WriteChunk
    BY <2>6, WriteChunkStep
  <2>7. CASE Commit
    BY <2>7, CommitStep
  <2>. QED  BY <1>1, <2>1, <2>2, <2>3, <2>4, <2>5, <2>6, <2>7 DEF CallStep
<1>2. ASSUME NEW i \in Inode, NEW q \in Request, NEW w \in Word, Begin(i, q, w)
      PROVE  IInv'
  BY <1>2, StartStep DEF Begin, IInv, TypeOK
<1>3. ASSUME NEW i \in Inode, NEW q \in Request, NEW w \in Word,
             BeginSymlink(i, q, w)
      PROVE  IInv'
  <2>1. index' \in [Inode -> [kind : Kind, root : [Root -> Cluster]]]
    BY <1>3, IdleTypes DEF BeginSymlink, IInv, TypeOK, Kind
  <2>2. /\ index'[i].root = NoPointers
        /\ \A j \in Inode \ {i} : index'[j].root = index[j].root
    BY <1>3 DEF BeginSymlink, IInv, TypeOK
  <2>. QED  BY <1>3, <2>1, <2>2, StartStep DEF BeginSymlink
<1>4. ASSUME NEW i \in Inode, NEW kind \in Kinds \ {"symlink"}, Create(i, kind)
      PROVE  IInv'
  <2>1. kind \in Kind
    BY InputAssumption DEF Kind
  <2>. QED  BY <1>4, <2>1, IndexStep DEF Create
<1>5. ASSUME NEW i \in Inode, Truncate(i)
      PROVE  IInv'
  <2>. DEFINE old == index[i]
              new == [kind |-> old.kind, root |-> NoPointers]
  <2>1. old \in [kind : Kind, root : [Root -> Cluster]]
    BY DEF IInv, TypeOK
  <2>2. index' = [index EXCEPT ![i] = [old EXCEPT !.root = NoPointers]]
    BY <1>5 DEF Truncate
  <2>. HIDE DEF old
  <2>3. old.kind \in Kind /\ [old EXCEPT !.root = NoPointers] = new
    BY <2>1
  <2>4. index' = [index EXCEPT ![i] = new]
    BY <2>2, <2>3
  <2>. QED  BY <1>5, <2>3, <2>4, ReleaseStep, ZenonT(60) DEF Truncate
<1>6. ASSUME NEW i \in Inode, Remove(i)
      PROVE  IInv'
  BY <1>6, ReleaseStep DEF Remove, UnusedInode, Kind
<1>7. ASSUME NEW i \in Inode, RemoveDirectory(i)
      PROVE  IInv'
  BY <1>7, IndexStep DEF RemoveDirectory, UnusedInode, Kind
<1>8. CASE UNCHANGED vars
  BY <1>8 DEF vars, IInv, TypeOK, PointersSound, SingleOwner, CursorSound,
     LiveRoot, PointerBlocks, Walking, Idle, LogicalIndex
<1>. QED  BY <1>1, <1>2, <1>3, <1>4, <1>5, <1>6, <1>7, <1>8 DEF Next

\* The inductive invariant holds in every reachable state.
THEOREM InvariantHolds == Spec => []IInv
BY InitInv, NextStep, PTL DEF Spec

\* Every variable keeps its type; in particular the bitmap, the pointers and
\* the cursor never leave the disk.
THEOREM TypeCorrect == Spec => []TypeOK
<1>1. IInv => TypeOK
  BY DEF IInv
<1>. QED  BY <1>1, InvariantHolds, PTL

\* No pointer of an inode or of a live pointer block dangles, points into
\* the metadata area, or is used at another height than its cluster was
\* allocated for, whatever write and truncation faults happen on the way.
THEOREM PointersAlwaysSound == Spec => []PointersSound
<1>1. IInv => PointersSound
  BY DEF IInv
<1>. QED  BY <1>1, InvariantHolds, PTL

\* No two pointers ever lead to one cluster.
THEOREM ClustersHaveOneOwner == Spec => []SingleOwner
<1>1. IInv => SingleOwner
  BY DEF IInv
<1>. QED  BY <1>1, InvariantHolds, PTL

\* The walk of a write call keeps its place: its copy of the inode has lost no
\* pointer of the index, and the block its cursor is in is a live pointer
\* block of the height its walk has reached.
THEOREM CursorAlwaysSound == Spec => []CursorSound
<1>1. IInv => CursorSound
  BY DEF IInv
<1>. QED  BY <1>1, InvariantHolds, PTL

--------------------------------------------------------------------------
(***************************************************************************)
(* What an operation that reports success leaves behind.                   *)
(***************************************************************************)
\* An inode that is not in use has no pointers, the inode of a running call is
\* in use, and a call that runs has not reported anything.
UnusedEmpty ==
  /\ \A i \in Inode : index[i].kind = "unused" => index[i].root = NoPointers
  /\ ~Idle => index[call.inode].kind # "unused" /\ ret = "none"

LEMMA EmptyInit == Init => UnusedEmpty
BY DEF Init, UnusedEmpty, UnusedInode, Idle, NoCall

LEMMA AbortEmpty ==
  ASSUME IInv, UnusedEmpty, ~Idle, NEW status \in {"no_space", "io_error"},
         Abort(status)
  PROVE  UnusedEmpty' /\ ret' # "ok"
<1>1. /\ call' = NoCall /\ ret' = status
      /\ index' = IF index[call.inode].kind = "symlink"
                  THEN [index EXCEPT ![call.inode] = UnusedInode]
                  ELSE index
  BY DEF Abort, EndCall
<1>2. Idle'
  BY <1>1 DEF Idle, NoCall
<1>3. \A i \in Inode : index'[i] = index[i] \/ index'[i] = UnusedInode
  BY <1>1 DEF IInv, TypeOK
<1>. QED  BY <1>1, <1>2, <1>3 DEF UnusedEmpty, UnusedInode

LEMMA EmptyNext == IInv /\ UnusedEmpty /\ [Next]_vars => UnusedEmpty'
<1>. SUFFICES ASSUME IInv, UnusedEmpty, [Next]_vars PROVE UnusedEmpty'
  OBVIOUS
<1>. USE DEF Idle
<1>1. CASE AllocateRoot \/ AllocateInBlock \/ Descend \/ WriteChunk
  <2>1. UNCHANGED <<index, ret>> /\ ~Idle
    BY <1>1 DEF AllocateRoot, AllocateInBlock, Descend, WriteChunk, Walking
  <2>2. call'.inode = call.inode
    <3>1. CASE AllocateRoot
      <4>1. PICK c \in Free : call' = [call EXCEPT !.root[RootOf(LogicalIndex)] = c]
        BY <3>1 DEF AllocateRoot
      <4>. QED  BY <4>1 DEF IInv, TypeOK
    <3>2. CASE AllocateInBlock \/ Descend
      BY <3>2 DEF AllocateInBlock, Descend
    <3>3. CASE WriteChunk
      <4>1. call' = [call EXCEPT !.done = call.done + Chunk]
        BY <3>3 DEF WriteChunk
      <4>. QED  BY <4>1 DEF IInv, TypeOK
    <3>. QED  BY <1>1, <3>1, <3>2, <3>3
  <2>. QED  BY <2>1, <2>2 DEF UnusedEmpty
<1>2. CASE LosePointer \/ NoSpace \/ IoError
  <2>1. ~Idle /\ \E status \in {"no_space", "io_error"} : Abort(status)
    BY <1>2 DEF LosePointer, NoSpace, IoError, Walking
  <2>. QED  BY <2>1, AbortEmpty
<1>3. CASE Commit
  <2>1. /\ index' = [index EXCEPT ![call.inode].root = call.root]
        /\ call' = NoCall /\ ~Idle
    BY <1>3 DEF Commit, EndCall
  <2>2. \A i \in Inode : /\ index'[i].kind = index[i].kind
                        /\ i # call.inode => index'[i] = index[i]
    BY <2>1 DEF IInv, TypeOK
  <2>. QED  BY <2>1, <2>2 DEF UnusedEmpty, NoCall
<1>4. ASSUME NEW i \in Inode, NEW q \in Request, NEW w \in Word,
             Begin(i, q, w) \/ BeginSymlink(i, q, w)
      PROVE  UnusedEmpty'
  <2>1. call'.inode = i /\ ret' = "none"
    BY <1>4 DEF Begin, BeginSymlink, StartCall
  <2>2. index'[i].kind # "unused"
    BY <1>4 DEF Begin, BeginSymlink, IInv, TypeOK
  <2>3. \A j \in Inode : j # i => index'[j] = index[j]
    BY <1>4 DEF Begin, BeginSymlink, IInv, TypeOK
  <2>. QED  BY <2>1, <2>2, <2>3 DEF UnusedEmpty
<1>5. ASSUME NEW i \in Inode,
             \/ \E kind \in Kinds \ {"symlink"} : Create(i, kind)
             \/ Truncate(i) \/ Remove(i) \/ RemoveDirectory(i)
      PROVE  UnusedEmpty'
  <2>1. Idle /\ UNCHANGED call
    BY <1>5 DEF Create, Truncate, Remove, RemoveDirectory
  <2>2. index'[i].root = NoPointers
    BY <1>5 DEF Create, Truncate, Remove, RemoveDirectory, UnusedInode,
       IInv, TypeOK
  <2>3. \A j \in Inode : j # i => index'[j] = index[j]
    BY <1>5 DEF Create, Truncate, Remove, RemoveDirectory, IInv, TypeOK
  <2>. QED  BY <2>1, <2>2, <2>3 DEF UnusedEmpty
<1>6. CASE UNCHANGED vars
  BY <1>6 DEF vars, UnusedEmpty
<1>. QED  BY <1>1, <1>2, <1>3, <1>4, <1>5, <1>6 DEF Next, CallStep

--------------------------------------------------------------------------
(***************************************************************************)
(* Truncation finds every cluster that an inode leads to.                  *)
(***************************************************************************)
\* F holds c, and with a pointer block everything that block points to.
ClosedFrom(F, c) ==
  c \in F /\ \A b \in PointerBlocks \cap F : Targets(b) \subseteq F

LEMMA TargetsFit ==
  ASSUME IInv, NEW b \in PointerBlocks, NEW t \in Targets(b)
  PROVE  t # 0 /\ t \in used \ Reserved /\ level[t] = level[b] - 1
<1>1. PICK s \in Slot : t = disk[b][s] /\ t # 0
  BY DEF Targets
<1>. QED  BY <1>1 DEF IInv, PointersSound

LEMMA Closed1 ==
  ASSUME IInv, NEW c \in PointerBlocks, level[c] = 1
  PROVE  ClosedFrom(Freed1(c, {}), c)
<1>1. Freed1(c, {}) = {c} \cup Targets(c)
  BY DEF Freed1
<1>2. \A t \in Targets(c) : t \notin PointerBlocks
  BY TargetsFit DEF PointerBlocks
<1>. QED  BY <1>1, <1>2 DEF ClosedFrom

LEMMA Closed2 ==
  ASSUME IInv, NEW c \in PointerBlocks, level[c] = 2
  PROVE  ClosedFrom(Freed2(c, {}), c)
<1>1. Freed2(c, {}) = {c} \cup UNION {Freed1(d, {}) : d \in Targets(c)}
  BY DEF Freed2
<1>2. \A d \in Targets(c) : ClosedFrom(Freed1(d, {}), d)
  BY TargetsFit, Closed1 DEF PointerBlocks
<1>3. Targets(c) \subseteq Freed2(c, {})
  BY <1>1, <1>2 DEF ClosedFrom
<1>4. ASSUME NEW b \in PointerBlocks \cap Freed2(c, {}), b # c
      PROVE  Targets(b) \subseteq Freed2(c, {})
  <2>1. PICK d \in Targets(c) : b \in Freed1(d, {})
    BY <1>1, <1>4
  <2>2. Targets(b) \subseteq Freed1(d, {})
    BY <1>2, <2>1 DEF ClosedFrom
  <2>. QED  BY <1>1, <2>2
<1>. QED  BY <1>1, <1>3, <1>4 DEF ClosedFrom

LEMMA Closed3 ==
  ASSUME IInv, NEW c \in PointerBlocks, level[c] = 3
  PROVE  ClosedFrom(Freed3(c, {}), c)
<1>1. Freed3(c, {}) = {c} \cup UNION {Freed2(d, {}) : d \in Targets(c)}
  BY DEF Freed3
<1>2. \A d \in Targets(c) : ClosedFrom(Freed2(d, {}), d)
  BY TargetsFit, Closed2 DEF PointerBlocks
<1>3. Targets(c) \subseteq Freed3(c, {})
  BY <1>1, <1>2 DEF ClosedFrom
<1>4. ASSUME NEW b \in PointerBlocks \cap Freed3(c, {}), b # c
      PROVE  Targets(b) \subseteq Freed3(c, {})
  <2>1. PICK d \in Targets(c) : b \in Freed2(d, {})
    BY <1>1, <1>4
  <2>2. Targets(b) \subseteq Freed2(d, {})
    BY <1>2, <2>1 DEF ClosedFrom
  <2>. QED  BY <1>1, <2>2
<1>. QED  BY <1>1, <1>3, <1>4 DEF ClosedFrom

\* A truncation that can read every pointer block frees all that the
\* pointers lead to.
LEMMA FreedAll ==
  ASSUME IInv, NEW i \in Inode
  PROVE  Reachable(LiveRoot(i)) \subseteq Freed(LiveRoot(i), {})
<1>. DEFINE root == LiveRoot(i)
            F == Freed(root, {})
            tree(r) == FreedBelow(RootHeight(r), root[r], {})
<1>1. F = UNION {tree(r) : r \in Root}
  BY DEF Freed
<1>2. ASSUME NEW r \in Root, root[r] # 0
      PROVE  ClosedFrom(tree(r), root[r])
  <2>1. root[r] \in used \ Reserved /\ level[root[r]] = RootHeight(r)
    BY <1>2 DEF IInv, PointersSound
  <2>2. RootHeight(r) \in Height
    BY SizesAssumption DEF RootHeight, Root, Height
  <2>3. CASE RootHeight(r) = 0
    <3>1. tree(r) = {root[r]}
      BY <1>2, <2>3 DEF FreedBelow
    <3>2. root[r] \notin PointerBlocks
      BY <2>1, <2>3 DEF PointerBlocks
    <3>. QED  BY <3>1, <3>2 DEF ClosedFrom
  <2>4. CASE RootHeight(r) = 1
    BY <1>2, <2>1, <2>4, Closed1 DEF FreedBelow, PointerBlocks
  <2>5. CASE RootHeight(r) = 2
    BY <1>2, <2>1, <2>5, Closed2 DEF FreedBelow, PointerBlocks
  <2>6. CASE RootHeight(r) = 3
    BY <1>2, <2>1, <2>6, Closed3 DEF FreedBelow, PointerBlocks
  <2>. QED  BY <2>2, <2>3, <2>4, <2>5, <2>6 DEF Height
<1>3. {root[r] : r \in Root} \ {0} \subseteq F
  BY <1>1, <1>2 DEF ClosedFrom
<1>4. \A b \in PointerBlocks \cap F : Targets(b) \subseteq F
  <2>1. ASSUME NEW b \in PointerBlocks \cap F
        PROVE  Targets(b) \subseteq F
    <3>1. PICK r \in Root : b \in tree(r)
      BY <1>1
    <3>2. root[r] # 0
      BY <3>1 DEF FreedBelow
    <3>3. Targets(b) \subseteq tree(r)
      BY <1>2, <3>1, <3>2 DEF ClosedFrom
    <3>. QED  BY <1>1, <3>3
  <2>. QED  BY <2>1
<1>. DEFINE S == {root[r] : r \in Root} \ {0}
<1>5. S \subseteq used \ Reserved
  BY DEF IInv, PointersSound
<1>. HIDE DEF F, S
<1>6. ASSUME NEW T, T \subseteq F, T \subseteq used \ Reserved
      PROVE  Below(T) \subseteq F /\ Below(T) \subseteq used \ Reserved
  <2>1. ASSUME NEW b \in T, level[b] > 0
        PROVE  Targets(b) \subseteq F /\ Targets(b) \subseteq used \ Reserved
    <3>1. b \in PointerBlocks
      BY <1>6, <2>1 DEF PointerBlocks
    <3>. QED  BY <1>4, <1>6, <2>1, <3>1, TargetsFit
  <2>. QED  BY <1>6, <2>1 DEF Below
<1>7. Below(S) \subseteq F /\ Below(S) \subseteq used \ Reserved
  BY <1>3, <1>5, <1>6 DEF S
<1>8. Below(Below(S)) \subseteq F /\ Below(Below(S)) \subseteq used \ Reserved
  BY <1>6, <1>7
<1>9. Below(Below(Below(S))) \subseteq F
  BY <1>6, <1>8
<1>. QED  BY <1>9 DEF Reachable, S, F

\* What inodes lead to depends on the pointers and the disk alone.
LEMMA SameReach ==
  ASSUME UNCHANGED <<disk, level>>, NEW i, LiveRoot(i)' = LiveRoot(i)
  PROVE  Reachable(LiveRoot(i))' = Reachable(LiveRoot(i))
BY DEF Reachable, Below, Targets, Slot

\* When inodes keep their pointers, or lose them together with all they lead
\* to, no cluster is left behind.
LEMMA NothingLeft ==
  ASSUME IInv, UNCHANGED <<disk, level>>, NEW F,
         used' = used \ F,
         \A i \in Inode : \/ LiveRoot(i)' = LiveRoot(i)
                          \/ Reachable(LiveRoot(i)) \subseteq F
  PROVE  Leaked' \subseteq Leaked
<1>. SUFFICES ASSUME NEW c \in Leaked', c \notin Leaked
              PROVE  FALSE
  OBVIOUS
<1>1. c \in (used \ F) \ Reserved
  BY DEF Leaked, Reserved
<1>2. PICK i \in Inode : c \in Reachable(LiveRoot(i))
  BY <1>1 DEF Leaked
<1>3. LiveRoot(i)' = LiveRoot(i)
  BY <1>1, <1>2
<1>4. c \in Reachable(LiveRoot(i))'
  BY <1>2, <1>3, SameReach
<1>5. c \notin UNION {Reachable(LiveRoot(j))' : j \in Inode}
  BY DEF Leaked, Inode
<1>. QED  BY <1>4, <1>5

LEMMA NoPointersReach ==
  ASSUME NEW root, root = NoPointers
  PROVE  Reachable(root) = {}
BY DEF Reachable, Below, NoPointers

LEMMA LossStep ==
  IInv /\ UnusedEmpty /\ [Next]_vars =>
    [~DiskFaults /\ ret' = "ok" =>
       \/ Leaked' \subseteq Leaked
       \/ \E i \in Inode : RemoveDirectory(i)]_vars
<1>. SUFFICES ASSUME IInv, UnusedEmpty, Next, ~DiskFaults, ret' = "ok",
                     ~\E i \in Inode : RemoveDirectory(i)
              PROVE  Leaked' \subseteq Leaked
  BY Zenon
<1>1. CASE CallStep
  <2>1. CASE AllocateRoot \/ AllocateInBlock \/ Descend \/ WriteChunk
    BY <2>1 DEF AllocateRoot, AllocateInBlock, Descend, WriteChunk, Walking,
       UnusedEmpty
  <2>2. CASE LosePointer \/ NoSpace \/ IoError
    <3>1. ~Idle /\ \E status \in {"no_space", "io_error"} : Abort(status)
      BY <2>2 DEF LosePointer, NoSpace, IoError, Walking
    <3>. QED  BY <3>1, AbortEmpty
  <2>3. CASE Commit
    <3>1. /\ index' = [index EXCEPT ![call.inode].root = call.root]
          /\ call' = NoCall
          /\ UNCHANGED <<used, disk, level>>
      BY <2>3 DEF Commit, EndCall
    <3>2. call'.inode \notin Inode
      BY <3>1, IdleTypes DEF NoCall
    <3>3. \A i \in Inode : LiveRoot(i)' = LiveRoot(i)
      BY <3>1, <3>2 DEF LiveRoot, IInv, TypeOK
    <3>4. used' = used \ {}
      BY <3>1
    <3>. QED  BY <3>1, <3>3, <3>4, NothingLeft, Zenon
  <2>. QED  BY <1>1, <2>1, <2>2, <2>3 DEF CallStep
<1>2. ASSUME NEW i \in Inode, NEW q \in Request, NEW w \in Word,
             Begin(i, q, w) \/ BeginSymlink(i, q, w)
      PROVE  FALSE
  BY <1>2 DEF Begin, BeginSymlink, StartCall
<1>3. ASSUME NEW i \in Inode,
             \/ \E kind \in Kinds \ {"symlink"} : Create(i, kind)
             \/ Truncate(i) \/ Remove(i)
      PROVE  Leaked' \subseteq Leaked
  <2>1. Idle /\ UNCHANGED <<call, disk, level>>
    BY <1>3 DEF Create, Truncate, Remove
  <2>2. \A j \in Inode : LiveRoot(j) = index[j].root /\ LiveRoot(j)' = index'[j].root
    BY <2>1, IdleTypes DEF LiveRoot, Idle
  <2>3. \A j \in Inode : j # i => LiveRoot(j)' = LiveRoot(j)
    BY <1>3, <2>2 DEF Create, Truncate, Remove, IInv, TypeOK
  <2>4. CASE \E kind \in Kinds \ {"symlink"} : Create(i, kind)
    <3>1. used' = used \ {}
      BY <2>4 DEF Create
    <3>2. index[i].root = NoPointers
      BY <2>4 DEF Create, FirstUnused, UnusedEmpty
    <3>3. Reachable(LiveRoot(i)) = {}
      BY <2>2, <3>2, NoPointersReach
    <3>4. \A j \in Inode : \/ LiveRoot(j)' = LiveRoot(j)
                          \/ Reachable(LiveRoot(j)) \subseteq {}
      BY <2>3, <3>3
    <3>. QED  BY <2>1, <3>1, <3>4, NothingLeft, Zenon
  <2>5. CASE Truncate(i) \/ Remove(i)
    <3>1. used' = used \ Freed(LiveRoot(i), {})
      BY <2>2, <2>5 DEF Truncate, Remove, Unreadable
    <3>2. \A j \in Inode : \/ LiveRoot(j)' = LiveRoot(j)
                          \/ Reachable(LiveRoot(j)) \subseteq Freed(LiveRoot(i), {})
      BY <2>3, FreedAll
    <3>. QED  BY <2>1, <3>1, <3>2, NothingLeft, Zenon
  <2>. QED  BY <1>3, <2>4, <2>5
<1>. QED  BY <1>1, <1>2, <1>3 DEF Next

\* While the disk works, no operation that reports success leaves a cluster
\* marked used that no inode leads to any more; only the removal of a
\* directory does, which is freed without being truncated.
THEOREM SuccessIsLossless == Spec => SuccessLosesNothing
<1>1. Spec => [](IInv /\ UnusedEmpty)
  BY InitInv, NextStep, EmptyInit, EmptyNext, PTL DEF Spec
<1>. QED  BY <1>1, LossStep, PTL DEF Spec, SuccessLosesNothing

--------------------------------------------------------------------------
(***************************************************************************)
(* The walk of AllocFiles with the disk as an argument, stopped at the     *)
(* pointer whose target has height h.                                      *)
(***************************************************************************)
FollowOn(d, c, l, h) == IF c = 0 THEN 0 ELSE d[c][SlotOf(l, h)]

Walk(d, root, l, h) ==
  LET c == root[RootOf(l)]
  IN  CASE HeightOf(l) = h -> c
        [] HeightOf(l) = h + 1 -> FollowOn(d, c, l, h)
        [] HeightOf(l) = h + 2 ->
             FollowOn(d, FollowOn(d, c, l, h + 1), l, h)
        [] OTHER ->
             FollowOn(d, FollowOn(d, FollowOn(d, c, l, h + 2), l, h + 1), l, h)

\* What a reader finds at a logical cluster.
View(d, root, l) ==
  LET c == Walk(d, root, l, 0) IN IF c = 0 THEN Hole ELSE d[c]

\* Files is what the walks of Resolve find.
LEMMA FilesAre ==
  /\ Files = [i \in Inode |-> [l \in Logical |-> View(disk, index[i].root, l)]]
  /\ Files' =
       [i \in Inode |-> [l \in Logical |-> View(disk', index'[i].root, l)]]
<1>1. ASSUME NEW i \in Inode, NEW l \in Logical
      PROVE  /\ ReadCluster(index[i].root, l) = View(disk, index[i].root, l)
             /\ ReadCluster(index[i].root, l)' = View(disk', index'[i].root, l)
  BY HeightType DEF ReadCluster, Resolve, View, Walk, Follow, FollowOn, Height
<1>. QED  BY <1>1 DEF Files

\* The walk starts in the inode and goes down one height at a time.
LEMMA WalkSteps ==
  ASSUME NEW d, NEW root, NEW l
  PROVE  /\ Walk(d, root, l, HeightOf(l)) = root[RootOf(l)]
         /\ \A h \in 0 .. HeightOf(l) - 1 :
              Walk(d, root, l, h) = FollowOn(d, Walk(d, root, l, h + 1), l, h)
<1>1. HeightOf(l) \in 0 .. 3
  BY HeightType DEF Height
<1>. QED  BY <1>1 DEF Walk

--------------------------------------------------------------------------
(***************************************************************************)
(* The way to a logical cluster determines it.                             *)
(***************************************************************************)
LEMMA DivMod ==
  ASSUME NEW n \in Nat, NEW p \in Nat \ {0}
  PROVE  /\ n \div p \in Nat
         /\ n % p \in 0 .. p - 1
         /\ n = p * (n \div p) + (n % p)
OBVIOUS

\* A place in the digits to base p: at most one quotient and one remainder.
LEMMA OnePlace ==
  ASSUME NEW p \in Nat \ {0}, NEW l \in Nat, NEW m \in Nat,
         NEW s \in 0 .. p - 1, NEW t \in 0 .. p - 1, p * l + s = p * m + t
  PROVE  l = m /\ s = t
<1>1. ASSUME NEW a \in Nat, NEW b \in Nat, a < b
      PROVE  p * a + p <= p * b
  <2>1. PICK k \in Nat : b = a + 1 + k
    <3>1. b - a - 1 \in Nat /\ b = a + 1 + (b - a - 1)
      BY <1>1
    <3>. QED  BY <3>1
  <2>2. p * b = p * a + p + p * k
    BY <2>1
  <2>3. p * k \in Nat /\ p * a \in Nat
    OBVIOUS
  <2>. QED  BY <2>2, <2>3
<1>2. p * l \in Nat /\ p * m \in Nat
  OBVIOUS
<1>3. ~(l < m)
  BY <1>1, <1>2
<1>4. ~(m < l)
  BY <1>1, <1>2
<1>. QED  BY <1>3, <1>4

LEMMA SmallDivMod ==
  ASSUME NEW p \in Nat \ {0}, NEW a \in 0 .. p - 1
  PROVE  a \div p = 0 /\ a % p = a
<1>. DEFINE q == a \div p
            r == a % p
<1>1. a \in Nat
  OBVIOUS
<1>2. q \in Nat /\ r \in 0 .. p - 1 /\ a = p * q + r
  BY <1>1, DivMod
<1>. HIDE DEF q, r
<1>3. p * q + r = p * 0 + a
  BY <1>2
<1>. QED  BY <1>2, <1>3, OnePlace DEF q, r

LEMMA DivBound ==
  ASSUME NEW p \in Nat \ {0}, NEW k \in Nat, NEW a \in Nat, a < p * k
  PROVE  a \div p \in 0 .. k - 1
<1>. DEFINE q == a \div p
<1>1. q \in Nat /\ p * q <= a
  BY DivMod
<1>. HIDE DEF q
<1>2. ASSUME k <= q PROVE FALSE
  <2>1. PICK m \in Nat : q = k + m
    <3>1. q - k \in Nat /\ q = k + (q - k)
      BY <1>1, <1>2
    <3>. QED  BY <3>1
  <2>2. p * q = p * k + p * m /\ p * m \in Nat /\ p * k \in Nat
    BY <2>1
  <2>. QED  BY <1>1, <2>2
<1>. QED  BY <1>1, <1>2 DEF q

LEMMA DivDiv ==
  ASSUME NEW p \in Nat \ {0}, NEW a \in Nat
  PROVE  a \div (p * p) = (a \div p) \div p
<1>. DEFINE q == a \div p
            r == a % p
            q2 == q \div p
            r2 == q % p
            b == a \div (p * p)
            c == a % (p * p)
<1>1. q \in Nat /\ r \in 0 .. p - 1 /\ a = p * q + r
  BY DivMod
<1>2. p * p \in Nat \ {0}
  OBVIOUS
<1>3. b \in Nat /\ c \in 0 .. p * p - 1 /\ a = (p * p) * b + c
  BY <1>2, DivMod
<1>. HIDE DEF q, r, b, c
<1>4. q2 \in Nat /\ r2 \in 0 .. p - 1 /\ q = p * q2 + r2
  BY <1>1, DivMod
<1>. HIDE DEF q2, r2
<1>5. a = (p * p) * q2 + (p * r2 + r)
  BY <1>1, <1>4
<1>6. p * r2 + r \in 0 .. p * p - 1
  <2>1. PICK k \in Nat : p - 1 = r2 + k
    <3>1. p - 1 - r2 \in Nat /\ p - 1 = r2 + (p - 1 - r2)
      BY <1>4
    <3>. QED  BY <3>1
  <2>2. p * p = p + p * (r2 + k)
    BY <2>1
  <2>3. p * p = p + p * r2 + p * k /\ p * k \in Nat /\ p * r2 \in Nat
    BY <2>1, <2>2, <1>4
  <2>. QED  BY <1>1, <2>3
<1>7. b = q2
  BY <1>2, <1>3, <1>4, <1>5, <1>6, OnePlace
<1>. QED  BY <1>7 DEF b, q2, q

LEMMA SameDigits ==
  ASSUME NEW p \in Nat \ {0}, NEW a \in Nat, NEW b \in Nat,
         a \div p = b \div p, a % p = b % p
  PROVE  a = b
BY DivMod

\* How far a logical cluster is behind the first one of its tree.
LEMMA OffsetType ==
  ASSUME NEW l \in 0 .. Capacity - 1
  PROVE  LET p == PointersPerCluster
             a == l - Before(HeightOf(l))
         IN  /\ HeightOf(l) = 1 => a \in 0 .. p - 1
             /\ HeightOf(l) = 2 => a \in Nat /\ a < p * p
             /\ HeightOf(l) = 3 => a \in Nat /\ a < p * (p * p)
<1>. DEFINE p == PointersPerCluster
<1>1. p \in Nat \ {0} /\ p * p \in Nat /\ p * p * p = p * (p * p)
      /\ p * (p * p) \in Nat
  BY SizesAssumption
<1>. QED  BY <1>1, SizesAssumption DEF HeightOf, Before, Capacity

LEMMA PathUnique ==
  ASSUME NEW l \in 0 .. Capacity - 1, NEW m \in 0 .. Capacity - 1,
         RootOf(l) = RootOf(m), HeightOf(l) = HeightOf(m),
         \A k \in 0 .. HeightOf(l) - 1 : SlotOf(l, k) = SlotOf(m, k)
  PROVE  l = m
<1>. DEFINE p == PointersPerCluster
            a == l - Before(HeightOf(l))
            b == m - Before(HeightOf(m))
<1>1. p \in Nat \ {0} /\ p * p \in Nat \ {0}
  BY SizesAssumption
<1>2. HeightOf(l) \in 0 .. 3 /\ Before(HeightOf(l)) \in Nat
  BY HeightType, BeforeType DEF Height
<1>3. l \in Nat /\ m \in Nat
  OBVIOUS
<1>4. a = b => l = m
  BY <1>2, <1>3
<1>5. /\ HeightOf(l) = 1 => a \in 0 .. p - 1 /\ b \in 0 .. p - 1
      /\ HeightOf(l) = 2 => a \in Nat /\ b \in Nat /\ a < p * p /\ b < p * p
      /\ HeightOf(l) = 3 => /\ a \in Nat /\ b \in Nat
                            /\ a < p * (p * p) /\ b < p * (p * p)
  BY OffsetType
<1>6. \A k \in 0 .. HeightOf(l) - 1 : (a \div Span(k)) % p = (b \div Span(k)) % p
  BY DEF SlotOf
<1>. HIDE DEF a, b, p
<1>7. Span(0) = 1 /\ Span(1) = p /\ Span(2) = p * p
  BY DEF Span, p
<1>8. HeightOf(l) > 0 /\ a \in Nat /\ b \in Nat => a % p = b % p
  <2>1. \A n \in Nat : n \div 1 = n
    OBVIOUS
  <2>2. HeightOf(l) > 0 => 0 \in 0 .. HeightOf(l) - 1
    BY <1>2
  <2>. QED  BY <1>6, <1>7, <2>1, <2>2
<1>9. CASE HeightOf(l) = 0
  BY <1>9 DEF RootOf
<1>10. CASE HeightOf(l) = 1
  <2>1. a \in 0 .. p - 1 /\ b \in 0 .. p - 1 /\ a \in Nat /\ b \in Nat
    BY <1>1, <1>5, <1>10
  <2>2. a % p = a /\ b % p = b
    BY <1>1, <2>1, SmallDivMod
  <2>. QED  BY <1>4, <1>8, <1>10, <2>1, <2>2
<1>11. CASE HeightOf(l) = 2
  <2>1. a \in Nat /\ b \in Nat /\ a < p * p /\ b < p * p
    BY <1>5, <1>11
  <2>2. a \div p \in 0 .. p - 1 /\ b \div p \in 0 .. p - 1
    BY <1>1, <2>1, DivBound
  <2>3. (a \div p) % p = a \div p /\ (b \div p) % p = b \div p
    BY <1>1, <2>2, SmallDivMod
  <2>4. (a \div p) % p = (b \div p) % p
    BY <1>6, <1>7, <1>11
  <2>5. a \div p = b \div p /\ a % p = b % p
    BY <1>8, <1>11, <2>1, <2>3, <2>4
  <2>. QED  BY <1>1, <1>4, <2>1, <2>5, SameDigits
<1>12. CASE HeightOf(l) = 3
  <2>. DEFINE c == a \div p
              d == b \div p
  <2>1. a \in Nat /\ b \in Nat /\ a < p * (p * p) /\ b < p * (p * p)
    BY <1>5, <1>12
  <2>2. c \in 0 .. p * p - 1 /\ d \in 0 .. p * p - 1
    BY <1>1, <2>1, DivBound
  <2>3. a \div (p * p) = c \div p /\ b \div (p * p) = d \div p
    BY <1>1, <2>1, DivDiv
  <2>4. c % p = d % p /\ (c \div p) % p = (d \div p) % p
    BY <1>6, <1>7, <1>12, <2>3
  <2>5. c = d => a = b
    <3>1. a % p = b % p
      BY <1>8, <1>12, <2>1
    <3>. QED  BY <1>1, <2>1, <3>1, SameDigits
  <2>. HIDE DEF c, d
  <2>. c \in Nat /\ d \in Nat /\ c < p * p /\ d < p * p
    BY <1>1, <2>2
  <2>6. c \div p \in 0 .. p - 1 /\ d \div p \in 0 .. p - 1
    BY <1>1, <2>2, DivBound
  <2>7. (c \div p) % p = c \div p /\ (d \div p) % p = d \div p
    BY <1>1, <2>6, SmallDivMod
  <2>8. c = d
    BY <1>1, <2>2, <2>4, <2>7, SameDigits
  <2>. QED  BY <1>4, <2>5, <2>8
<1>. QED  BY <1>2, <1>9, <1>10, <1>11, <1>12

--------------------------------------------------------------------------
(***************************************************************************)
(* Walks from the pointers the program may follow.                         *)
(***************************************************************************)
\* What holds at the top and goes on downwards holds at every height.
LEMMA Downwards ==
  ASSUME NEW H \in 0 .. 3, NEW T, H \in T,
         \A h \in 0 .. H - 1 : h + 1 \in T => h \in T
  PROVE  \A h \in 0 .. H : h \in T
<1>1. H >= 1 => H - 1 \in T
  OBVIOUS
<1>2. H >= 2 => H - 2 \in T
  BY <1>1
<1>3. H >= 3 => H - 3 \in T
  BY <1>2
<1>. QED  BY <1>1, <1>2, <1>3

\* A walk stays in the disk, and what it meets is in use at its height.
LEMMA WalkSound ==
  ASSUME IInv, NEW i \in Inode, NEW l \in Nat
  PROVE  \A h \in 0 .. HeightOf(l) :
           LET c == Walk(disk, LiveRoot(i), l, h)
           IN  /\ c \in Cluster
               /\ c # 0 => c \in used \ Reserved /\ level[c] = h
<1>. DEFINE W(h) == Walk(disk, LiveRoot(i), l, h)
            H == HeightOf(l)
            T == {h \in 0 .. H : /\ W(h) \in Cluster
                                 /\ W(h) # 0 => /\ W(h) \in used \ Reserved
                                                /\ level[W(h)] = h}
<1>1. H \in 0 .. 3 /\ 0 \in Cluster
  BY HeightType, SizesAssumption DEF Height, Cluster
<1>2. /\ W(H) = LiveRoot(i)[RootOf(l)]
      /\ \A h \in 0 .. H - 1 : W(h) = FollowOn(disk, W(h + 1), l, h)
  BY WalkSteps
<1>3. RootOf(l) \in Root /\ RootHeight(RootOf(l)) = H
  BY RootFits
<1>4. LiveRoot(i) \in [Root -> Cluster]
  BY DEF IInv, TypeOK, LiveRoot
<1>. HIDE DEF W, H
<1>5. H \in T
  BY <1>1, <1>2, <1>3, <1>4 DEF IInv, PointersSound
<1>6. ASSUME NEW h \in 0 .. H - 1, h + 1 \in T
      PROVE  h \in T
  <2>1. h \in 0 .. H /\ h \in Height /\ h + 1 > 0 /\ h + 1 - 1 = h
    BY <1>1 DEF Height
  <2>2. CASE W(h + 1) = 0
    BY <1>1, <1>2, <2>1, <2>2 DEF FollowOn
  <2>3. CASE W(h + 1) # 0
    <3>1. W(h + 1) \in PointerBlocks /\ level[W(h + 1)] = h + 1
      BY <1>6, <2>1, <2>3 DEF PointerBlocks
    <3>2. W(h) = disk[W(h + 1)][SlotOf(l, h)] /\ SlotOf(l, h) \in Slot
      BY <1>2, <2>1, <2>3, SlotType DEF FollowOn
    <3>3. W(h) \in used => W(h) \in Cluster
      BY DEF IInv, TypeOK
    <3>. QED  BY <1>1, <2>1, <3>1, <3>2, <3>3 DEF IInv, PointersSound
  <2>. QED  BY <2>2, <2>3
<1>. HIDE DEF T
<1>7. \A h \in 0 .. H : h \in T
  BY <1>1, <1>5, <1>6, Downwards
<1>. QED  BY <1>7 DEF T, W, H

\* The pointer blocks a walk passes.
LEMMA WalkBlocks ==
  ASSUME IInv, NEW i \in Inode, NEW l \in Nat, NEW h \in 0 .. HeightOf(l) - 1,
         Walk(disk, LiveRoot(i), l, h + 1) # 0
  PROVE  /\ Walk(disk, LiveRoot(i), l, h + 1) \in PointerBlocks
         /\ level[Walk(disk, LiveRoot(i), l, h + 1)] = h + 1
         /\ SlotOf(l, h) \in Slot
<1>1. HeightOf(l) \in 0 .. 3
  BY HeightType DEF Height
<1>2. h + 1 \in 0 .. HeightOf(l) /\ h \in Height /\ h + 1 > 0
  BY <1>1 DEF Height
<1>. QED  BY <1>2, WalkSound, SlotType DEF PointerBlocks

\* A cluster has one owner: two walks that meet at it came the same way.
LEMMA WalkOwner ==
  ASSUME IInv, NEW i \in Inode, NEW j \in Inode, NEW l \in Nat, NEW m \in Nat
  PROVE  \A h \in 0 .. HeightOf(l) :
           /\ h <= HeightOf(m)
           /\ Walk(disk, LiveRoot(i), l, h) # 0
           /\ Walk(disk, LiveRoot(i), l, h) = Walk(disk, LiveRoot(j), m, h)
           => /\ i = j /\ RootOf(l) = RootOf(m) /\ HeightOf(l) = HeightOf(m)
              /\ \A k \in h .. HeightOf(l) - 1 : SlotOf(l, k) = SlotOf(m, k)
<1>. DEFINE V(h) == Walk(disk, LiveRoot(i), l, h)
            W(h) == Walk(disk, LiveRoot(j), m, h)
            H == HeightOf(l)
            K == HeightOf(m)
            Same(h) == /\ i = j /\ RootOf(l) = RootOf(m) /\ H = K
                       /\ \A k \in h .. H - 1 : SlotOf(l, k) = SlotOf(m, k)
            T == {h \in 0 .. H : h <= K /\ V(h) # 0 /\ V(h) = W(h) => Same(h)}
<1>1. H \in 0 .. 3 /\ K \in 0 .. 3
  BY HeightType DEF Height
<1>2. /\ V(H) = LiveRoot(i)[RootOf(l)]
      /\ \A h \in 0 .. H - 1 : V(h) = FollowOn(disk, V(h + 1), l, h)
      /\ W(K) = LiveRoot(j)[RootOf(m)]
      /\ \A h \in 0 .. K - 1 : W(h) = FollowOn(disk, W(h + 1), m, h)
  BY WalkSteps
<1>3. /\ RootOf(l) \in Root /\ RootHeight(RootOf(l)) = H
      /\ RootOf(m) \in Root /\ RootHeight(RootOf(m)) = K
  BY RootFits
<1>4. /\ \A h \in 0 .. H - 1 : V(h + 1) # 0 =>
           V(h + 1) \in PointerBlocks /\ SlotOf(l, h) \in Slot
      /\ \A h \in 0 .. K - 1 : W(h + 1) # 0 =>
           W(h + 1) \in PointerBlocks /\ SlotOf(m, h) \in Slot
  BY WalkBlocks
<1>. HIDE DEF V, W, H, K
<1>5. /\ LiveRoot(i)[RootOf(l)] # 0
           /\ LiveRoot(i)[RootOf(l)] = LiveRoot(j)[RootOf(m)]
         => i = j /\ RootOf(l) = RootOf(m)
      /\ \A b \in PointerBlocks, s \in Slot :
           /\ LiveRoot(i)[RootOf(l)] # 0
                => LiveRoot(i)[RootOf(l)] # disk[b][s]
           /\ LiveRoot(j)[RootOf(m)] # 0
                => LiveRoot(j)[RootOf(m)] # disk[b][s]
      /\ \A a, b \in PointerBlocks, s, t \in Slot :
           disk[a][s] # 0 /\ disk[a][s] = disk[b][t] => a = b /\ s = t
  BY <1>3 DEF IInv, SingleOwner
<1>6. H \in T
  <2>. SUFFICES ASSUME H <= K, V(H) # 0, V(H) = W(H)
                PROVE  Same(H)
    BY <1>1
  <2>1. CASE H = K
    <3>1. W(H) = W(K)
      BY <2>1
    <3>2. i = j /\ RootOf(l) = RootOf(m)
      BY <1>2, <1>5, <3>1
    <3>3. \A k \in H .. H - 1 : FALSE
      BY <1>1
    <3>. QED  BY <2>1, <3>2, <3>3
  <2>2. CASE H # K
    <3>1. H \in 0 .. K - 1
      BY <1>1, <2>2
    <3>2. W(H + 1) # 0 /\ W(H) = disk[W(H + 1)][SlotOf(m, H)]
      BY <1>2, <3>1 DEF FollowOn
    <3>3. W(H + 1) \in PointerBlocks /\ SlotOf(m, H) \in Slot
      BY <1>4, <3>1, <3>2
    <3>. QED  BY <1>2, <1>5, <3>2, <3>3
  <2>. QED  BY <2>1, <2>2
<1>7. ASSUME NEW h \in 0 .. H - 1, h + 1 \in T
      PROVE  h \in T
  <2>. SUFFICES ASSUME h <= K, V(h) # 0, V(h) = W(h)
                PROVE  Same(h)
    BY <1>1
  <2>1. /\ V(h + 1) # 0 /\ V(h) = disk[V(h + 1)][SlotOf(l, h)]
        /\ V(h + 1) \in PointerBlocks /\ SlotOf(l, h) \in Slot
    BY <1>2, <1>4 DEF FollowOn
  <2>2. CASE h = K
    <3>1. W(h) = W(K)
      BY <2>2
    <3>2. LiveRoot(j)[RootOf(m)] = disk[V(h + 1)][SlotOf(l, h)]
      BY <1>2, <2>1, <3>1
    <3>3. LiveRoot(j)[RootOf(m)] # 0
      BY <1>2, <3>1
    <3>. QED  BY <1>5, <2>1, <3>2, <3>3
  <2>3. CASE h # K
    <3>1. h \in 0 .. K - 1
      BY <1>1, <2>3
    <3>2. /\ W(h + 1) # 0 /\ W(h) = disk[W(h + 1)][SlotOf(m, h)]
          /\ W(h + 1) \in PointerBlocks /\ SlotOf(m, h) \in Slot
      BY <1>2, <1>4, <3>1 DEF FollowOn
    <3>3. V(h + 1) = W(h + 1) /\ SlotOf(l, h) = SlotOf(m, h)
      <4>1. disk[V(h + 1)][SlotOf(l, h)] = disk[W(h + 1)][SlotOf(m, h)]
            /\ disk[V(h + 1)][SlotOf(l, h)] # 0
        BY <2>1, <3>2
      <4>. QED  BY <1>5, <2>1, <3>2, <4>1
    <3>4. Same(h + 1)
      BY <1>1, <1>7, <2>1, <3>1, <3>3
    <3>. QED  BY <1>1, <3>3, <3>4
  <2>. QED  BY <2>2, <2>3
<1>. HIDE DEF T
<1>8. \A h \in 0 .. H : h \in T
  BY <1>1, <1>6, <1>7, Downwards
<1>. QED  BY <1>8 DEF T, V, W, H, K

\* The same with all of the walk: a data cluster belongs to one logical
\* cluster of one inode.
LEMMA DataOwner ==
  ASSUME IInv, NEW i \in Inode, NEW j \in Inode,
         NEW l \in 0 .. Capacity - 1, NEW m \in 0 .. Capacity - 1,
         Walk(disk, LiveRoot(i), l, 0) # 0,
         Walk(disk, LiveRoot(i), l, 0) = Walk(disk, LiveRoot(j), m, 0)
  PROVE  i = j /\ l = m
<1>1. HeightOf(l) \in 0 .. 3 /\ HeightOf(m) \in 0 .. 3 /\ l \in Nat /\ m \in Nat
  BY HeightType DEF Height
<1>2. /\ i = j /\ RootOf(l) = RootOf(m) /\ HeightOf(l) = HeightOf(m)
      /\ \A k \in 0 .. HeightOf(l) - 1 : SlotOf(l, k) = SlotOf(m, k)
  BY <1>1, WalkOwner
<1>. QED  BY <1>2, PathUnique

--------------------------------------------------------------------------
(***************************************************************************)
(* What the invariant of the allocator does not say of a call in progress. *)
(***************************************************************************)
\* Word s of logical cluster l is among the first n words of the call.
Covers(n, l, s) ==
  LET o == l * PointersPerCluster + s IN call.off <= o /\ o < call.off + n

\* The block under the cursor lies on the way to the next logical cluster.
CursorOnWay ==
  at.block # 0 =>
    /\ at.height < HeightOf(LogicalIndex)
    /\ at.block = Walk(disk, call.root, LogicalIndex, at.height + 1)

\* What hangs below the pointers that only the copy has holds zeros and words
\* of the call, in their places, and was made for a word of the call.
NewWordsOwn ==
  \A l \in Logical :
    LET seen == View(disk, call.root, l)
    IN  index[call.inode].root[RootOf(l)] = 0 /\ seen # Hole =>
          /\ \E s \in Slot : Covers(call.len, l, s)
          /\ \A s \in Slot :
               seen[s] = 0 \/ (Covers(call.len, l, s) /\ seen[s] = call.word)

\* What the call has counted as done can be read through its copy.
DoneWordsStored ==
  \A l \in Logical, s \in Slot :
    LET seen == View(disk, call.root, l)
    IN  Covers(call.done, l, s) => seen # Hole /\ seen[s] = call.word

CopySound ==
  ~Idle => /\ call.off + call.len <= PointersPerCluster * Capacity
           /\ CursorOnWay
           /\ NewWordsOwn
           /\ DoneWordsStored

--------------------------------------------------------------------------
(***************************************************************************)
(* What a change of the disk or of an inode does to the walks.             *)
(***************************************************************************)
\* Of the inode only the pointer at which the walk starts counts.
LEMMA WalkRoot ==
  ASSUME NEW d, NEW root, NEW new, NEW l, NEW h \in 0 .. HeightOf(l)
  PROVE  /\ root[RootOf(l)] = 0 => Walk(d, root, l, h) = 0
         /\ root[RootOf(l)] = new[RootOf(l)] =>
              Walk(d, root, l, h) = Walk(d, new, l, h)
<1>1. HeightOf(l) \in 0 .. 3
  BY HeightType DEF Height
<1>. QED  BY <1>1 DEF Walk, FollowOn

\* The index has no pointer that the copy of a call has not.
LEMMA IndexWalk ==
  ASSUME IInv, NEW i \in Inode, NEW l \in Nat
  PROVE  \/ index[i].root[RootOf(l)] = 0
         \/ index[i].root[RootOf(l)] = LiveRoot(i)[RootOf(l)]
BY RootFits DEF IInv, CursorSound, LiveRoot

LEMMA IndexView ==
  ASSUME IInv, NEW i \in Inode, NEW l \in Nat, NEW d
  PROVE  View(d, index[i].root, l) =
           IF index[i].root[RootOf(l)] = 0 THEN Hole
           ELSE View(d, LiveRoot(i), l)
<1>1. 0 \in 0 .. HeightOf(l)
  BY HeightType DEF Height
<1>2. CASE index[i].root[RootOf(l)] = 0
  <2>1. Walk(d, index[i].root, l, 0) = 0
    BY <1>1, <1>2, WalkRoot
  <2>. QED  BY <1>2, <2>1 DEF View
<1>3. CASE index[i].root[RootOf(l)] # 0
  <2>1. Walk(d, index[i].root, l, 0) = Walk(d, LiveRoot(i), l, 0)
    BY <1>1, <1>3, IndexWalk, WalkRoot
  <2>. QED  BY <1>3, <2>1 DEF View
<1>. QED  BY <1>2, <1>3

\* A walk reads pointer blocks only.
LEMMA WalkKept ==
  ASSUME IInv, NEW i \in Inode, NEW l \in Nat, NEW d,
         \A b \in PointerBlocks : d[b] = disk[b]
  PROVE  \A h \in 0 .. HeightOf(l) :
           Walk(d, LiveRoot(i), l, h) = Walk(disk, LiveRoot(i), l, h)
<1>. DEFINE V(h) == Walk(d, LiveRoot(i), l, h)
            W(h) == Walk(disk, LiveRoot(i), l, h)
            H == HeightOf(l)
            T == {h \in 0 .. H : V(h) = W(h)}
<1>1. H \in 0 .. 3
  BY HeightType DEF Height
<1>2. /\ V(H) = W(H)
      /\ \A h \in 0 .. H - 1 : V(h) = FollowOn(d, V(h + 1), l, h)
      /\ \A h \in 0 .. H - 1 : W(h) = FollowOn(disk, W(h + 1), l, h)
  BY WalkSteps
<1>3. \A h \in 0 .. H - 1 : W(h + 1) # 0 => W(h + 1) \in PointerBlocks
  BY WalkBlocks
<1>. HIDE DEF V, W, H
<1>4. H \in T
  BY <1>1, <1>2
<1>5. ASSUME NEW h \in 0 .. H - 1, h + 1 \in T
      PROVE  h \in T
  <2>1. V(h + 1) = W(h + 1) /\ h \in 0 .. H
    BY <1>1, <1>5
  <2>2. FollowOn(d, W(h + 1), l, h) = FollowOn(disk, W(h + 1), l, h)
    BY <1>3 DEF FollowOn
  <2>. QED  BY <1>2, <2>1, <2>2
<1>. HIDE DEF T
<1>6. \A h \in 0 .. H : h \in T
  BY <1>1, <1>4, <1>5, Downwards
<1>. QED  BY <1>6 DEF T, V, W, H

\* Overwriting a free cluster changes no walk and nothing a walk leads to.
LEMMA FreeOverwritten ==
  ASSUME IInv, NEW c \in Free, NEW d, \A b \in Cluster \ {c} : d[b] = disk[b],
         NEW i \in Inode, NEW l \in Nat
  PROVE  /\ \A h \in 0 .. HeightOf(l) :
              Walk(d, LiveRoot(i), l, h) = Walk(disk, LiveRoot(i), l, h)
         /\ LET w == Walk(disk, LiveRoot(i), l, 0)
            IN  w # 0 => w # c /\ d[w] = disk[w]
         /\ View(d, LiveRoot(i), l) = View(disk, LiveRoot(i), l)
<1>1. c \notin used /\ c \notin PointerBlocks
  BY FreeFits
<1>2. PointerBlocks \subseteq Cluster
  BY DEF IInv, TypeOK, PointerBlocks
<1>3. \A h \in 0 .. HeightOf(l) :
        Walk(d, LiveRoot(i), l, h) = Walk(disk, LiveRoot(i), l, h)
  BY <1>1, <1>2, WalkKept
<1>4. 0 \in 0 .. HeightOf(l)
  BY HeightType DEF Height
<1>5. LET w == Walk(disk, LiveRoot(i), l, 0) IN w # 0 => w # c /\ d[w] = disk[w]
  BY <1>1, <1>4, WalkSound DEF IInv, TypeOK
<1>. QED  BY <1>3, <1>4, <1>5 DEF View

--------------------------------------------------------------------------
(***************************************************************************)
(* The steps of FileStore, in terms of what the walks find.                *)
(***************************************************************************)
Seen(i, l) == View(disk, index[i].root, l)

\* What the call may make of a logical cluster of its file.
PartlyWritten(old, l, new) ==
  \/ new = old
  \/ /\ \E s \in Slot : Covers(call.len, l, s)
     /\ new # Hole
     /\ \A s \in Slot :
          \/ new[s] = (IF old = Hole THEN 0 ELSE old[s])
          \/ Covers(call.len, l, s) /\ new[s] = call.word

LEMMA SeenFiles ==
  /\ Files = [i \in Inode |-> [l \in Logical |-> Seen(i, l)]]
  /\ Files' = [i \in Inode |-> [l \in Logical |-> Seen(i, l)']]
BY FilesAre DEF Seen

LEMMA PartialMeans ==
  ASSUME NEW old, NEW l, NEW new
  PROVE  PartlyWritten(old, l, new) <=> Abstract!Partial(old, l, new)
BY DEF PartlyWritten, Covers, Abstract!Partial, Abstract!Touched,
       Abstract!InExtent, Abstract!Slot, Slot, Writer

LEMMA StutterStep ==
  ASSUME UNCHANGED <<call, ret>>,
         \A i \in Inode, l \in Logical : Seen(i, l)' = Seen(i, l)
  PROVE  UNCHANGED Abstract!vars
<1>1. Files' = Files
  BY SeenFiles
<1>. QED  BY <1>1 DEF Abstract!vars, Writer

LEMMA FilesOf ==
  ASSUME NEW i \in Inode,
         \A j \in Inode \ {i}, l \in Logical : Seen(j, l)' = Seen(j, l)
  PROVE  /\ Files[i] = [l \in Logical |-> Seen(i, l)]
         /\ Files'[i] = [l \in Logical |-> Seen(i, l)']
         /\ \A j \in Inode \ {i} : Files'[j] = Files[j]
BY SeenFiles

LEMMA ProgressStep ==
  ASSUME ~Idle, NEW i \in Inode, i = call.inode, ret' = ret,
         call'.inode = call.inode, call'.off = call.off,
         call'.len = call.len, call'.word = call.word,
         \A j \in Inode \ {i}, l \in Logical : Seen(j, l)' = Seen(j, l),
         \A l \in Logical :
           PartlyWritten(Seen(i, l), l, Seen(i, l)')
  PROVE  Abstract!Progress
<1>1. /\ Files[i] = [l \in Logical |-> Seen(i, l)]
      /\ Files'[i] = [l \in Logical |-> Seen(i, l)']
      /\ \A j \in Inode \ {i} : Files'[j] = Files[j]
  BY FilesOf
<1>2. \A l \in Logical :
        Abstract!Partial(Files[i][l], l, Files'[i][l])
  BY <1>1, PartialMeans
<1>3. Writer.inode = i /\ Writer' = Writer
  BY DEF Writer
<1>. QED
  BY <1>1, <1>2, <1>3
  DEF Abstract!Progress, Abstract!NoInode, Abstract!Inode, Inode, Idle, NoInode

LEMMA EndStep ==
  ASSUME ~Idle, NEW i \in Inode, i = call.inode, call' = NoCall,
         ret' \in {"ok", "no_space", "io_error"},
         \A j \in Inode \ {i}, l \in Logical : Seen(j, l)' = Seen(j, l),
         \/ /\ ret' # "ok"
            /\ \A l \in Logical : Seen(i, l)' = Hole
         \/ \A l \in Logical :
              LET new == Seen(i, l)'
              IN  /\ PartlyWritten(Seen(i, l), l, new)
                  /\ ret' = "ok" =>
                       \A s \in Slot : Covers(call.len, l, s) =>
                         new # Hole /\ new[s] = call.word
  PROVE  Abstract!End
<1>1. /\ Files[i] = [l \in Logical |-> Seen(i, l)]
      /\ Files'[i] = [l \in Logical |-> Seen(i, l)']
      /\ \A j \in Inode \ {i} : Files'[j] = Files[j]
  BY FilesOf
<1>2. /\ Writer.inode = i /\ Writer'.inode = NoInode
      /\ Abstract!NoInode = NoInode /\ Abstract!Inode = Inode
  BY DEF Writer, NoCall, Abstract!NoInode, Abstract!Inode, Inode, NoInode
<1>3. CASE ret' # "ok" /\ \A l \in Logical : Seen(i, l)' = Hole
  <2>1. Files'[i] = Abstract!Nothing
    BY <1>1, <1>3 DEF Abstract!Nothing
  <2>. QED  BY <1>1, <1>2, <1>3, <2>1 DEF Abstract!End, Idle
<1>4. CASE \A l \in Logical :
             LET new == Seen(i, l)'
             IN  /\ PartlyWritten(Seen(i, l), l, new)
                 /\ ret' = "ok" =>
                      \A s \in Slot : Covers(call.len, l, s) =>
                        new # Hole /\ new[s] = call.word
  <2>1. ASSUME NEW l \in Logical
        PROVE  /\ Abstract!Partial(Files[i][l], l, Files'[i][l])
               /\ ret' = "ok" => Abstract!Complete(l, Files'[i][l])
    <3>1. /\ Files[i][l] = Seen(i, l)
          /\ Files'[i][l] = Seen(i, l)'
      BY <1>1
    <3>2. Abstract!Partial(Files[i][l], l, Files'[i][l])
      BY <1>4, <3>1, PartialMeans
    <3>3. \A s \in Slot : Abstract!InExtent(l, s) <=> Covers(call.len, l, s)
      BY DEF Abstract!InExtent, Covers, Writer
    <3>4. ret' = "ok" => Abstract!Complete(l, Files'[i][l])
      BY <1>4, <3>1, <3>3
      DEF Abstract!Complete, Abstract!Touched, Abstract!Slot, Slot, Writer
    <3>. QED  BY <3>2, <3>4
  <2>. QED  BY <1>1, <1>2, <2>1 DEF Abstract!End, Idle
<1>. QED  BY <1>3, <1>4

\* The file of inode i is emptied, or was already.
LEMMA EmptiedFiles ==
  ASSUME NEW i \in Inode,
         \A l \in Logical : Seen(i, l)' = Hole,
         \A j \in Inode \ {i}, l \in Logical : Seen(j, l)' = Seen(j, l)
  PROVE  Files' = [Files EXCEPT ![i] = Abstract!Nothing]
BY SeenFiles DEF Abstract!Nothing

LEMMA ResetStep ==
  ASSUME Idle, UNCHANGED call, ret' = "ok", NEW i \in Inode,
         \A l \in Logical : Seen(i, l)' = Hole,
         \A j \in Inode \ {i}, l \in Logical : Seen(j, l)' = Seen(j, l)
  PROVE  Abstract!Reset
BY EmptiedFiles
DEF Abstract!Reset, Abstract!Inode, Inode, Abstract!NoInode, NoInode, Writer, Idle

LEMMA BeginStep ==
  ASSUME Idle, ret' = "none", NEW i \in Inode, call'.inode = i,
         \/ \A l \in Logical : Seen(i, l)' = Seen(i, l)
         \/ \A l \in Logical : Seen(i, l)' = Hole,
         \A j \in Inode \ {i}, l \in Logical : Seen(j, l)' = Seen(j, l)
  PROVE  Abstract!Begin
<1>1. CASE \A l \in Logical : Seen(i, l)' = Seen(i, l)
  <2>1. \A j \in Inode, l \in Logical : Seen(j, l)' = Seen(j, l)
    BY <1>1
  <2>2. Files' = Files
    BY <2>1, SeenFiles
  <2>. QED
    BY <2>2 DEF Abstract!Begin, Abstract!Inode, Inode, Abstract!NoInode, NoInode,
                Writer, Idle
<1>2. CASE \A l \in Logical : Seen(i, l)' = Hole
  <2>1. Files' = [Files EXCEPT ![i] = Abstract!Nothing]
    BY <1>2, EmptiedFiles
  <2>. QED
    BY <2>1 DEF Abstract!Begin, Abstract!Inode, Inode, Abstract!NoInode, NoInode,
                Writer, Idle
<1>. QED  BY <1>1, <1>2

--------------------------------------------------------------------------
(***************************************************************************)
(* The steps of a call.                                                    *)
(***************************************************************************)
\* Where a walking call stands.
LEMMA CallFacts ==
  ASSUME IInv, CopySound, Walking
  PROVE  /\ call.inode \in Inode /\ LiveRoot(call.inode) = call.root
         /\ LogicalIndex \in 0 .. Capacity - 1
         /\ at.height \in 0 .. HeightOf(LogicalIndex)
         /\ Pointer = Walk(disk, call.root, LogicalIndex, at.height)
         /\ Offset \in Slot
         /\ call.off + call.done = LogicalIndex * PointersPerCluster + Offset
<1>. DEFINE p == PointersPerCluster
<1>1. /\ call.inode \in Inode /\ LiveRoot(call.inode) = call.root
      /\ call.off \in Nat /\ call.done \in Nat /\ call.len \in Nat
      /\ call.done < call.len
      /\ at.block \in Cluster /\ at.height \in Nat
  BY SizesAssumption
  DEF IInv, TypeOK, Walking, Idle, NoInode, Inode, LiveRoot, Height
<1>2. p \in Nat \ {0} /\ Capacity \in Nat
  <2>1. p \in Nat /\ p * p \in Nat /\ p * p * p \in Nat
    BY SizesAssumption
  <2>. QED  BY <2>1, SizesAssumption DEF Capacity
<1>3. call.off + call.done < p * Capacity
  <2>1. p * Capacity \in Nat
    BY <1>2
  <2>2. call.off + call.len <= p * Capacity
    BY DEF CopySound, Walking
  <2>. QED  BY <1>1, <2>1, <2>2
<1>4. LogicalIndex \in 0 .. Capacity - 1
  <2>1. call.off + call.done \in Nat
    BY <1>1
  <2>2. (call.off + call.done) \div p \in 0 .. Capacity - 1
    BY <1>2, <1>3, <2>1, DivBound
  <2>. QED  BY <2>2 DEF LogicalIndex
<1>5. /\ Offset \in Slot
      /\ call.off + call.done = LogicalIndex * p + Offset
  <2>. DEFINE n == call.off + call.done
  <2>1. n \in Nat
    BY <1>1
  <2>2. n % p \in 0 .. p - 1 /\ n = p * (n \div p) + (n % p) /\ n \div p \in Nat
    BY <1>2, <2>1, DivMod
  <2>. QED  BY <1>2, <2>2 DEF LogicalIndex, Offset, Slot
<1>6. HeightOf(LogicalIndex) \in 0 .. 3
  BY HeightType DEF Height
<1>7. CASE at.block = 0
  <2>1. at.height = HeightOf(LogicalIndex)
    BY <1>7 DEF IInv, CursorSound
  <2>2. Pointer = Walk(disk, call.root, LogicalIndex, at.height)
    BY <1>7, <2>1, WalkSteps DEF Pointer
  <2>. QED  BY <1>1, <1>4, <1>5, <1>6, <2>1, <2>2
<1>8. CASE at.block # 0
  <2>1. /\ at.height < HeightOf(LogicalIndex)
        /\ at.block = Walk(disk, call.root, LogicalIndex, at.height + 1)
    BY <1>8 DEF CopySound, Walking, CursorOnWay
  <2>2. at.height \in 0 .. HeightOf(LogicalIndex) - 1
    BY <1>1, <1>6, <2>1
  <2>3. Walk(disk, call.root, LogicalIndex, at.height)
          = FollowOn(disk, at.block, LogicalIndex, at.height)
    <3>1. Walk(disk, call.root, LogicalIndex, at.height)
            = FollowOn(disk, Walk(disk, call.root, LogicalIndex, at.height + 1),
                       LogicalIndex, at.height)
      BY <2>2, WalkSteps
    <3>. QED  BY <2>1, <3>1
  <2>. QED  BY <1>1, <1>4, <1>5, <1>6, <1>8, <2>2, <2>3 DEF FollowOn, Pointer
<1>. QED  BY <1>7, <1>8

LEMMA LogicalIn ==
  ASSUME NEW l \in Logical
  PROVE  l \in 0 .. Capacity - 1 /\ l \in Nat /\ 0 \in 0 .. HeightOf(l)
BY FilesAssumption, HeightType DEF Height

\* A call that goes on, having changed nothing but its own words.
LEMMA CallGoesOn ==
  ASSUME CopySound, ~Idle, index' = index,
         call'.inode = call.inode, call'.off = call.off,
         call'.len = call.len, call'.word = call.word,
         CursorOnWay',
         \A l \in Logical :
           PartlyWritten(View(disk, call.root, l), l, View(disk', call'.root, l)),
         \A l \in Logical, s \in Slot :
           Covers(call'.done, l, s) =>
             \/ Covers(call.done, l, s)
             \/ /\ View(disk', call'.root, l) # Hole
                /\ View(disk', call'.root, l)[s] = call.word
  PROVE  CopySound'
<1>1. \A n, l, s : Covers(n, l, s)' <=> Covers(n, l, s)
  BY DEF Covers
<1>2. NewWordsOwn'
  <2>. SUFFICES ASSUME NEW l \in Logical,
                       index[call.inode].root[RootOf(l)] = 0,
                       View(disk', call'.root, l) # Hole
                PROVE  /\ \E s \in Slot : Covers(call.len, l, s)
                       /\ \A s \in Slot :
                            \/ View(disk', call'.root, l)[s] = 0
                            \/ /\ Covers(call.len, l, s)
                               /\ View(disk', call'.root, l)[s] = call.word
    BY <1>1 DEF NewWordsOwn, Covers
  <2>1. View(disk, call.root, l) # Hole =>
          /\ \E s \in Slot : Covers(call.len, l, s)
          /\ \A s \in Slot :
               \/ View(disk, call.root, l)[s] = 0
               \/ /\ Covers(call.len, l, s)
                  /\ View(disk, call.root, l)[s] = call.word
    BY DEF CopySound, NewWordsOwn
  <2>. QED  BY <2>1 DEF PartlyWritten
<1>3. DoneWordsStored'
  <2>. SUFFICES ASSUME NEW l \in Logical, NEW s \in Slot,
                       Covers(call'.done, l, s)
                PROVE  /\ View(disk', call'.root, l) # Hole
                       /\ View(disk', call'.root, l)[s] = call.word
    BY <1>1 DEF DoneWordsStored, Covers
  <2>1. Covers(call.done, l, s) =>
          /\ View(disk, call.root, l) # Hole
          /\ View(disk, call.root, l)[s] = call.word
    BY DEF CopySound, DoneWordsStored
  <2>. QED  BY <2>1 DEF PartlyWritten
<1>4. call'.off + call'.len <= PointersPerCluster * Capacity
  BY DEF CopySound
<1>. QED  BY <1>2, <1>3, <1>4 DEF CopySound

\* Overwriting a free cluster does not show in any file.
LEMMA FreshSeen ==
  ASSUME IInv, NEW c \in Free, \A b \in Cluster \ {c} : disk'[b] = disk[b],
         index' = index
  PROVE  \A i \in Inode, l \in Logical : Seen(i, l)' = Seen(i, l)
<1>. SUFFICES ASSUME NEW i \in Inode, NEW l \in Logical
              PROVE  View(disk', index[i].root, l) = View(disk, index[i].root, l)
  BY DEF Seen
<1>1. l \in Nat
  BY LogicalIn
<1>2. View(disk', LiveRoot(i), l) = View(disk, LiveRoot(i), l)
  BY <1>1, FreeOverwritten
<1>. QED  BY <1>1, <1>2, IndexView

\* Below a pointer block of zeros there is nothing.
LEMMA ZeroBelow ==
  ASSUME NEW d, NEW root, NEW l \in Nat, HeightOf(l) # 0,
         root[RootOf(l)] # 0, d[root[RootOf(l)]] = Zeros
  PROVE  Walk(d, root, l, 0) = 0
<1>1. HeightOf(l) \in 1 .. 3
  BY HeightType DEF Height
<1>2. \A h \in Height : Zeros[SlotOf(l, h)] = 0
  BY SlotType DEF Zeros
<1>. QED  BY <1>1, <1>2 DEF Walk, FollowOn, Height

LEMMA AllocateRootFiles ==
  ASSUME IInv, CopySound, AllocateRoot
  PROVE  CopySound' /\ Abstract!Progress
<1>. DEFINE R == RootOf(LogicalIndex)
<1>1. PICK c \in Free :
        /\ disk' = [disk EXCEPT ![c] = Zeros]
        /\ call' = [call EXCEPT !.root[R] = c]
        /\ index' = index /\ at' = at /\ ret' = ret
        /\ Walking /\ at.block = 0 /\ Pointer = 0
  BY DEF AllocateRoot
<1>2. /\ call.inode \in Inode /\ LiveRoot(call.inode) = call.root
      /\ LogicalIndex \in 0 .. Capacity - 1 /\ LogicalIndex \in Nat
      /\ Offset \in Slot
      /\ call.off + call.done = LogicalIndex * PointersPerCluster + Offset
  BY <1>1, CallFacts
<1>3. /\ call'.inode = call.inode /\ call'.off = call.off
      /\ call'.len = call.len /\ call'.word = call.word
      /\ call'.done = call.done
      /\ call'.root = [call.root EXCEPT ![R] = c]
      /\ call.root \in [Root -> Cluster] /\ R \in Root
      /\ call.off \in Nat /\ call.done \in Nat /\ call.len \in Nat
      /\ call.done < call.len
  BY <1>1, <1>2, RootFits DEF IInv, TypeOK, Walking
<1>4. /\ c # 0 /\ c \in Cluster /\ disk'[c] = Zeros
      /\ \A b \in Cluster \ {c} : disk'[b] = disk[b]
  BY <1>1, FreeFits DEF IInv, TypeOK
<1>5. ASSUME NEW l \in Logical
      PROVE  PartlyWritten(View(disk, call.root, l), l, View(disk', call'.root, l))
  <2>. /\ l \in 0 .. Capacity - 1 /\ l \in Nat /\ 0 \in 0 .. HeightOf(l)
       /\ RootOf(l) \in Root
    BY LogicalIn, RootFits
  <2>1. CASE RootOf(l) # R
    <3>1. call'.root[RootOf(l)] = call.root[RootOf(l)]
      BY <1>3, <2>1
    <3>2. Walk(disk', call'.root, l, 0) = Walk(disk', call.root, l, 0)
      BY <3>1, WalkRoot
    <3>3. View(disk', call'.root, l) = View(disk', call.root, l)
      BY <3>2 DEF View
    <3>4. View(disk', call.root, l) = View(disk, call.root, l)
      BY <1>2, <1>4, FreeOverwritten
    <3>. QED  BY <3>3, <3>4 DEF PartlyWritten
  <2>2. CASE RootOf(l) = R
    <3>1. call.root[R] = 0
      BY <1>1 DEF Pointer
    <3>2. Walk(disk, call.root, l, 0) = 0
      BY <2>2, <3>1, WalkRoot
    <3>3. View(disk, call.root, l) = Hole
      BY <3>2 DEF View
    <3>4. call'.root[RootOf(l)] = c
      BY <1>3, <2>2
    <3>5. CASE HeightOf(l) = 0
      <4>1. RootHeight(RootOf(l)) = HeightOf(l)
            /\ RootHeight(R) = HeightOf(LogicalIndex)
        BY <1>2, RootFits
      <4>2. l = LogicalIndex
        BY <2>2, <3>5, <4>1 DEF RootOf
      <4>3. Covers(call.len, l, Offset)
        <5>1. LogicalIndex * PointersPerCluster + Offset < call.off + call.len
          BY <1>2, <1>3
        <5>. QED  BY <1>2, <1>3, <4>2, <5>1 DEF Covers
      <4>4. Walk(disk', call'.root, l, 0) = c
        BY <3>4, <3>5, WalkSteps
      <4>5. View(disk', call'.root, l) = Zeros
        BY <1>4, <4>4 DEF View
      <4>6. Zeros # Hole
        BY FilesAssumption DEF Zeros
      <4>. QED
        BY <1>2, <3>3, <4>3, <4>5, <4>6 DEF PartlyWritten, Zeros
    <3>6. CASE HeightOf(l) # 0
      <4>1. Walk(disk', call'.root, l, 0) = 0
        BY <1>4, <3>4, <3>6, ZeroBelow
      <4>. QED  BY <3>3, <4>1 DEF View, PartlyWritten
    <3>. QED  BY <3>5, <3>6
  <2>. QED  BY <2>1, <2>2
<1>6. CursorOnWay'
  BY <1>1 DEF CursorOnWay
<1>7. CopySound'
  <2>1. \A l \in Logical, s \in Slot :
          Covers(call'.done, l, s) => Covers(call.done, l, s)
    BY <1>3
  <2>. QED  BY <1>1, <1>3, <1>5, <1>6, <2>1, CallGoesOn DEF Walking
<1>8. \A i \in Inode, l \in Logical : Seen(i, l)' = Seen(i, l)
  BY <1>1, <1>4, FreshSeen
<1>9. Abstract!Progress
  BY <1>1, <1>2, <1>3, <1>8, ProgressStep DEF PartlyWritten, Walking
<1>. QED  BY <1>7, <1>9

\* A new target for word t of the pointer block b shows at the end of the
\* walks that go there, and ends them.
LEMMA WalkGrown ==
  ASSUME IInv, NEW c \in Free, NEW b \in PointerBlocks, NEW t \in Slot,
         disk[b][t] = 0,
         NEW d, d[c] = Zeros, d[b][t] = c,
         \A s \in Slot \ {t} : d[b][s] = disk[b][s],
         \A a \in Cluster \ {b, c} : d[a] = disk[a],
         NEW i \in Inode, NEW l \in Nat
  PROVE  \A h \in 0 .. HeightOf(l) :
           LET v == Walk(d, LiveRoot(i), l, h)
               w == Walk(disk, LiveRoot(i), l, h)
           IN  \/ v = w
               \/ /\ v = c /\ w = 0 /\ h < HeightOf(l) /\ SlotOf(l, h) = t
                  /\ Walk(disk, LiveRoot(i), l, h + 1) = b
<1>. DEFINE V(h) == Walk(d, LiveRoot(i), l, h)
            W(h) == Walk(disk, LiveRoot(i), l, h)
            H == HeightOf(l)
            T == {h \in 0 .. H :
                    \/ V(h) = W(h)
                    \/ /\ V(h) = c /\ W(h) = 0 /\ h < H /\ SlotOf(l, h) = t
                       /\ W(h + 1) = b}
<1>1. H \in 0 .. 3
  BY HeightType DEF Height
<1>2. /\ V(H) = W(H)
      /\ \A h \in 0 .. H - 1 : V(h) = FollowOn(d, V(h + 1), l, h)
      /\ \A h \in 0 .. H - 1 : W(h) = FollowOn(disk, W(h + 1), l, h)
  BY WalkSteps
<1>3. \A h \in 0 .. H - 1 : W(h + 1) # 0 =>
        /\ W(h + 1) \in PointerBlocks /\ W(h + 1) \in Cluster
        /\ SlotOf(l, h) \in Slot
  BY WalkBlocks DEF PointerBlocks, IInv, TypeOK
<1>4. c # 0 /\ c \notin PointerBlocks
  BY FreeFits
<1>5. \A h \in 0 .. H - 1 : SlotOf(l, h) \in Slot
  BY <1>1, SlotType DEF Height
<1>. HIDE DEF V, W, H
<1>6. H \in T
  BY <1>1, <1>2
<1>7. ASSUME NEW h \in 0 .. H - 1, h + 1 \in T
      PROVE  h \in T
  <2>1. h \in 0 .. H /\ h < H
    BY <1>1
  <2>2. /\ V(h) = FollowOn(d, V(h + 1), l, h)
        /\ W(h) = FollowOn(disk, W(h + 1), l, h)
    BY <1>2
  <2>3. CASE V(h + 1) = W(h + 1)
    <3>1. CASE W(h + 1) = 0
      BY <2>1, <2>2, <2>3, <3>1 DEF FollowOn
    <3>2. CASE W(h + 1) # 0
      <4>1. /\ V(h) = d[W(h + 1)][SlotOf(l, h)]
            /\ W(h) = disk[W(h + 1)][SlotOf(l, h)]
        BY <2>2, <2>3, <3>2 DEF FollowOn
      <4>2. /\ W(h + 1) \in Cluster /\ W(h + 1) # c
            /\ SlotOf(l, h) \in Slot
        BY <1>3, <1>4, <3>2
      <4>3. CASE W(h + 1) = b /\ SlotOf(l, h) = t
        BY <2>1, <4>1, <4>3
      <4>4. CASE ~(W(h + 1) = b /\ SlotOf(l, h) = t)
        BY <2>1, <4>1, <4>2, <4>4
      <4>. QED  BY <4>3, <4>4
    <3>. QED  BY <3>1, <3>2
  <2>4. CASE V(h + 1) # W(h + 1)
    <3>1. V(h + 1) = c /\ W(h + 1) = 0
      BY <1>7, <2>4
    <3>2. W(h) = 0
      BY <2>2, <3>1 DEF FollowOn
    <3>3. V(h) = Zeros[SlotOf(l, h)]
      BY <1>4, <2>2, <3>1 DEF FollowOn
    <3>4. V(h) = 0
      BY <1>5, <3>3 DEF Zeros
    <3>. QED  BY <2>1, <3>2, <3>4
  <2>. QED  BY <2>3, <2>4
<1>. HIDE DEF T
<1>8. \A h \in 0 .. H : h \in T
  BY <1>1, <1>6, <1>7, Downwards
<1>. QED  BY <1>8 DEF T, V, W, H

\* The walks that meet the cursor's block just above the data, at its word,
\* are that of the call.
LEMMA CursorOwner ==
  ASSUME IInv, CopySound, Walking, at.block # 0,
         NEW i \in Inode, NEW l \in 0 .. Capacity - 1,
         0 < HeightOf(l), SlotOf(l, 0) = SlotOf(LogicalIndex, at.height),
         Walk(disk, LiveRoot(i), l, 1) = at.block
  PROVE  i = call.inode /\ l = LogicalIndex
<1>. DEFINE m == LogicalIndex
<1>1. /\ call.inode \in Inode /\ LiveRoot(call.inode) = call.root
      /\ m \in 0 .. Capacity - 1 /\ m \in Nat /\ l \in Nat
  BY CallFacts
<1>2. HeightOf(l) \in 1 .. 3 /\ HeightOf(m) \in 0 .. 3
  BY HeightType DEF Height
<1>3. at.height + 1 = 1
  <2>1. level[at.block] = 1
    BY <1>1, <1>2, WalkSound
  <2>. QED  BY <2>1 DEF IInv, CursorSound
<1>4. /\ at.height = 0
      /\ at.height < HeightOf(m)
      /\ at.block = Walk(disk, call.root, m, at.height + 1)
  BY <1>3 DEF CopySound, CursorOnWay, Walking, IInv, TypeOK, Height
<1>5. /\ 1 \in 0 .. HeightOf(l) /\ 1 <= HeightOf(m)
      /\ Walk(disk, LiveRoot(call.inode), m, 1) = at.block
      /\ SlotOf(l, 0) = SlotOf(m, 0)
  BY <1>1, <1>2, <1>4
<1>. HIDE DEF m
<1>6. /\ i = call.inode /\ RootOf(l) = RootOf(m) /\ HeightOf(l) = HeightOf(m)
      /\ \A k \in 1 .. HeightOf(l) - 1 : SlotOf(l, k) = SlotOf(m, k)
  BY <1>1, <1>5, WalkOwner
<1>7. \A k \in 0 .. HeightOf(l) - 1 : SlotOf(l, k) = SlotOf(m, k)
  BY <1>2, <1>5, <1>6
<1>. QED  BY <1>1, <1>6, <1>7, PathUnique DEF m

LEMMA NextWord ==
  ASSUME IInv, CopySound, Walking
  PROVE  /\ \E s \in Slot : Covers(call.len, LogicalIndex, s)
         /\ Zeros # Hole
<1>1. /\ Offset \in Slot
      /\ call.off + call.done = LogicalIndex * PointersPerCluster + Offset
  BY CallFacts
<1>2. call.off \in Nat /\ call.done \in Nat /\ call.len \in Nat
      /\ call.done < call.len
  BY DEF IInv, TypeOK, Walking
<1>3. LogicalIndex * PointersPerCluster + Offset < call.off + call.len
  BY <1>1, <1>2
<1>4. Covers(call.len, LogicalIndex, Offset)
  BY <1>1, <1>2, <1>3 DEF Covers
<1>. QED  BY <1>1, <1>4, FilesAssumption DEF Zeros

LEMMA AllocateInBlockFiles ==
  ASSUME IInv, CopySound, AllocateInBlock
  PROVE  CopySound' /\ Abstract!Progress
<1>. DEFINE t == SlotOf(LogicalIndex, at.height)
            b == at.block
<1>1. PICK c \in Free :
        /\ disk' = [disk EXCEPT ![c] = Zeros, ![b][t] = c]
        /\ call' = call /\ index' = index /\ at' = at /\ ret' = ret
        /\ Walking /\ b # 0 /\ Pointer = 0
  BY DEF AllocateInBlock
<1>2. /\ call' = call /\ index' = index /\ at' = at /\ ret' = ret
      /\ Walking /\ b # 0 /\ Pointer = 0
  BY <1>1
<1>3. /\ call.inode \in Inode /\ LiveRoot(call.inode) = call.root
      /\ LogicalIndex \in 0 .. Capacity - 1 /\ LogicalIndex \in Nat
  BY <1>1, CallFacts
<1>4. /\ b \in PointerBlocks /\ b \in Cluster /\ t \in Slot
      /\ disk[b][t] = 0
  <2>1. at.height \in Height
    BY DEF IInv, TypeOK
  <2>. QED
    BY <1>1, <1>3, <2>1, SlotType DEF IInv, CursorSound, TypeOK, Pointer
<1>5. c \in Cluster /\ c # b /\ c # 0
  BY <1>1, FreeFits
<1>6. /\ disk'[c] = Zeros /\ disk'[b][t] = c
      /\ \A s \in Slot \ {t} : disk'[b][s] = disk[b][s]
      /\ \A a \in Cluster \ {b, c} : disk'[a] = disk[a]
  <2>1. disk \in [Cluster -> [Slot -> Nat]]
    BY DEF IInv, TypeOK
  <2>. QED  BY <1>1, <1>4, <1>5, <2>1
<1>7. ASSUME NEW i \in Inode, NEW l \in Logical
      PROVE  \/ View(disk', LiveRoot(i), l) = View(disk, LiveRoot(i), l)
             \/ /\ i = call.inode /\ l = LogicalIndex
                /\ View(disk, LiveRoot(i), l) = Hole
                /\ View(disk', LiveRoot(i), l) = Zeros
  <2>. DEFINE v == Walk(disk', LiveRoot(i), l, 0)
              w == Walk(disk, LiveRoot(i), l, 0)
  <2>1. l \in Nat /\ l \in 0 .. Capacity - 1 /\ 0 \in 0 .. HeightOf(l)
    BY LogicalIn
  <2>2. \/ v = w
        \/ /\ v = c /\ w = 0 /\ 0 < HeightOf(l) /\ SlotOf(l, 0) = t
           /\ Walk(disk, LiveRoot(i), l, 1) = b
    <3>1. \A h \in 0 .. HeightOf(l) :
           \/ Walk(disk', LiveRoot(i), l, h) = Walk(disk, LiveRoot(i), l, h)
           \/ /\ Walk(disk', LiveRoot(i), l, h) = c
              /\ Walk(disk, LiveRoot(i), l, h) = 0
              /\ h < HeightOf(l) /\ SlotOf(l, h) = t
              /\ Walk(disk, LiveRoot(i), l, h + 1) = b
      BY <1>2, <1>4, <1>6, <2>1, WalkGrown
    <3>. QED  BY <2>1, <3>1
  <2>3. w # 0 => w \in Cluster /\ w # b /\ w # c
    <3>1. w # 0 => w \in Cluster /\ w \in used /\ level[w] = 0
      BY <2>1, WalkSound
    <3>. QED  BY <1>2, <1>4, <3>1, FreeFits DEF PointerBlocks
  <2>4. CASE v = w
    <3>1. w # 0 => disk'[w] = disk[w]
      BY <1>6, <2>3
    <3>. QED  BY <2>4, <3>1 DEF View
  <2>5. CASE v # w
    <3>1. i = call.inode /\ l = LogicalIndex
      BY <1>2, <2>1, <2>2, <2>5, CursorOwner
    <3>2. v = c /\ w = 0
      BY <2>2, <2>5
    <3>3. View(disk', LiveRoot(i), l) = Zeros /\ View(disk, LiveRoot(i), l) = Hole
      BY <1>5, <1>6, <3>2 DEF View
    <3>. QED  BY <3>1, <3>3
  <2>. QED  BY <2>4, <2>5
<1>8. ASSUME NEW l \in Logical
      PROVE  PartlyWritten(View(disk, LiveRoot(call.inode), l), l,
                           View(disk', LiveRoot(call.inode), l))
  BY <1>2, <1>3, <1>7, NextWord DEF PartlyWritten, Zeros
<1>9. CursorOnWay'
  <2>1. /\ at.height < HeightOf(LogicalIndex)
        /\ b = Walk(disk, call.root, LogicalIndex, at.height + 1)
    BY <1>2 DEF CopySound, CursorOnWay, Walking
  <2>2. at.height + 1 \in 0 .. HeightOf(LogicalIndex)
    <3>1. at.height \in 0 .. 3 /\ HeightOf(LogicalIndex) \in 0 .. 3
      BY HeightType DEF IInv, TypeOK, Height
    <3>. QED  BY <2>1, <3>1
  <2>3. \/ Walk(disk', LiveRoot(call.inode), LogicalIndex, at.height + 1) = b
        \/ Walk(disk, LiveRoot(call.inode), LogicalIndex, at.height + 1) = 0
    BY <1>2, <1>3, <1>4, <1>6, <2>1, <2>2, WalkGrown
  <2>4. LogicalIndex' = LogicalIndex
    BY <1>2 DEF LogicalIndex
  <2>. QED  BY <1>2, <1>3, <2>1, <2>3, <2>4 DEF CursorOnWay
<1>10. CopySound'
  <2>1. \A l \in Logical : PartlyWritten(View(disk, call.root, l), l,
                                         View(disk', call'.root, l))
    BY <1>2, <1>3, <1>8
  <2>. QED  BY <1>2, <1>9, <2>1, CallGoesOn DEF Walking
<1>11. ASSUME NEW i \in Inode, NEW l \in Logical
       PROVE  /\ i # call.inode => Seen(i, l)' = Seen(i, l)
              /\ i = call.inode => PartlyWritten(Seen(i, l), l, Seen(i, l)')
  <2>1. /\ Seen(i, l) = IF index[i].root[RootOf(l)] = 0 THEN Hole
                        ELSE View(disk, LiveRoot(i), l)
        /\ Seen(i, l)' = IF index[i].root[RootOf(l)] = 0 THEN Hole
                         ELSE View(disk', LiveRoot(i), l)
    BY <1>2, IndexView, LogicalIn DEF Seen
  <2>. QED  BY <1>7, <1>8, <2>1 DEF PartlyWritten
<1>12. Abstract!Progress
  BY <1>2, <1>3, <1>11, ProgressStep DEF Walking
<1>. QED  BY <1>10, <1>12

LEMMA WriteChunkFiles ==
  ASSUME IInv, CopySound, WriteChunk
  PROVE  CopySound' /\ Abstract!Progress
<1>. DEFINE c == Pointer
            p == PointersPerCluster
            m == LogicalIndex
            Here(s) == Offset <= s /\ s < Offset + Chunk
<1>1. /\ disk' = [disk EXCEPT ![c] =
                    [s \in Slot |-> IF Here(s) THEN call.word ELSE @[s]]]
      /\ call' = [call EXCEPT !.done = @ + Chunk]
      /\ index' = index /\ at'.block = 0 /\ ret' = ret
      /\ Walking /\ c # 0 /\ at.height = 0
  BY DEF WriteChunk
<1>2. /\ index' = index /\ at'.block = 0 /\ ret' = ret
      /\ Walking /\ c # 0 /\ at.height = 0
  BY <1>1
<1>3. /\ call'.inode = call.inode /\ call'.off = call.off
      /\ call'.len = call.len /\ call'.word = call.word
      /\ call'.root = call.root /\ call'.done = call.done + Chunk
      /\ call.off \in Nat /\ call.done \in Nat /\ call.len \in Nat
      /\ call.done < call.len /\ call.word \in Nat
  BY <1>1, InputAssumption DEF IInv, TypeOK, Walking
<1>4. /\ call.inode \in Inode /\ LiveRoot(call.inode) = call.root
      /\ m \in 0 .. Capacity - 1 /\ m \in Nat
      /\ c = Walk(disk, call.root, m, 0)
      /\ Offset \in Slot /\ Offset \in 0 .. p - 1
      /\ call.off + call.done = m * p + Offset
  BY <1>2, CallFacts DEF Slot
<1>5. c \in Cluster /\ c \notin PointerBlocks
  BY <1>2, PointerFits DEF PointerBlocks
<1>6. /\ Chunk \in Nat /\ Chunk <= call.len - call.done /\ Offset + Chunk <= p
      /\ p \in Nat \ {0}
  BY <1>3, <1>4, SizesAssumption DEF Chunk
<1>7. /\ disk'[c] = [s \in Slot |-> IF Here(s) THEN call.word ELSE disk[c][s]]
      /\ \A a \in Cluster \ {c} : disk'[a] = disk[a]
      /\ disk[c] \in [Slot -> Nat]
  <2>1. disk \in [Cluster -> [Slot -> Nat]]
    BY DEF IInv, TypeOK
  <2>. QED  BY <1>1, <1>5, <2>1
<1>8. \A s \in Slot : Here(s) => Covers(call.len, m, s)
  <2>. SUFFICES ASSUME NEW s \in Slot, Here(s)
                PROVE  Covers(call.len, m, s)
    OBVIOUS
  <2>1. m * p \in Nat /\ s \in Nat /\ Offset \in Nat
    BY <1>4, <1>6 DEF Slot
  <2>. HIDE DEF m
  <2>2. call.off <= m * p + s /\ m * p + s < call.off + call.len
    BY <1>3, <1>4, <1>6, <2>1
  <2>. QED  BY <2>2 DEF Covers
<1>. HIDE DEF m
<1>9. ASSUME NEW i \in Inode, NEW l \in Logical
      PROVE  \/ View(disk', LiveRoot(i), l) = View(disk, LiveRoot(i), l)
             \/ /\ i = call.inode /\ l = m
                /\ View(disk, LiveRoot(i), l) = disk[c]
                /\ View(disk', LiveRoot(i), l) = disk'[c]
  <2>. DEFINE w == Walk(disk, LiveRoot(i), l, 0)
  <2>1. l \in Nat /\ l \in 0 .. Capacity - 1 /\ 0 \in 0 .. HeightOf(l)
    BY LogicalIn
  <2>2. Walk(disk', LiveRoot(i), l, 0) = w
    <3>1. \A b \in PointerBlocks : disk'[b] = disk[b]
      BY <1>5, <1>7 DEF PointerBlocks, IInv, TypeOK
    <3>. QED  BY <2>1, <3>1, WalkKept
  <2>3. CASE w = c
    <3>1. i = call.inode /\ l = m
      BY <1>2, <1>4, <2>1, <2>3, DataOwner
    <3>. QED  BY <1>2, <2>2, <2>3, <3>1 DEF View
  <2>4. CASE w # c
    <3>1. w \in Cluster
      BY <2>1, WalkSound
    <3>. QED  BY <1>7, <2>2, <2>4, <3>1 DEF View
  <2>. QED  BY <2>3, <2>4
<1>10. ASSUME NEW l \in Logical
       PROVE  PartlyWritten(View(disk, LiveRoot(call.inode), l), l,
                            View(disk', LiveRoot(call.inode), l))
  <2>1. CASE View(disk', LiveRoot(call.inode), l)
               = View(disk, LiveRoot(call.inode), l)
    BY <2>1 DEF PartlyWritten
  <2>2. CASE /\ l = m
             /\ View(disk, LiveRoot(call.inode), l) = disk[c]
             /\ View(disk', LiveRoot(call.inode), l) = disk'[c]
    <3>1. disk[c] # Hole
      BY <1>7, FilesAssumption
    <3>2. disk'[c] # Hole
      BY <1>3, <1>7, FilesAssumption
    <3>3. \E s \in Slot : Covers(call.len, m, s)
      BY <1>2, NextWord DEF m
    <3>4. \A s \in Slot :
            \/ disk'[c][s] = disk[c][s]
            \/ Covers(call.len, m, s) /\ disk'[c][s] = call.word
      BY <1>7, <1>8
    <3>. QED  BY <2>2, <3>1, <3>2, <3>3, <3>4 DEF PartlyWritten
  <2>. QED  BY <1>4, <1>9, <2>1, <2>2
<1>11. ASSUME NEW l \in Logical, NEW s \in Slot, Covers(call'.done, l, s)
       PROVE  \/ Covers(call.done, l, s)
              \/ /\ View(disk', call'.root, l) # Hole
                 /\ View(disk', call'.root, l)[s] = call.word
  <2>. SUFFICES ASSUME ~Covers(call.done, l, s)
                PROVE  /\ View(disk', call'.root, l) # Hole
                       /\ View(disk', call'.root, l)[s] = call.word
    OBVIOUS
  <2>1. l \in Nat /\ 0 \in 0 .. HeightOf(l)
    BY LogicalIn
  <2>2. l * p \in Nat /\ m * p \in Nat /\ s \in 0 .. p - 1 /\ s \in Nat
    BY <1>4, <1>6, <2>1 DEF Slot
  <2>3. /\ call.off <= l * p + s
        /\ l * p + s < call.off + (call.done + Chunk)
        /\ ~(l * p + s < call.off + call.done)
    BY <1>3, <1>11 DEF Covers
  <2>4. PICK k \in 0 .. p - 1 : l * p + s = m * p + k /\ Here(k)
    <3>. DEFINE k == l * p + s - m * p
    <3>1. k \in Int /\ l * p + s = m * p + k
      BY <2>2
    <3>2. Offset <= k /\ k < Offset + Chunk
      BY <1>3, <1>4, <1>6, <2>2, <2>3
    <3>. HIDE DEF k
    <3>3. k \in 0 .. p - 1
      BY <1>4, <1>6, <3>1, <3>2
    <3>. QED  BY <3>1, <3>2, <3>3
  <2>5. l = m /\ s = k
    <3>1. p * l + s = p * m + k
      BY <1>4, <1>6, <2>1, <2>2, <2>4
    <3>. QED  BY <1>4, <1>6, <2>1, <2>2, <3>1, OnePlace
  <2>6. Walk(disk', LiveRoot(call.inode), l, 0) = c
    <3>1. \A b \in PointerBlocks : disk'[b] = disk[b]
      BY <1>5, <1>7 DEF PointerBlocks, IInv, TypeOK
    <3>. QED  BY <1>4, <2>1, <2>5, <3>1, WalkKept
  <2>7. View(disk', call'.root, l) = disk'[c]
    BY <1>2, <1>3, <1>4, <2>6 DEF View
  <2>8. disk'[c] # Hole
    BY <1>3, <1>7, FilesAssumption
  <2>. QED  BY <1>7, <2>4, <2>5, <2>7, <2>8
<1>12. CopySound'
  <2>1. CursorOnWay'
    BY <1>2 DEF CursorOnWay
  <2>. QED  BY <1>2, <1>3, <1>4, <1>10, <1>11, <2>1, CallGoesOn DEF Walking
<1>13. ASSUME NEW i \in Inode, NEW l \in Logical
       PROVE  /\ i # call.inode => Seen(i, l)' = Seen(i, l)
              /\ i = call.inode => PartlyWritten(Seen(i, l), l, Seen(i, l)')
  <2>1. /\ Seen(i, l) = IF index[i].root[RootOf(l)] = 0 THEN Hole
                        ELSE View(disk, LiveRoot(i), l)
        /\ Seen(i, l)' = IF index[i].root[RootOf(l)] = 0 THEN Hole
                         ELSE View(disk', LiveRoot(i), l)
    BY <1>2, IndexView, LogicalIn DEF Seen
  <2>. QED  BY <1>9, <1>10, <2>1 DEF PartlyWritten
<1>14. Abstract!Progress
  BY <1>2, <1>3, <1>4, <1>13, ProgressStep DEF Walking
<1>. QED  BY <1>12, <1>14

LEMMA DescendFiles ==
  ASSUME IInv, CopySound, Descend
  PROVE  CopySound' /\ UNCHANGED Abstract!vars
<1>1. /\ at' = [block |-> Pointer, height |-> at.height - 1]
      /\ disk' = disk /\ index' = index /\ call' = call /\ ret' = ret
      /\ Walking /\ Pointer # 0 /\ at.height > 0
  BY DEF Descend
<1>2. /\ at.height \in 0 .. HeightOf(LogicalIndex)
      /\ Pointer = Walk(disk, call.root, LogicalIndex, at.height)
  BY <1>1, CallFacts
<1>3. HeightOf(LogicalIndex) \in 0 .. 3
  BY HeightType DEF Height
<1>4. CursorOnWay'
  <2>1. at.height - 1 < HeightOf(LogicalIndex) /\ at.height - 1 + 1 = at.height
    BY <1>2, <1>3
  <2>. QED  BY <1>1, <1>2, <2>1 DEF CursorOnWay, LogicalIndex
<1>5. CopySound'
  BY <1>1, <1>4, CallGoesOn DEF Walking, PartlyWritten
<1>6. UNCHANGED Abstract!vars
  BY <1>1, StutterStep DEF Seen
<1>. QED  BY <1>5, <1>6

\* A call that gives up leaves what it has stored; a new link is emptied.
LEMMA AbortFiles ==
  ASSUME IInv, ~Idle, NEW status \in {"no_space", "io_error"}, Abort(status),
         \A i \in Inode, l \in Logical :
           View(disk', index[i].root, l) = View(disk, index[i].root, l)
  PROVE  CopySound' /\ Abstract!End
<1>1. /\ index' = IF index[call.inode].kind = "symlink"
                  THEN [index EXCEPT ![call.inode] = UnusedInode] ELSE index
      /\ call' = NoCall /\ ret' = status
  BY DEF Abort, EndCall
<1>2. PICK i \in Inode : i = call.inode
  BY SizesAssumption DEF IInv, TypeOK, Idle, NoInode, Inode
<1>3. \A j \in Inode \ {i} : index'[j] = index[j]
  BY <1>1, <1>2 DEF IInv, TypeOK
<1>4. \A j \in Inode \ {i}, l \in Logical : Seen(j, l)' = Seen(j, l)
  BY <1>3 DEF Seen
<1>5. CASE index'[i] = index[i]
  <2>1. \A l \in Logical : PartlyWritten(Seen(i, l), l, Seen(i, l)')
    BY <1>5 DEF Seen, PartlyWritten
  <2>. QED
    BY <1>1, <1>2, <1>4, <2>1, EndStep DEF CopySound, Idle, NoCall
<1>6. CASE index'[i] = UnusedInode
  <2>1. \A l \in Logical : Seen(i, l)' = Hole
    <3>. SUFFICES ASSUME NEW l \in Logical
                  PROVE  View(disk', UnusedInode.root, l) = Hole
      BY <1>6 DEF Seen
    <3>1. UnusedInode.root[RootOf(l)] = 0
      BY RootFits, LogicalIn DEF UnusedInode, NoPointers
    <3>2. Walk(disk', UnusedInode.root, l, 0) = 0
      BY <3>1, WalkRoot, LogicalIn
    <3>. QED  BY <3>2 DEF View
  <2>. QED
    BY <1>1, <1>2, <1>4, <2>1, EndStep DEF CopySound, Idle, NoCall
<1>. QED  BY <1>1, <1>2, <1>5, <1>6 DEF IInv, TypeOK

LEMMA LosePointerFiles ==
  ASSUME IInv, LosePointer
  PROVE  CopySound' /\ Abstract!End
<1>1. PICK c \in Free : disk' = [disk EXCEPT ![c] = Zeros]
  BY DEF LosePointer
<1>2. \A b \in Cluster \ {c} : disk'[b] = disk[b]
  BY <1>1 DEF IInv, TypeOK
<1>3. ASSUME NEW i \in Inode, NEW l \in Logical
      PROVE  View(disk', index[i].root, l) = View(disk, index[i].root, l)
  <2>1. l \in Nat
    BY LogicalIn
  <2>2. View(disk', LiveRoot(i), l) = View(disk, LiveRoot(i), l)
    BY <1>2, <2>1, FreeOverwritten
  <2>. QED  BY <2>1, <2>2, IndexView
<1>4. ~Idle /\ Abort("io_error")
  BY DEF LosePointer, Walking
<1>. QED  BY <1>3, <1>4, AbortFiles

LEMMA CommitFiles ==
  ASSUME IInv, CopySound, Commit
  PROVE  CopySound' /\ Abstract!End
<1>1. /\ index' = [index EXCEPT ![call.inode].root = call.root]
      /\ call' = NoCall /\ ret' = "ok" /\ disk' = disk
      /\ ~Idle /\ call.done >= call.len
  BY DEF Commit, EndCall
<1>2. PICK i \in Inode : i = call.inode
  BY <1>1, SizesAssumption DEF IInv, TypeOK, Idle, NoInode, Inode
<1>3. /\ index'[i].root = call.root /\ LiveRoot(i) = call.root
      /\ \A j \in Inode \ {i} : index'[j] = index[j]
  BY <1>1, <1>2 DEF IInv, TypeOK, LiveRoot
<1>4. \A j \in Inode \ {i}, l \in Logical : Seen(j, l)' = Seen(j, l)
  BY <1>1, <1>3 DEF Seen
<1>5. ASSUME NEW l \in Logical
      PROVE  /\ PartlyWritten(Seen(i, l), l, Seen(i, l)')
             /\ \A s \in Slot : Covers(call.len, l, s) =>
                  Seen(i, l)' # Hole /\ Seen(i, l)'[s] = call.word
  <2>. DEFINE new == View(disk, call.root, l)
  <2>1. Seen(i, l)' = new
    BY <1>1, <1>3 DEF Seen
  <2>2. Seen(i, l) = IF index[i].root[RootOf(l)] = 0 THEN Hole ELSE new
    BY <1>3, IndexView, LogicalIn DEF Seen
  <2>3. index[i].root[RootOf(l)] = 0 /\ new # Hole =>
          /\ \E s \in Slot : Covers(call.len, l, s)
          /\ \A s \in Slot :
               new[s] = 0 \/ (Covers(call.len, l, s) /\ new[s] = call.word)
    BY <1>1, <1>2 DEF CopySound, NewWordsOwn
  <2>4. \A s \in Slot : Covers(call.done, l, s) => new # Hole /\ new[s] = call.word
    BY <1>1 DEF CopySound, DoneWordsStored
  <2>. HIDE DEF new
  <2>5. \A s \in Slot : Covers(call.len, l, s) => Covers(call.done, l, s)
    <3>1. \A s \in Slot : l * PointersPerCluster + s \in Nat
      BY LogicalIn, SizesAssumption DEF Slot
    <3>2. call.off \in Nat /\ call.done \in Nat /\ call.len \in Nat
      BY DEF IInv, TypeOK
    <3>. QED  BY <1>1, <3>1, <3>2 DEF Covers
  <2>6. PartlyWritten(Seen(i, l), l, new)
    BY <2>2, <2>3 DEF PartlyWritten
  <2>. QED  BY <2>1, <2>4, <2>5, <2>6
<1>6. Abstract!End
  BY <1>1, <1>2, <1>4, <1>5, EndStep
<1>7. CopySound'
  BY <1>1 DEF CopySound, Idle, NoCall
<1>. QED  BY <1>6, <1>7

--------------------------------------------------------------------------
(***************************************************************************)
(* Steps outside a call, and the theorem.                                  *)
(***************************************************************************)
LEMMA NothingSeen ==
  ASSUME NEW d, NEW l \in Logical
  PROVE  View(d, NoPointers, l) = Hole
<1>1. NoPointers[RootOf(l)] = 0
  BY RootFits, LogicalIn DEF NoPointers
<1>2. Walk(d, NoPointers, l, 0) = 0
  BY <1>1, WalkRoot, LogicalIn
<1>. QED  BY <1>2 DEF View

LEMMA StartFiles ==
  ASSUME IInv, Idle, NEW i \in Inode, NEW q \in Request, NEW w,
         NEW root, StartCall(i, q, w, root), disk' = disk,
         index'[i].root = root,
         \A j \in Inode \ {i} : index'[j].root = index[j].root,
         root = index[i].root \/ root = NoPointers
  PROVE  CopySound' /\ Abstract!Begin
<1>1. /\ call' = [inode |-> i, off |-> q.off, len |-> q.len, word |-> w,
                  done |-> 0, root |-> root]
      /\ at'.block = 0 /\ ret' = "none"
  BY DEF StartCall
<1>2. Abstract!Begin
  <2>1. \A j \in Inode \ {i}, l \in Logical : Seen(j, l)' = Seen(j, l)
    BY DEF Seen
  <2>2. CASE root = index[i].root
    BY <1>1, <2>1, <2>2, BeginStep DEF Seen
  <2>3. CASE root = NoPointers
    <3>1. \A l \in Logical : Seen(i, l)' = Hole
      BY <2>3, NothingSeen DEF Seen
    <3>. QED  BY <1>1, <2>1, <3>1, BeginStep
  <2>. QED  BY <2>2, <2>3
<1>3. call'.off + call'.len <= PointersPerCluster * Capacity
  BY <1>1, CapacityAssumption
<1>4. CursorOnWay'
  BY <1>1 DEF CursorOnWay
<1>5. NewWordsOwn'
  <2>1. ASSUME NEW l \in Logical, index'[call'.inode].root[RootOf(l)] = 0
        PROVE  View(disk', call'.root, l) = Hole
    <3>1. call'.root[RootOf(l)] = 0
      BY <1>1, <2>1
    <3>2. Walk(disk', call'.root, l, 0) = 0
      BY <3>1, WalkRoot, LogicalIn
    <3>. QED  BY <3>2 DEF View
  <2>. QED  BY <2>1 DEF NewWordsOwn
<1>6. DoneWordsStored'
  <2>1. ASSUME NEW l \in Logical, NEW s \in Slot PROVE ~Covers(0, l, s)'
    <3>1. l * PointersPerCluster + s \in Nat /\ q.off \in Nat
      BY LogicalIn, SizesAssumption, InputAssumption DEF Slot
    <3>. QED  BY <1>1, <3>1 DEF Covers
  <2>2. call'.done = 0
    BY <1>1
  <2>. QED  BY <2>1, <2>2 DEF DoneWordsStored, Covers
<1>. QED  BY <1>2, <1>3, <1>4, <1>5, <1>6 DEF CopySound

\* An inode that is made, emptied or freed.
LEMMA IndexFiles ==
  ASSUME Idle, NEW i \in Inode, disk' = disk, call' = call, ret' = "ok",
         index'[i].root = NoPointers,
         \A j \in Inode \ {i} : index'[j] = index[j]
  PROVE  CopySound' /\ Abstract!Reset
<1>1. \A l \in Logical : Seen(i, l)' = Hole
  BY NothingSeen DEF Seen
<1>2. \A j \in Inode \ {i}, l \in Logical : Seen(j, l)' = Seen(j, l)
  BY DEF Seen
<1>3. Abstract!Reset
  BY <1>1, <1>2, ResetStep
<1>4. CopySound'
  BY DEF CopySound, Idle
<1>. QED  BY <1>3, <1>4

LEMMA InitFiles == Init => CopySound /\ Abstract!Init
<1>. SUFFICES ASSUME Init PROVE CopySound /\ Abstract!Init
  OBVIOUS
<1>1. CopySound
  BY DEF Init, CopySound, Idle, NoCall
<1>2. \A i \in Inode, l \in Logical : Seen(i, l) = Hole
  BY NothingSeen DEF Init, Seen, UnusedInode
<1>3. Files = [i \in Inode |-> [l \in Logical |-> Hole]]
  BY <1>2, SeenFiles
<1>. QED
  BY <1>1, <1>3
  DEF Abstract!Init, Abstract!Nothing, Abstract!Inode, Inode, Writer,
      Init, NoCall, Abstract!NoInode, NoInode

\* Every step keeps what is said of the call, and is a step of FileStore.
LEMMA FilesStep ==
  ASSUME IInv, CopySound, [Next]_vars
  PROVE  CopySound' /\ [Abstract!Next]_(Abstract!vars)
<1>. USE DEF Abstract!Next
<1>1. CASE CallStep
  <2>1. CASE AllocateRoot
    BY <2>1, AllocateRootFiles
  <2>2. CASE AllocateInBlock
    BY <2>2, AllocateInBlockFiles
  <2>3. CASE LosePointer
    BY <2>3, LosePointerFiles
  <2>4. CASE NoSpace \/ IoError
    <3>1. disk' = disk /\ ~Idle /\ (Abort("no_space") \/ Abort("io_error"))
      BY <2>4 DEF NoSpace, IoError, Walking
    <3>. QED  BY <3>1, AbortFiles
  <2>5. CASE Descend
    BY <2>5, DescendFiles
  <2>6. CASE WriteChunk
    BY <2>6, WriteChunkFiles
  <2>7. CASE Commit
    BY <2>7, CommitFiles
  <2>. QED  BY <1>1, <2>1, <2>2, <2>3, <2>4, <2>5, <2>6, <2>7 DEF CallStep
<1>2. ASSUME NEW i \in Inode, NEW q \in Request, NEW w \in Word,
             Begin(i, q, w) \/ BeginSymlink(i, q, w)
      PROVE  CopySound' /\ Abstract!Begin
  <2>1. CASE Begin(i, q, w)
    BY <2>1, StartFiles DEF Begin
  <2>2. CASE BeginSymlink(i, q, w)
    <3>1. /\ index'[i].root = NoPointers
          /\ \A j \in Inode \ {i} : index'[j].root = index[j].root
      BY <2>2 DEF BeginSymlink, IInv, TypeOK
    <3>. QED  BY <2>2, <3>1, StartFiles DEF BeginSymlink
  <2>. QED  BY <1>2, <2>1, <2>2
<1>3. ASSUME NEW i \in Inode,
             \/ \E kind \in Kinds \ {"symlink"} : Create(i, kind)
             \/ Truncate(i) \/ Remove(i) \/ RemoveDirectory(i)
      PROVE  CopySound' /\ Abstract!Reset
  <2>1. /\ Idle /\ disk' = disk /\ call' = call /\ ret' = "ok"
        /\ index'[i].root = NoPointers
        /\ \A j \in Inode \ {i} : index'[j] = index[j]
    BY <1>3
    DEF Create, Truncate, Remove, RemoveDirectory, UnusedInode, IInv, TypeOK
  <2>. QED  BY <2>1, IndexFiles
<1>4. CASE UNCHANGED vars
  <2>1. CopySound'
    BY <1>4
    DEF vars, CopySound, Idle, CursorOnWay, LogicalIndex, NewWordsOwn,
        DoneWordsStored, Covers
  <2>2. UNCHANGED Abstract!vars
    BY <1>4, StutterStep DEF vars, Seen
  <2>. QED  BY <2>1, <2>2
<1>. QED  BY <1>1, <1>2, <1>3, <1>4 DEF Next

\* The allocator implements FileStore: for every reader of the index a write
\* changes words of its own extent of its own file only, also when it fails
\* half-way; when it reports success every word is stored; truncating,
\* creating or removing one file leaves the words of every other file alone.
THEOREM ImplementsAbstraction == Spec => ImplementsFileStore
<1>1. Init => CopySound /\ Abstract!Init
  BY InitFiles
<1>2. IInv /\ CopySound /\ [Next]_vars
        => CopySound' /\ [Abstract!Next]_(Abstract!vars)
  BY FilesStep
<1>. QED
  BY <1>1, <1>2, InvariantHolds, PTL DEF Spec, ImplementsFileStore, Abstract!Spec
==========================================================================
