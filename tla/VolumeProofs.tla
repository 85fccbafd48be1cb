----------------------------- MODULE VolumeProofs -----------------------------
(***************************************************************************)
(* Proofs about the life of a disk whose bitmap fits one cluster: what a   *)
(* mounted disk shows, across unmounts, defragmentations, failed writes    *)
(* and crashes, and that bitmap and index agree.                           *)
(***************************************************************************)
EXTENDS Volume, Extremes, SequenceTheorems

\* A bitmap of two clusters would lie on the first cluster of the table.
OneBitmapCluster == \A total \in Totals : total <= BitsPerCluster

TableIndexes == 0 .. TableClusters - 1
InodeIndexes == 0 .. InodeCount - 1
ChunkOf(index, k) == Inodes([i \in Chunk(k) |-> index[i]])
ClusterOf(i) == TableStart + i \div InodesPerCluster

------------------------------------------------------------------------------
(***************************************************************************)
(* Types.                                                                  *)
(***************************************************************************)
ContentOK(content) ==
  \/ content = Zero
  \/ content.is = "super" /\ content.total \in Totals
  \/ content.is = "bits" /\ content.used \in SUBSET Clusters
  \/ /\ content.is = "inodes"
     /\ \A i \in DOMAIN content.table : content.table[i] \in InodeValues
  \/ /\ content.is = "entries"
     /\ DOMAIN content.inodeOf \in SUBSET Names
     /\ \A n \in DOMAIN content.inodeOf : content.inodeOf[n] \in FileInodes
  \/ content.is = "data" /\ content.word \in Words

MemOK ==
  /\ mem = [up |-> TRUE, total |-> mem.total, root |-> mem.root,
            used |-> mem.used, index |-> mem.index, dirty |-> mem.dirty]
  /\ mem.total \in Totals /\ mem.total >= 2
  /\ mem.used \in SUBSET Clusters
  /\ mem.index \in [InodeIndexes -> InodeValues]
  /\ mem.dirty \in BOOLEAN

WriteOK(w) ==
  /\ w.of \in {"super", "root", "index", "bitmap"}
  /\ w.to \in Clusters
  /\ ContentOK(w.put)

\* What is on a list.
Listed(list) == {list[k] : k \in DOMAIN list}
IsList(list) == list \in Seq(Listed(list))

Typed ==
  /\ disk = [c \in Clusters |-> disk[c]]
  /\ \A c \in Clusters : ContentOK(disk[c])
  /\ mem = Unmounted \/ MemOK
  /\ task \in {"none", "format", "defrag", "sync", "unmount"}
  /\ left \in SUBSET Names /\ (left # {} => task = "defrag")
  /\ todo # <<>> <=> task \in {"format", "sync", "unmount"}
  /\ IsList(todo)
  /\ \A k \in DOMAIN todo : WriteOK(todo[k])
  /\ failed \in BOOLEAN /\ shaken \in BOOLEAN
  /\ DOMAIN promise \in SUBSET Names /\ touched \in SUBSET Names

------------------------------------------------------------------------------
(***************************************************************************)
(* The disk d, with the promises p made of names and those that are        *)
(* touched, t.                                                             *)
(***************************************************************************)
TableOf(d) ==
  [i \in InodeIndexes |->
     LET k == i \div InodesPerCluster
     IN  InodeReading(d[TableStart + k], k)[i]]
RootIn(d) == TableOf(d)[Root]
NamesIn(d) == d[RootIn(d)].inodeOf

FilePlaces(total) == 0 .. total - 1 \ Metadata(total)

\* The cluster c, or none, keeps what a file is to hold.
Keeps(d, c, what) ==
  \/ c = 0 /\ what = Empty
  \/ c \in FilePlaces(d[0].total) /\ d[c] = Data(what)

\* The disk has the form of a formatted one.
Formed(d) ==
  LET total == d[0].total
  IN  /\ total \in Totals /\ d[0] = Super(total, Root)
      /\ Fits(total)
      /\ \A k \in TableIndexes : /\ d[TableStart + k].is = "inodes"
                                 /\ DOMAIN d[TableStart + k].table = Chunk(k)
      /\ RootIn(d) \in FilePlaces(total)
      /\ d[RootIn(d)].is = "entries"
      /\ DOMAIN NamesIn(d) \subseteq Names
      /\ \A n \in DOMAIN NamesIn(d) : NamesIn(d)[n] \in FileInodes

\* What is promised can be read from the disk.
Recoverable(d, p) ==
  \A n \in DOMAIN p :
    IF n \in DOMAIN NamesIn(d)
    THEN Keeps(d, TableOf(d)[NamesIn(d)[n]], p[n])
    ELSE p[n] = None

TableIs(d, index) == \A k \in TableIndexes : d[TableStart + k] = ChunkOf(index, k)
BitmapIs(d, used) == d[BitmapStart] = Bits(used)

\* Bitmap and index agree.
Holders(index) == {i \in InodeIndexes : index[i] > 0}
Agreed(total, used, index) ==
  /\ \A i, j \in Holders(index) : index[i] = index[j] => i = j
  /\ used = Metadata(total) \cup {index[i] : i \in Holders(index)}
  /\ \A i \in Holders(index) : index[i] \notin Metadata(total)

\* The bitmap `used` and the index are those of the disk as the last call left
\* it; they may be ahead of the disk for the names that were touched.
Current(d, used, index, p, t) ==
  /\ used \in SUBSET (0 .. d[0].total - 1)
  /\ index \in [InodeIndexes -> {Unused} \cup 0 .. d[0].total - 1]
  /\ Agreed(d[0].total, used, index)
  /\ index[Root] = RootIn(d)
  /\ \A m, n \in DOMAIN NamesIn(d) : NamesIn(d)[m] = NamesIn(d)[n] => m = n
  /\ \A n \in Names :
       IF n \in DOMAIN NamesIn(d)
       THEN Keeps(d, index[NamesIn(d)[n]], p[n])
       ELSE p[n] = None
  /\ \A n \in DOMAIN NamesIn(d) \ t :
       TableOf(d)[NamesIn(d)[n]] = index[NamesIn(d)[n]]
  /\ t = {} => TableIs(d, index) /\ BitmapIs(d, used)

------------------------------------------------------------------------------
(***************************************************************************)
(* The writes that are left.                                               *)
(***************************************************************************)
\* The last write to the cluster c puts this content there.
Puts(list, c, content) ==
  \E k \in DOMAIN list :
    /\ list[k].to = c /\ list[k].put = content
    /\ \A m \in DOMAIN list : m > k => list[m].to # c
Spares(list, c) == \A k \in DOMAIN list : list[k].to # c

\* Once they are done the cluster c of d will hold this content.
WillHold(d, list, c, content) ==
  \/ d[c] = content /\ Spares(list, c)
  \/ Puts(list, c, content)

TableWillBe(d, list, index) ==
  \A k \in TableIndexes : WillHold(d, list, TableStart + k, ChunkOf(index, k))

\* The metadata of a disk that has just been formatted.
FormatRoot(total) == FirstFree(total, Metadata(total))
FormatIndex(total) ==
  [i \in InodeIndexes |-> IF i = Root THEN FormatRoot(total)
                          ELSE IF i < Root THEN 0 ELSE Unused]

WillBeFormatted(d, list, total) ==
  /\ total \in Totals /\ Fits(total)
  /\ WillHold(d, list, 0, Super(total, Root))
  /\ WillHold(d, list, FormatRoot(total), Entries(<<>>))
  /\ TableWillBe(d, list, FormatIndex(total))
  /\ WillHold(d, list, BitmapStart, Bits(Metadata(total) \cup {FormatRoot(total)}))

\* A write of the bitmap, or of a cluster of the table.
BitmapWrite(w, used) ==
  w.of = "bitmap" /\ w.to = BitmapStart /\ w.put = Bits(used)
TableWrite(w, index) ==
  /\ w.of = "index"
  /\ \E k \in TableIndexes : w.to = TableStart + k /\ w.put = ChunkOf(index, k)

\* No write of one kind is between two of the other.
Grouped(list) ==
  \A j, k, m \in DOMAIN list :
    j < k /\ k < m /\ list[j].of = list[m].of => list[k].of = list[j].of

\* Bitmap and index are on their way; a list with some of the index has all
\* of it that is not on the disk yet.
Flushing(d, list, used, index) ==
  /\ Grouped(list)
  /\ \A k \in DOMAIN list : BitmapWrite(list[k], used) \/ TableWrite(list[k], index)
  /\ (\E k \in DOMAIN list : list[k].of = "index") => TableWillBe(d, list, index)

------------------------------------------------------------------------------
(***************************************************************************)
(* The inductive invariant.                                                *)
(***************************************************************************)
InOrder ==
  /\ task \in {"sync", "defrag"} => mem.up
  /\ task \in {"format", "unmount"} => ~mem.up
  /\ touched # {} => ~shaken /\ (mem.up \/ task = "unmount")
  /\ left # {} => ~shaken /\ left \subseteq DOMAIN NamesIn(disk)

Formatting ==
  task = "format" =>
    /\ shaken /\ DOMAIN promise = {}
    /\ ~failed => \E total \in Totals : WillBeFormatted(disk, todo, total)

\* The disk shows what is promised; memory is that of this disk.
Promised ==
  ~shaken \/ DOMAIN promise # {} =>
    /\ Formed(disk)
    /\ shaken => Recoverable(disk, promise)
    /\ mem.up => mem.total = disk[0].total /\ mem.root = Root
    /\ mem.up /\ shaken => mem.index = TableOf(disk)

\* Memory and disk went through no failure since the disk was formatted.
Whole(used, index) ==
  /\ Current(disk, used, index, promise, touched)
  /\ mem.up => mem.used = used /\ mem.index = index
  /\ mem.up /\ ~mem.dirty => TableIs(disk, index)
  /\ Flushing(disk, todo, used, index)
  /\ task \in {"sync", "unmount"} /\ ~failed =>
       /\ WillHold(disk, todo, BitmapStart, Bits(used))
       /\ TableWillBe(disk, todo, index)

Unshaken ==
  ~shaken =>
    /\ DOMAIN promise = Names
    /\ \E used \in SUBSET Clusters, index \in [InodeIndexes -> InodeValues] :
         Whole(used, index)

\* They did: nothing but the bitmap is written.
Shaken ==
  shaken /\ task # "format" =>
    /\ \A k \in DOMAIN todo : todo[k].of = "bitmap" /\ todo[k].to = BitmapStart
    /\ mem.up => ~mem.dirty

IInv == Typed /\ InOrder /\ Formatting /\ Promised /\ Unshaken /\ Shaken

------------------------------------------------------------------------------
(***************************************************************************)
(* Where things lie.                                                       *)
(***************************************************************************)
Top == TableStart + TableClusters - 1

LEMMA Sizes ==
  /\ TableClusters \in Nat \ {0} /\ Top \in Nat /\ Top = TableClusters + 1
  /\ InodeCount \in Nat /\ InodeCount > 2 /\ Root = 2 /\ Root \in InodeIndexes
  /\ MaxTotal \in Nat /\ Clusters = 0 .. MaxTotal - 1
  /\ \A total \in Totals : total \in Nat \ {0} /\ total <= MaxTotal
<1>1. InodeCount \in Nat /\ InodeCount > 2 /\ InodesPerCluster \in Nat \ {0}
  BY LayoutAssumption
<1>2. TableClusters \in Nat \ {0}
  BY <1>1 DEF TableClusters
<1>3. Top \in Nat /\ Top = TableClusters + 1
  BY <1>2 DEF Top, TableStart
<1>4. PICK most \in Totals : \A total \in Totals : total <= most
  BY LayoutAssumption
<1>5. MaxTotal \in Totals /\ \A total \in Totals : total <= MaxTotal
  <2>1. \E x \in Totals : \A y \in Totals : x >= y
    BY <1>4, LayoutAssumption
  <2> QED  BY <2>1, LayoutAssumption DEF MaxTotal, Max
<1> QED  BY <1>1, <1>2, <1>3, <1>5, LayoutAssumption DEF Clusters, Root, InodeIndexes

\* The metadata are the first clusters of the disk.
LEMMA MetadataIs ==
  ASSUME OneBitmapCluster, NEW total \in Totals
  PROVE  /\ BitmapClusters(total) = 1
         /\ Metadata(total) = 0 .. Top
         /\ Fits(total) <=> Top + 2 <= total
         /\ 0 .. total - 1 \subseteq Clusters
         /\ 0 .. total - 1 \subseteq Segment(0)
         /\ FilePlaces(total) = Top + 1 .. total - 1
<1>1. total \in Nat \ {0} /\ BitsPerCluster \in Nat \ {0} /\ total <= BitsPerCluster
  BY LayoutAssumption DEF OneBitmapCluster
<1>2. BitmapClusters(total) = 1
  <2> DEFINE b == BitsPerCluster
             n == total + b - 1
             q == n \div b
  <2>1. n \in Nat /\ b \in Nat \ {0} /\ b <= n /\ n < 2 * b
    BY <1>1
  <2>2. q \in Nat /\ b * q <= n /\ n < b * (q + 1)
    BY <2>1
  <2> HIDE DEF n, q, b
  <2>3. q # 0
    BY <2>1, <2>2
  <2>4. ASSUME q >= 2 PROVE FALSE
    <3>1. b * q >= b * 2
      BY <2>1, <2>2, <2>4
    <3> QED  BY <2>1, <2>2, <3>1
  <2>5. q = 1
    BY <2>2, <2>3, <2>4
  <2> QED  BY <2>5 DEF BitmapClusters, q, n, b
<1>3. Metadata(total) = 0 .. Top
  BY <1>2, Sizes DEF Metadata, BitmapStart, TableStart, Top
<1>4. Fits(total) <=> Top + 2 <= total
  BY <1>1, <1>3, Sizes DEF Fits
<1>5. Segment(0) = 0 .. BitsPerCluster - 1
  BY <1>1 DEF Segment
<1> QED  BY <1>1, <1>2, <1>3, <1>4, <1>5, Sizes DEF FilePlaces

\* The inode i is in the table's cluster of this number, which lies below Top.
LEMMA InodePlace ==
  ASSUME NEW i \in InodeIndexes
  PROVE  /\ i \div InodesPerCluster \in TableIndexes
         /\ i \in Chunk(i \div InodesPerCluster)
<1> DEFINE p == InodesPerCluster
           q == i \div p
           t == TableClusters
<1>1. p \in Nat \ {0} /\ InodeCount \in Nat /\ i \in Nat /\ i <= InodeCount - 1
  BY LayoutAssumption DEF InodeIndexes
<1>2. q \in Nat /\ p * q <= i /\ i < p * (q + 1)
  BY <1>1
<1>3. t \in Nat /\ InodeCount + p - 1 < p * (t + 1)
  BY <1>1 DEF TableClusters
<1> HIDE DEF p, q, t
<1>4. q < t
  <2>1. p * (t + 1) = p * t + p /\ p * t \in Nat /\ p * q \in Nat
    BY <1>1, <1>2, <1>3
  <2>2. InodeCount - 1 < p * t
    BY <1>1, <1>3, <2>1
  <2>3. p * q < p * t
    BY <1>1, <1>2, <2>1, <2>2
  <2>4. ASSUME q >= t PROVE FALSE
    <3>1. PICK e \in Nat : q = t + e
      BY <1>2, <1>3, <2>4
    <3>2. p * q = p * t + p * e /\ p * e \in Nat
      BY <1>1, <1>3, <3>1
    <3> QED  BY <2>1, <2>3, <3>2
  <2> QED  BY <1>2, <1>3, <2>4
<1>5. q * p = p * q /\ (q + 1) * p = p * (q + 1)
  BY <1>1, <1>2
<1>6. i \in q * p .. (q + 1) * p - 1
  <2>1. p * (q + 1) \in Nat /\ p * q \in Nat
    BY <1>1, <1>2
  <2> QED  BY <1>1, <1>2, <1>5, <2>1
<1>7. i \in Chunk(q)
  BY <1>1, <1>6 DEF Chunk, p
<1>8. q \in TableIndexes
  BY <1>2, <1>3, <1>4 DEF TableIndexes, t
<1> QED  BY <1>7, <1>8 DEF q, p

LEMMA ChunkShape ==
  ASSUME NEW index, NEW k
  PROVE  ChunkOf(index, k).is = "inodes" /\ DOMAIN ChunkOf(index, k).table = Chunk(k)
BY DEF ChunkOf, Inodes

LEMMA ChunkInside ==
  ASSUME NEW k
  PROVE  Chunk(k) \subseteq InodeIndexes
BY DEF Chunk, InodeIndexes

------------------------------------------------------------------------------
(***************************************************************************)
(* What the table says.                                                    *)
(***************************************************************************)
LEMMA TableIsRead == TableReading = TableOf(disk) /\ TableReading' = TableOf(disk')
BY DEF TableReading, TableOf, InodeIndexes

LEMMA TableCluster ==
  ASSUME NEW k \in TableIndexes
  PROVE  TableStart + k \in 2 .. Top
BY Sizes DEF TableIndexes, TableStart

LEMMA InodesReading ==
  ASSUME NEW content, NEW k, content.is = "inodes", DOMAIN content.table = Chunk(k)
  PROVE  InodeReading(content, k) = content.table
<1> DEFINE blank == content.is = "zero" \/ content = Bits({})
<1> HIDE DEF blank
<1>1. InodeReading(content, k) =
        CASE content.is = "inodes" /\ DOMAIN content.table = Chunk(k) -> content.table
          [] blank -> [i \in Chunk(k) |-> Unused]
          [] OTHER -> [i \in Chunk(k) |-> Broken]
  BY DEF InodeReading, blank
<1>2. ~blank
  <2>1. content # Bits({})
    BY DEF Bits
  <2> QED  BY <2>1 DEF blank
<1> QED  BY <1>1, <1>2

LEMMA FormedReading ==
  ASSUME NEW d, Formed(d), NEW i \in InodeIndexes
  PROVE  TableOf(d)[i] = d[ClusterOf(i)].table[i]
<1> DEFINE k == i \div InodesPerCluster
<1>1. k \in TableIndexes
  BY InodePlace
<1>2. InodeReading(d[TableStart + k], k) = d[TableStart + k].table
  BY <1>1, InodesReading DEF Formed
<1> QED  BY <1>2 DEF ClusterOf, TableOf

LEMMA ReadingTyped ==
  ASSUME NEW d, \A k \in TableIndexes : ContentOK(d[TableStart + k])
  PROVE  TableOf(d) \in [InodeIndexes -> InodeValues]
<1>1. ASSUME NEW i \in InodeIndexes
      PROVE  TableOf(d)[i] \in InodeValues
  <2> DEFINE k == i \div InodesPerCluster
             content == d[TableStart + k]
  <2>1. k \in TableIndexes /\ i \in Chunk(k)
    BY InodePlace
  <2>2. ContentOK(content)
    BY <2>1
  <2>3. TableOf(d)[i] = InodeReading(content, k)[i]
    BY DEF TableOf
  <2> HIDE DEF content, k
  <2>4. CASE content.is = "inodes" /\ DOMAIN content.table = Chunk(k)
    <3>1. \A j \in DOMAIN content.table : content.table[j] \in InodeValues
      BY <2>2, <2>4 DEF ContentOK, Zero
    <3>2. InodeReading(content, k) = content.table
      BY <2>4, InodesReading
    <3> QED  BY <2>1, <2>3, <2>4, <3>1, <3>2
  <2>5. CASE ~(content.is = "inodes" /\ DOMAIN content.table = Chunk(k))
    <3>1. \/ InodeReading(content, k) = [j \in Chunk(k) |-> Unused]
          \/ InodeReading(content, k) = [j \in Chunk(k) |-> Broken]
      BY <2>5 DEF InodeReading
    <3> QED  BY <2>1, <2>3, <3>1 DEF InodeValues
  <2> QED  BY <2>4, <2>5
<1> QED  BY <1>1 DEF TableOf

LEMMA TableIsAt ==
  ASSUME NEW d, NEW index, TableIs(d, index), NEW i \in InodeIndexes
  PROVE  TableOf(d)[i] = index[i]
<1> DEFINE k == i \div InodesPerCluster
<1>1. k \in TableIndexes /\ i \in Chunk(k)
  BY InodePlace
<1>2. d[TableStart + k] = ChunkOf(index, k)
  BY <1>1 DEF TableIs
<1>3. InodeReading(d[TableStart + k], k) = [j \in Chunk(k) |-> index[j]]
  BY <1>2, InodesReading DEF ChunkOf, Inodes
<1> QED  BY <1>1, <1>3 DEF TableOf

LEMMA TableIsAll ==
  ASSUME NEW d, NEW S, NEW index \in [InodeIndexes -> S], TableIs(d, index)
  PROVE  TableOf(d) = index
<1>1. \A i \in InodeIndexes : TableOf(d)[i] = index[i]
  BY TableIsAt
<1>2. TableOf(d) = [i \in InodeIndexes |-> TableOf(d)[i]]
  BY DEF TableOf
<1> QED  BY <1>1, <1>2

\* What is not written does not change what is read.
LEMMA TableFixed ==
  ASSUME NEW d, NEW e, \A c \in 2 .. Top : e[c] = d[c]
  PROVE  /\ TableOf(e) = TableOf(d) /\ RootIn(e) = RootIn(d)
         /\ \A k \in TableIndexes : e[TableStart + k] = d[TableStart + k]
<1>1. \A k \in TableIndexes : e[TableStart + k] = d[TableStart + k]
  BY TableCluster
<1>2. ASSUME NEW i \in InodeIndexes
      PROVE  TableOf(e)[i] = TableOf(d)[i]
  <2>1. i \div InodesPerCluster \in TableIndexes
    BY InodePlace
  <2> QED  BY <1>1, <2>1 DEF TableOf
<1>3. /\ TableOf(d) = [i \in InodeIndexes |-> TableOf(d)[i]]
      /\ TableOf(e) = [i \in InodeIndexes |-> TableOf(e)[i]]
  BY DEF TableOf
<1>4. TableOf(e) = TableOf(d)
  BY <1>2, <1>3
<1> QED  BY <1>1, <1>4 DEF RootIn

------------------------------------------------------------------------------
(***************************************************************************)
(* Lists of writes.                                                        *)
(***************************************************************************)
LEMMA ListIs ==
  ASSUME NEW list, IsList(list)
  PROVE  Len(list) \in Nat /\ DOMAIN list = 1 .. Len(list)
BY DEF IsList

LEMMA EmptyList == IsList(<<>>) /\ Len(<<>>) = 0 /\ DOMAIN <<>> = {}
BY DEF IsList, Listed

LEMMA ListedIn ==
  ASSUME NEW S, NEW list \in Seq(S)
  PROVE  IsList(list)
<1>1. list = [k \in 1 .. Len(list) |-> list[k]] /\ Len(list) \in Nat
  OBVIOUS
<1>2. \A k \in 1 .. Len(list) : list[k] \in Listed(list)
  BY DEF Listed
<1> QED  BY <1>1, <1>2, SeqDef DEF IsList

LEMMA FunctionList ==
  ASSUME NEW n \in Nat, NEW list, list = [k \in 1 .. n |-> list[k]]
  PROVE  IsList(list) /\ Len(list) = n /\ DOMAIN list = 1 .. n
<1>1. DOMAIN list = 1 .. n
  OBVIOUS
<1>2. \A k \in 1 .. n : list[k] \in Listed(list)
  BY <1>1 DEF Listed
<1>3. list \in [1 .. n -> Listed(list)]
  BY <1>2
<1> QED  BY <1>1, <1>3, SeqDef DEF IsList

LEMMA JoinList ==
  ASSUME NEW s, NEW t, IsList(s), IsList(t)
  PROVE  /\ IsList(s \o t) /\ Len(s \o t) = Len(s) + Len(t)
         /\ \A k \in DOMAIN s : k \in DOMAIN (s \o t) /\ (s \o t)[k] = s[k]
         /\ \A k \in DOMAIN t : /\ Len(s) + k \in DOMAIN (s \o t)
                                /\ (s \o t)[Len(s) + k] = t[k]
         /\ \A k \in DOMAIN (s \o t) :
              IF k <= Len(s) THEN k \in DOMAIN s /\ (s \o t)[k] = s[k]
              ELSE k - Len(s) \in DOMAIN t /\ (s \o t)[k] = t[k - Len(s)]
<1> DEFINE S == Listed(s) \cup Listed(t)
           u == s \o t
<1>1. Len(s) \in Nat /\ DOMAIN s = 1 .. Len(s) /\ Len(t) \in Nat /\ DOMAIN t = 1 .. Len(t)
  BY ListIs
<1>2. s \in Seq(S) /\ t \in Seq(S)
  BY DEF IsList
<1> HIDE DEF S
<1>3. /\ u \in Seq(S) /\ Len(u) = Len(s) + Len(t)
      /\ \A i \in 1 .. Len(s) + Len(t) : u[i] = IF i <= Len(s) THEN s[i] ELSE t[i - Len(s)]
  BY <1>2, ConcatProperties
<1> HIDE DEF u
<1>4. IsList(u) /\ DOMAIN u = 1 .. Len(u)
  BY <1>3, ListedIn
<1>5. \A k \in DOMAIN s : k \in DOMAIN u /\ u[k] = s[k]
  BY <1>1, <1>3, <1>4
<1>6. \A k \in DOMAIN t : Len(s) + k \in DOMAIN u /\ u[Len(s) + k] = t[k]
  BY <1>1, <1>3, <1>4
<1>7. \A k \in DOMAIN u : IF k <= Len(s) THEN k \in DOMAIN s /\ u[k] = s[k]
                          ELSE k - Len(s) \in DOMAIN t /\ u[k] = t[k - Len(s)]
  BY <1>1, <1>3, <1>4
<1> QED  BY <1>3, <1>4, <1>5, <1>6, <1>7 DEF u

LEMMA TailList ==
  ASSUME NEW s, IsList(s), s # <<>>
  PROVE  /\ 1 \in DOMAIN s /\ Head(s) = s[1]
         /\ IsList(Tail(s)) /\ Len(Tail(s)) = Len(s) - 1
         /\ \A k \in DOMAIN Tail(s) : k + 1 \in DOMAIN s /\ Tail(s)[k] = s[k + 1]
         /\ \A k \in DOMAIN s : k # 1 => k - 1 \in DOMAIN Tail(s) /\ Tail(s)[k - 1] = s[k]
<1>1. s \in Seq(Listed(s)) /\ Len(s) \in Nat /\ DOMAIN s = 1 .. Len(s)
  BY ListIs DEF IsList
<1>2. Len(s) > 0
  BY <1>1, EmptySeq
<1> DEFINE t == Tail(s)
<1>3. /\ t \in Seq(Listed(s)) /\ Len(t) = Len(s) - 1
      /\ \A i \in 1 .. Len(t) : t[i] = s[i + 1]
  BY <1>1, HeadTailProperties
<1> HIDE DEF t
<1>4. IsList(t) /\ DOMAIN t = 1 .. Len(t)
  BY <1>3, ListedIn
<1>5. Head(s) = s[1]
  BY <1>1, <1>2
<1> QED  BY <1>1, <1>2, <1>3, <1>4, <1>5 DEF t

\* The bitmap is written to one cluster, if that is on the disk at all.
LEMMA BitmapWritesAre ==
  ASSUME OneBitmapCluster, NEW total \in Totals, NEW used \in SUBSET Clusters
  PROVE  /\ IsList(BitmapWrites(total, used))
         /\ DOMAIN BitmapWrites(total, used) \subseteq {1}
         /\ total >= 2 => 1 \in DOMAIN BitmapWrites(total, used)
         /\ \A k \in DOMAIN BitmapWrites(total, used) :
              LET w == BitmapWrites(total, used)[k]
              IN  /\ WriteOK(w) /\ w.of = "bitmap" /\ w.to = BitmapStart
                  /\ w.put = Bits(used \cap Segment(0))
<1> DEFINE s == BitmapWrites(total, used)
           n == OnDisk(BitmapStart, BitmapClusters(total), total)
<1>1. total \in Nat \ {0} /\ total <= MaxTotal /\ MaxTotal \in Nat
  BY Sizes
<1>2. n \in {0, 1} /\ (n = 1 <=> total >= 2)
  BY <1>1, MetadataIs DEF OnDisk, BitmapStart
<1>3. s = [k \in 1 .. n |->
             [of |-> "bitmap", to |-> BitmapStart + k - 1,
              put |-> Bits(used \cap Segment(k - 1))]]
  BY DEF BitmapWrites
<1> HIDE DEF s, n
<1>4. IsList(s) /\ DOMAIN s = 1 .. n
  <2>1. s = [k \in 1 .. n |-> s[k]] /\ n \in Nat
    BY <1>2, <1>3
  <2> QED  BY <2>1, FunctionList
<1>5. DOMAIN s \subseteq {1} /\ (total >= 2 => 1 \in DOMAIN s)
  BY <1>2, <1>4
<1>6. ASSUME NEW k \in DOMAIN s
      PROVE  /\ WriteOK(s[k]) /\ s[k].of = "bitmap" /\ s[k].to = BitmapStart
             /\ s[k].put = Bits(used \cap Segment(0))
  <2>1. k = 1 /\ n = 1 /\ total >= 2
    BY <1>2, <1>4, <1>5
  <2>2. s[1] = [of |-> "bitmap", to |-> BitmapStart + 1 - 1,
                put |-> Bits(used \cap Segment(1 - 1))]
    BY <1>3, <2>1
  <2>3. s[1].of = "bitmap" /\ s[1].to = BitmapStart /\ s[1].put = Bits(used \cap Segment(0))
    BY <2>2 DEF BitmapStart
  <2>4. BitmapStart \in Clusters
    BY <1>1, <2>1, Sizes DEF BitmapStart
  <2>5. ContentOK(Bits(used \cap Segment(0)))
    BY DEF ContentOK, Bits
  <2> QED  BY <2>1, <2>3, <2>4, <2>5 DEF WriteOK
<1> QED  BY <1>4, <1>5, <1>6 DEF s

LEMMA ChunkOK ==
  ASSUME NEW index \in [InodeIndexes -> InodeValues], NEW k
  PROVE  ContentOK(ChunkOf(index, k))
<1>1. \A i \in Chunk(k) : index[i] \in InodeValues
  BY ChunkInside
<1>2. /\ ChunkOf(index, k).is = "inodes"
      /\ ChunkOf(index, k).table = [i \in Chunk(k) |-> index[i]]
  BY DEF ChunkOf, Inodes
<1> QED  BY <1>1, <1>2 DEF ContentOK

\* The table is written from its start, all of it if it is on the disk.
LEMMA TableWritesAre ==
  ASSUME NEW total \in Totals, NEW index \in [InodeIndexes -> InodeValues]
  PROVE  /\ IsList(TableWrites(total, index))
         /\ Top < total =>
              DOMAIN TableWrites(total, index) = 1 .. TableClusters
         /\ \A k \in DOMAIN TableWrites(total, index) :
              LET w == TableWrites(total, index)[k]
              IN  /\ k \in Nat /\ k - 1 \in TableIndexes
                  /\ WriteOK(w) /\ w.of = "index" /\ w.to = TableStart + (k - 1)
                  /\ w.put = ChunkOf(index, k - 1)
<1> DEFINE s == TableWrites(total, index)
           n == OnDisk(TableStart, TableClusters, total)
<1>1. /\ total \in Nat \ {0} /\ total <= MaxTotal /\ MaxTotal \in Nat
      /\ TableClusters \in Nat \ {0} /\ Top = TableClusters + 1
  BY Sizes
<1>2. /\ n \in 0 .. TableClusters /\ (Top < total => n = TableClusters)
      /\ TableStart + n <= total \/ n = 0
  BY <1>1 DEF OnDisk, TableStart
<1>3. s = [k \in 1 .. n |->
             [of |-> "index", to |-> TableStart + k - 1,
              put |-> Inodes([i \in Chunk(k - 1) |-> index[i]])]]
  BY DEF TableWrites
<1> HIDE DEF s, n
<1>4. IsList(s) /\ DOMAIN s = 1 .. n
  <2>1. s = [k \in 1 .. n |-> s[k]] /\ n \in Nat
    BY <1>2, <1>3
  <2> QED  BY <2>1, FunctionList
<1>5. ASSUME NEW k \in DOMAIN s
      PROVE  /\ k \in Nat /\ k - 1 \in TableIndexes
             /\ WriteOK(s[k]) /\ s[k].of = "index" /\ s[k].to = TableStart + (k - 1)
             /\ s[k].put = ChunkOf(index, k - 1)
  <2>1. k \in 1 .. n /\ k \in Nat /\ k - 1 \in TableIndexes
    BY <1>1, <1>2, <1>4 DEF TableIndexes
  <2>2. s[k] = [of |-> "index", to |-> TableStart + k - 1,
                put |-> Inodes([i \in Chunk(k - 1) |-> index[i]])]
    BY <1>3, <2>1
  <2>3. TableStart + k - 1 = TableStart + (k - 1) /\ TableStart + (k - 1) \in Clusters
    BY <1>1, <1>2, <2>1, Sizes DEF TableStart
  <2>4. s[k].of = "index" /\ s[k].to = TableStart + (k - 1) /\ s[k].put = ChunkOf(index, k - 1)
    BY <2>2, <2>3 DEF ChunkOf
  <2> QED  BY <2>1, <2>3, <2>4, ChunkOK DEF WriteOK
<1>6. Top < total => DOMAIN s = 1 .. TableClusters
  BY <1>2, <1>4
<1> QED  BY <1>4, <1>5, <1>6 DEF s

\* One more write is done.
Done(d, list) == [d EXCEPT ![list[1].to] = list[1].put]

LEMMA WillHoldOn ==
  ASSUME NEW d, NEW list, IsList(list), list # <<>>,
         NEW c \in DOMAIN d, NEW content, WillHold(d, list, c, content)
  PROVE  WillHold(Done(d, list), Tail(list), c, content)
<1> DEFINE w == list[1]
           e == Done(d, list)
           rest == Tail(list)
<1>1. 1 \in DOMAIN list
  BY TailList
<1>2. /\ \A k \in DOMAIN rest : k + 1 \in DOMAIN list /\ rest[k] = list[k + 1]
      /\ \A k \in DOMAIN list : k # 1 => k - 1 \in DOMAIN rest /\ rest[k - 1] = list[k]
      /\ DOMAIN list \subseteq Nat /\ DOMAIN rest \subseteq Nat \ {0}
  BY TailList, ListIs
<1>3. e[c] = IF c = w.to THEN w.put ELSE d[c]
  BY DEF Done
<1> HIDE DEF e, rest, w
<1>4. CASE d[c] = content /\ Spares(list, c)
  <2>1. e[c] = content /\ Spares(rest, c)
    BY <1>1, <1>2, <1>3, <1>4 DEF w, Spares
  <2> QED  BY <2>1 DEF WillHold, e, rest
<1>5. CASE Puts(list, c, content)
  <2>1. PICK k \in DOMAIN list :
             /\ list[k].to = c /\ list[k].put = content
             /\ \A m \in DOMAIN list : m > k => list[m].to # c
    BY <1>5 DEF Puts
  <2>2. CASE k = 1
    <3>1. e[c] = content
      BY <1>3, <2>1, <2>2 DEF w
    <3>2. \A m \in DOMAIN rest : m + 1 \in DOMAIN list /\ m + 1 > 1
      BY <1>2
    <3>3. Spares(rest, c)
      BY <1>2, <2>1, <2>2, <3>2 DEF Spares
    <3> QED  BY <3>1, <3>3 DEF WillHold, e, rest
  <2>3. CASE k # 1
    <3>1. k - 1 \in DOMAIN rest /\ rest[k - 1] = list[k]
      BY <1>2, <2>3
    <3>2. \A m \in DOMAIN rest : m > k - 1 => rest[m].to # c
      BY <1>2, <2>1
    <3> QED  BY <2>1, <3>1, <3>2 DEF WillHold, Puts, rest
  <2> QED  BY <2>2, <2>3
<1> QED  BY <1>4, <1>5 DEF WillHold

LEMMA WillHoldNow ==
  ASSUME NEW d, NEW c, NEW content, WillHold(d, <<>>, c, content)
  PROVE  d[c] = content
BY EmptyList DEF WillHold, Puts

LEMMA PutsLater ==
  ASSUME NEW s, NEW t, IsList(s), IsList(t), NEW c, NEW content, Puts(t, c, content)
  PROVE  Puts(s \o t, c, content)
<1> DEFINE u == s \o t
<1>1. PICK k \in DOMAIN t :
             /\ t[k].to = c /\ t[k].put = content
             /\ \A m \in DOMAIN t : m > k => t[m].to # c
  BY DEF Puts
<1>2. /\ \A m \in DOMAIN t : /\ Len(s) + m \in DOMAIN u
                            /\ u[Len(s) + m] = t[m]
      /\ \A m \in DOMAIN u :
           IF m <= Len(s) THEN m \in DOMAIN s /\ u[m] = s[m]
           ELSE m - Len(s) \in DOMAIN t /\ u[m] = t[m - Len(s)]
  BY JoinList
<1>3. DOMAIN u \subseteq Nat /\ Len(s) \in Nat /\ DOMAIN t \subseteq Nat
  BY JoinList, ListIs
<1> HIDE DEF u
<1>4. ASSUME NEW m \in DOMAIN u, m > Len(s) + k
      PROVE  u[m].to # c
  <2>1. m \in Nat /\ k \in Nat /\ ~(m <= Len(s)) /\ m - Len(s) > k
    BY <1>3, <1>4
  <2>2. m - Len(s) \in DOMAIN t /\ u[m] = t[m - Len(s)]
    BY <1>2, <2>1
  <2> QED  BY <1>1, <2>1, <2>2
<1> QED  BY <1>1, <1>2, <1>4 DEF Puts, u

LEMMA PutsEarlier ==
  ASSUME NEW s, NEW t, IsList(s), IsList(t), NEW c, NEW content,
         Puts(s, c, content), Spares(t, c)
  PROVE  Puts(s \o t, c, content)
<1> DEFINE u == s \o t
<1>1. PICK k \in DOMAIN s :
             /\ s[k].to = c /\ s[k].put = content
             /\ \A m \in DOMAIN s : m > k => s[m].to # c
  BY DEF Puts
<1>2. /\ k \in DOMAIN u /\ u[k] = s[k]
      /\ \A m \in DOMAIN u :
           IF m <= Len(s) THEN m \in DOMAIN s /\ u[m] = s[m]
           ELSE m - Len(s) \in DOMAIN t /\ u[m] = t[m - Len(s)]
  BY JoinList, SMTT(30)
<1> HIDE DEF u
<1>3. ASSUME NEW m \in DOMAIN u, m > k
      PROVE  u[m].to # c
  BY <1>1, <1>2, <1>3 DEF Spares
<1> QED  BY <1>1, <1>2, <1>3 DEF Puts, u

LEMMA SparesJoin ==
  ASSUME NEW s, NEW t, IsList(s), IsList(t), NEW c, Spares(s, c), Spares(t, c)
  PROVE  Spares(s \o t, c)
<1> DEFINE u == s \o t
<1>1. \A k \in DOMAIN u : IF k <= Len(s) THEN k \in DOMAIN s /\ u[k] = s[k]
                          ELSE k - Len(s) \in DOMAIN t /\ u[k] = t[k - Len(s)]
  BY JoinList
<1> HIDE DEF u
<1>2. \A k \in DOMAIN u : u[k].to # c
  BY <1>1 DEF Spares
<1> QED  BY <1>2 DEF Spares, u

LEMMA JoinOK ==
  ASSUME NEW s, NEW t, IsList(s), IsList(t),
         \A k \in DOMAIN s : WriteOK(s[k]), \A k \in DOMAIN t : WriteOK(t[k])
  PROVE  IsList(s \o t) /\ \A k \in DOMAIN (s \o t) : WriteOK((s \o t)[k])
<1> DEFINE u == s \o t
<1>1. \A k \in DOMAIN u : IF k <= Len(s) THEN k \in DOMAIN s /\ u[k] = s[k]
                          ELSE k - Len(s) \in DOMAIN t /\ u[k] = t[k - Len(s)]
  BY JoinList
<1>2. IsList(u)
  BY JoinList
<1> HIDE DEF u
<1>3. \A k \in DOMAIN u : WriteOK(u[k])
  BY <1>1
<1> QED  BY <1>2, <1>3 DEF u

LEMMA OneList ==
  ASSUME NEW w
  PROVE  IsList(<<w>>) /\ Len(<<w>>) = 1 /\ DOMAIN <<w>> = {1} /\ <<w>>[1] = w
<1>1. <<w>> \in Seq({w}) /\ Len(<<w>>) = 1 /\ <<w>>[1] = w
  OBVIOUS
<1>2. IsList(<<w>>)
  BY <1>1, ListedIn
<1>3. DOMAIN <<w>> = 1 .. 1
  BY <1>1, <1>2, ListIs
<1> QED  BY <1>1, <1>2, <1>3

LEMMA ThreeList ==
  ASSUME NEW x, NEW y, NEW z
  PROVE  /\ IsList(<<x, y, z>>) /\ DOMAIN <<x, y, z>> = 1 .. 3
         /\ <<x, y, z>>[1] = x /\ <<x, y, z>>[2] = y /\ <<x, y, z>>[3] = z
<1>1. /\ <<x, y, z>> \in Seq({x, y, z}) /\ Len(<<x, y, z>>) = 3
      /\ <<x, y, z>>[1] = x /\ <<x, y, z>>[2] = y /\ <<x, y, z>>[3] = z
  OBVIOUS
<1>2. IsList(<<x, y, z>>)
  BY <1>1, ListedIn
<1>3. DOMAIN <<x, y, z>> = 1 .. 3
  BY <1>1, <1>2, ListIs
<1> QED  BY <1>1, <1>2, <1>3

------------------------------------------------------------------------------
(***************************************************************************)
(* Disks that differ in a few clusters.                                    *)
(***************************************************************************)
LEMMA FormedIs ==
  ASSUME OneBitmapCluster, NEW d, Formed(d)
  PROVE  /\ d[0].total \in Totals /\ d[0].total \in Nat
         /\ Top + 2 <= d[0].total /\ d[0].total <= MaxTotal
         /\ FilePlaces(d[0].total) = Top + 1 .. d[0].total - 1
         /\ Metadata(d[0].total) = 0 .. Top
         /\ RootIn(d) \in Top + 1 .. d[0].total - 1
         /\ \A n \in DOMAIN NamesIn(d) : NamesIn(d)[n] \in InodeIndexes \ {Root}
<1>1. /\ d[0].total \in Totals /\ Fits(d[0].total)
      /\ RootIn(d) \in FilePlaces(d[0].total)
      /\ \A n \in DOMAIN NamesIn(d) : NamesIn(d)[n] \in FileInodes
  BY DEF Formed
<1>2. FileInodes \subseteq InodeIndexes \ {Root}
  BY Sizes DEF FileInodes, InodeIndexes
<1> QED  BY <1>1, <1>2, MetadataIs, Sizes

\* Only the bitmap differs.
LEMMA BitmapApart ==
  ASSUME OneBitmapCluster, NEW d, NEW e, Formed(d),
         \A c \in Clusters : c # BitmapStart => e[c] = d[c]
  PROVE  /\ Formed(e) /\ TableOf(e) = TableOf(d) /\ e[0] = d[0]
         /\ \A p : Recoverable(d, p) => Recoverable(e, p)
<1>1. /\ \A c \in {0} \cup 2 .. Top : c \in Clusters
      /\ \A c \in FilePlaces(d[0].total) : c \in Clusters /\ c # BitmapStart
  BY FormedIs, Sizes DEF BitmapStart
<1>2. e[0] = d[0] /\ \A c \in 2 .. Top : e[c] = d[c]
  BY <1>1, Sizes DEF BitmapStart
<1>3. /\ TableOf(e) = TableOf(d) /\ RootIn(e) = RootIn(d)
      /\ \A k \in TableIndexes : e[TableStart + k] = d[TableStart + k]
  BY <1>2, TableFixed
<1>4. \A c \in FilePlaces(d[0].total) : e[c] = d[c]
  BY <1>1
<1>5. NamesIn(e) = NamesIn(d) /\ e[RootIn(e)] = d[RootIn(d)]
  BY <1>3, <1>4 DEF NamesIn, Formed
<1>6. Formed(e)
  BY <1>2, <1>3, <1>5 DEF Formed
<1>7. ASSUME NEW p, Recoverable(d, p)
      PROVE  Recoverable(e, p)
  BY <1>2, <1>3, <1>4, <1>5, <1>7 DEF Recoverable, Keeps
<1> QED  BY <1>2, <1>3, <1>6, <1>7

\* The table, or the bitmap, gets a cluster that memory has.
LEMMA MetadataWritten ==
  ASSUME OneBitmapCluster, NEW d, DOMAIN d = Clusters, Formed(d),
         NEW used, NEW index, NEW p, NEW t, Current(d, used, index, p, t),
         NEW w, BitmapWrite(w, used) \/ TableWrite(w, index),
         NEW e, \A c \in Clusters : e[c] = IF c = w.to THEN w.put ELSE d[c]
  PROVE  /\ Formed(e) /\ e[0] = d[0] /\ NamesIn(e) = NamesIn(d)
         /\ Current(e, used, index, p, t)
         /\ TableIs(d, index) => TableIs(e, index)
<1>1. w.to \in 1 .. Top
  BY TableCluster, Sizes DEF BitmapWrite, TableWrite, BitmapStart
<1>2. \A c \in Clusters : c # w.to => e[c] = d[c]
  OBVIOUS
<1>3. e[0] = d[0] /\ \A c \in FilePlaces(d[0].total) : e[c] = d[c]
  BY <1>1, <1>2, FormedIs, Sizes, SMTT(30)
<1>4. index \in [InodeIndexes -> {Unused} \cup 0 .. d[0].total - 1] /\ index[Root] = RootIn(d)
  BY DEF Current
<1>5. ASSUME NEW k \in TableIndexes
      PROVE  \/ e[TableStart + k] = d[TableStart + k]
             \/ e[TableStart + k] = ChunkOf(index, k)
  <2>1. TableStart + k \in 2 .. Top /\ TableStart + k \in Clusters
    BY TableCluster, FormedIs, Sizes
  <2>2. CASE w.to = TableStart + k
    <3>1. TableWrite(w, index)
      BY <2>1, <2>2 DEF BitmapWrite, BitmapStart
    <3>2. PICK j \in TableIndexes : w.to = TableStart + j /\ w.put = ChunkOf(index, j)
      BY <3>1 DEF TableWrite
    <3>3. j = k
      BY <2>2, <3>2, Sizes DEF TableIndexes, TableStart
    <3> QED  BY <2>1, <2>2, <3>2, <3>3
  <2>3. CASE w.to # TableStart + k
    BY <1>2, <2>1, <2>3
  <2> QED  BY <2>2, <2>3
<1>6. ASSUME NEW i \in InodeIndexes
      PROVE  TableOf(e)[i] = TableOf(d)[i] \/ TableOf(e)[i] = index[i]
  <2> DEFINE k == i \div InodesPerCluster
  <2>1. k \in TableIndexes /\ i \in Chunk(k)
    BY InodePlace
  <2>2. /\ TableOf(e)[i] = InodeReading(e[TableStart + k], k)[i]
        /\ TableOf(d)[i] = InodeReading(d[TableStart + k], k)[i]
    BY DEF TableOf
  <2> HIDE DEF k
  <2>3. CASE e[TableStart + k] = d[TableStart + k]
    BY <2>2, <2>3
  <2>4. CASE e[TableStart + k] = ChunkOf(index, k)
    <3>1. InodeReading(e[TableStart + k], k) = [j \in Chunk(k) |-> index[j]]
      BY <2>4, InodesReading DEF ChunkOf, Inodes
    <3> QED  BY <2>1, <2>2, <3>1
  <2> QED  BY <1>5, <2>1, <2>3, <2>4
<1>7. RootIn(e) = RootIn(d)
  BY <1>4, <1>6, Sizes DEF RootIn
<1>8. e[RootIn(e)] = d[RootIn(d)] /\ NamesIn(e) = NamesIn(d)
  BY <1>3, <1>7 DEF Formed, NamesIn
<1>9. Formed(e)
  <2>1. ASSUME NEW k \in TableIndexes
        PROVE  e[TableStart + k].is = "inodes" /\ DOMAIN e[TableStart + k].table = Chunk(k)
    <3>1. d[TableStart + k].is = "inodes" /\ DOMAIN d[TableStart + k].table = Chunk(k)
      BY DEF Formed
    <3>2. ChunkOf(index, k).is = "inodes" /\ DOMAIN ChunkOf(index, k).table = Chunk(k)
      BY ChunkShape
    <3> QED  BY <1>5, <3>1, <3>2, Zenon
  <2> QED  BY <1>3, <1>7, <1>8, <2>1 DEF Formed
<1>10. TableIs(d, index) => TableIs(e, index)
  BY <1>5 DEF TableIs
<1>11. BitmapIs(d, used) => BitmapIs(e, used)
  <2>1. BitmapStart \in Clusters
    BY FormedIs, Sizes DEF BitmapStart
  <2>2. CASE w.to # BitmapStart
    BY <1>2, <2>1, <2>2 DEF BitmapIs
  <2>3. CASE w.to = BitmapStart
    <3>1. BitmapWrite(w, used)
      BY <2>3, TableCluster DEF TableWrite, BitmapStart
    <3> QED  BY <2>1, <2>3, <3>1 DEF BitmapWrite, BitmapIs
  <2> QED  BY <2>2, <2>3
<1>12. Current(e, used, index, p, t)
  <2>1. \A n \in DOMAIN NamesIn(d) : NamesIn(d)[n] \in InodeIndexes
    BY FormedIs
  <2>2. \A n \in DOMAIN NamesIn(d) \ t :
          TableOf(e)[NamesIn(d)[n]] = index[NamesIn(d)[n]]
    BY <1>6, <2>1 DEF Current
  <2>3. \A c, what : Keeps(d, c, what) => Keeps(e, c, what)
    BY <1>3 DEF Keeps
  <2>4. \A n \in Names :
          IF n \in DOMAIN NamesIn(e) THEN Keeps(e, index[NamesIn(e)[n]], p[n])
          ELSE p[n] = None
    BY <1>8, <2>3 DEF Current
  <2>5. t = {} => TableIs(e, index) /\ BitmapIs(e, used)
    BY <1>10, <1>11 DEF Current
  <2>6. /\ used \in SUBSET (0 .. e[0].total - 1)
        /\ index \in [InodeIndexes -> {Unused} \cup 0 .. e[0].total - 1]
        /\ Agreed(e[0].total, used, index)
        /\ index[Root] = RootIn(e)
    BY <1>3, <1>7 DEF Current
  <2>7. \A m, n \in DOMAIN NamesIn(e) : NamesIn(e)[m] = NamesIn(e)[n] => m = n
    BY <1>8 DEF Current
  <2>8. \A n \in DOMAIN NamesIn(e) \ t :
          TableOf(e)[NamesIn(e)[n]] = index[NamesIn(e)[n]]
    BY <1>8, <2>2
  <2> QED  BY <2>4, <2>5, <2>6, <2>7, <2>8 DEF Current
<1> QED  BY <1>3, <1>8, <1>9, <1>10, <1>12

\* What was not touched can be read from the disk.
LEMMA CurrentRecoverable ==
  ASSUME NEW d, NEW used, NEW index, NEW p, NEW t, Current(d, used, index, p, t),
         NEW q, DOMAIN q \subseteq Names \ t, \A n \in DOMAIN q : q[n] = p[n]
  PROVE  Recoverable(d, q)
<1>1. ASSUME NEW n \in DOMAIN q
      PROVE  IF n \in DOMAIN NamesIn(d)
             THEN Keeps(d, TableOf(d)[NamesIn(d)[n]], q[n])
             ELSE q[n] = None
  BY DEF Current
<1> QED  BY <1>1 DEF Recoverable

\* A disk that memory agrees with.
LEMMA CurrentNow ==
  ASSUME NEW d, NEW used, NEW index, NEW p, NEW t, Current(d, used, index, p, t),
         TableIs(d, index), BitmapIs(d, used), Formed(d), OneBitmapCluster,
         NEW q, \A n \in Names : q[n] = p[n]
  PROVE  Current(d, used, index, q, {})
<1>1. \A n \in DOMAIN NamesIn(d) : NamesIn(d)[n] \in InodeIndexes
  BY FormedIs
<1>2. \A n \in DOMAIN NamesIn(d) \ {} :
        TableOf(d)[NamesIn(d)[n]] = index[NamesIn(d)[n]]
  BY <1>1, TableIsAt
<1>3. \A n \in Names :
        IF n \in DOMAIN NamesIn(d) THEN Keeps(d, index[NamesIn(d)[n]], q[n])
        ELSE q[n] = None
  BY DEF Current
<1> QED  BY <1>2, <1>3 DEF Current

------------------------------------------------------------------------------
(***************************************************************************)
(* A disk that is formatted.                                               *)
(***************************************************************************)
LEMMA FirstFreeIs ==
  ASSUME NEW total \in Nat, NEW used, FreeBits(total, used) # {}
  PROVE  /\ FirstFree(total, used) \in 0 .. total - 1
         /\ FirstFree(total, used) \notin used
         /\ \A c \in 0 .. total - 1 : c < FirstFree(total, used) => c \in used
<1> DEFINE S == FreeBits(total, used)
<1>1. S \in SUBSET Nat /\ S # {}
  BY DEF FreeBits
<1>2. \E x \in S : \A y \in S : x <= y
  BY <1>1, LeastNatural
<1>3. FirstFree(total, used) \in S /\ \A y \in S : FirstFree(total, used) <= y
  BY <1>2 DEF FirstFree, Min
<1> QED  BY <1>1, <1>3 DEF FreeBits

\* The root directory gets the first cluster behind the table.
LEMMA FormatRootIs ==
  ASSUME OneBitmapCluster, NEW total \in Totals, Fits(total)
  PROVE  FormatRoot(total) = Top + 1 /\ Top + 1 \in FilePlaces(total)
<1>1. total \in Nat /\ Top \in Nat /\ Top + 2 <= total /\ Metadata(total) = 0 .. Top
  BY MetadataIs, Sizes
<1>2. Top + 1 \in FreeBits(total, Metadata(total))
  BY <1>1 DEF FreeBits
<1>3. /\ FormatRoot(total) \in 0 .. total - 1
      /\ FormatRoot(total) \notin Metadata(total)
      /\ \A c \in 0 .. total - 1 : c < FormatRoot(total) => c \in Metadata(total)
  BY <1>1, <1>2, FirstFreeIs DEF FormatRoot
<1>4. FormatRoot(total) = Top + 1
  BY <1>1, <1>3
<1> QED  BY <1>1, <1>4, MetadataIs

LEMMA FormatIndexIs ==
  ASSUME OneBitmapCluster, NEW total \in Totals, Fits(total)
  PROVE  /\ FormatIndex(total) \in [InodeIndexes -> {Unused} \cup 0 .. total - 1]
         /\ FormatIndex(total) \in [InodeIndexes -> InodeValues]
         /\ FormatIndex(total)[Root] = Top + 1
         /\ Holders(FormatIndex(total)) = {Root}
<1>1. /\ FormatRoot(total) = Top + 1 /\ Top + 1 \in 0 .. total - 1
      /\ Top \in Nat /\ total \in Nat /\ 0 .. total - 1 \subseteq Clusters
      /\ Root \in InodeIndexes
  BY FormatRootIs, MetadataIs, Sizes DEF FilePlaces
<1>2. ASSUME NEW i \in InodeIndexes
      PROVE  FormatIndex(total)[i] = IF i = Root THEN Top + 1
                                     ELSE IF i < Root THEN 0 ELSE Unused
  BY <1>1 DEF FormatIndex
<1>3. \A i \in InodeIndexes : FormatIndex(total)[i] \in {Unused} \cup 0 .. total - 1
  BY <1>1, <1>2
<1>4. FormatIndex(total) \in [InodeIndexes -> {Unused} \cup 0 .. total - 1]
  BY <1>3 DEF FormatIndex
<1>5. FormatIndex(total) \in [InodeIndexes -> InodeValues]
  BY <1>1, <1>4 DEF InodeValues
<1>6. \A i \in InodeIndexes : FormatIndex(total)[i] > 0 <=> i = Root
  BY <1>1, <1>2 DEF Unused
<1> QED  BY <1>1, <1>2, <1>4, <1>5, <1>6 DEF Holders

LEMMA Formatted ==
  ASSUME OneBitmapCluster, NEW d, NEW total, WillBeFormatted(d, <<>>, total),
         NEW p, \A n \in Names : p[n] = None
  PROVE  /\ Formed(d) /\ d[0].total = total
         /\ Current(d, Metadata(total) \cup {FormatRoot(total)}, FormatIndex(total), p, {})
         /\ Metadata(total) \cup {FormatRoot(total)} \subseteq Clusters
         /\ TableIs(d, FormatIndex(total))
         /\ BitmapIs(d, Metadata(total) \cup {FormatRoot(total)})
<1> DEFINE index == FormatIndex(total)
           r == Top + 1
           used == Metadata(total) \cup {FormatRoot(total)}
<1>1. total \in Totals /\ Fits(total)
  BY DEF WillBeFormatted
<1>2. /\ FormatRoot(total) = r /\ r \in FilePlaces(total)
      /\ index \in [InodeIndexes -> {Unused} \cup 0 .. total - 1]
      /\ index[Root] = r /\ Holders(index) = {Root}
      /\ Metadata(total) = 0 .. Top /\ FilePlaces(total) = r .. total - 1
      /\ 0 .. total - 1 \subseteq Clusters
  BY <1>1, FormatRootIs, FormatIndexIs, MetadataIs
<1> HIDE DEF index
<1>3. d[0] = Super(total, Root) /\ d[r] = Entries(<<>>) /\ d[BitmapStart] = Bits(used)
  BY <1>2, WillHoldNow DEF WillBeFormatted
<1>4. \A k \in TableIndexes : d[TableStart + k] = ChunkOf(index, k)
  BY WillHoldNow DEF WillBeFormatted, TableWillBe, index
<1>5. d[0].total = total
  BY <1>3 DEF Super
<1>6. TableIs(d, index) /\ BitmapIs(d, used)
  BY <1>3, <1>4 DEF TableIs, BitmapIs
<1>7. RootIn(d) = r
  BY <1>2, <1>6, TableIsAt, Sizes DEF RootIn
<1>8. d[r].is = "entries" /\ NamesIn(d) = <<>> /\ DOMAIN NamesIn(d) = {}
  BY <1>3, <1>7, EmptyList DEF Entries, NamesIn
<1>9. \A k \in TableIndexes : /\ d[TableStart + k].is = "inodes"
                              /\ DOMAIN d[TableStart + k].table = Chunk(k)
  BY <1>4, ChunkShape
<1>10. Formed(d)
  BY <1>1, <1>2, <1>3, <1>5, <1>7, <1>8, <1>9 DEF Formed
<1>11. Agreed(total, used, index)
  <2>1. used = Metadata(total) \cup {index[i] : i \in Holders(index)}
    BY <1>2
  <2>2. index[Root] \notin Metadata(total)
    BY <1>2 DEF FilePlaces
  <2> QED  BY <1>2, <2>1, <2>2 DEF Agreed
<1>12. used \in SUBSET (0 .. total - 1)
  BY <1>1, <1>2, MetadataIs, Sizes
<1>13. Current(d, used, index, p, {})
  BY <1>2, <1>5, <1>6, <1>7, <1>8, <1>11, <1>12 DEF Current
<1> QED  BY <1>2, <1>5, <1>6, <1>10, <1>12, <1>13 DEF index

\* Bitmap and table on their way to the disk.
LEMMA BitmapPuts ==
  ASSUME OneBitmapCluster, NEW total \in Totals, total >= 2,
         NEW used \in SUBSET (0 .. total - 1)
  PROVE  /\ Puts(BitmapWrites(total, used), BitmapStart, Bits(used))
         /\ \A c : c # BitmapStart => Spares(BitmapWrites(total, used), c)
<1>1. used \in SUBSET Clusters /\ used \cap Segment(0) = used
  BY MetadataIs
<1> DEFINE s == BitmapWrites(total, used)
<1>2. /\ 1 \in DOMAIN s /\ DOMAIN s \subseteq {1}
      /\ \A k \in DOMAIN s : s[k].to = BitmapStart /\ s[k].put = Bits(used)
  BY <1>1, BitmapWritesAre
<1> HIDE DEF s
<1>3. Puts(s, BitmapStart, Bits(used))
  BY <1>2 DEF Puts
<1>4. \A c : c # BitmapStart => Spares(s, c)
  BY <1>2 DEF Spares
<1> QED  BY <1>3, <1>4 DEF s

LEMMA TablePuts ==
  ASSUME NEW total \in Totals, Top < total, NEW index \in [InodeIndexes -> InodeValues]
  PROVE  /\ \A k \in TableIndexes :
              Puts(TableWrites(total, index), TableStart + k, ChunkOf(index, k))
         /\ \A c : c \notin 2 .. Top => Spares(TableWrites(total, index), c)
<1> DEFINE s == TableWrites(total, index)
<1>1. /\ DOMAIN s = 1 .. TableClusters
      /\ \A k \in DOMAIN s : /\ k \in Nat /\ k - 1 \in TableIndexes
                             /\ s[k].to = TableStart + (k - 1)
                             /\ s[k].put = ChunkOf(index, k - 1)
  BY TableWritesAre
<1> HIDE DEF s
<1>2. ASSUME NEW k \in TableIndexes
      PROVE  Puts(s, TableStart + k, ChunkOf(index, k))
  <2>1. k \in Nat /\ k + 1 \in DOMAIN s /\ (k + 1) - 1 = k
    BY <1>1, Sizes DEF TableIndexes
  <2>2. s[k + 1].to = TableStart + k /\ s[k + 1].put = ChunkOf(index, k)
    BY <1>1, <2>1
  <2>3. \A m \in DOMAIN s : m > k + 1 => s[m].to # TableStart + k
    BY <1>1, <2>1 DEF TableStart
  <2> QED  BY <2>1, <2>2, <2>3 DEF Puts
<1>3. \A c : c \notin 2 .. Top => Spares(s, c)
  BY <1>1, TableCluster DEF Spares
<1> QED  BY <1>2, <1>3 DEF s

LEMMA FormatStarts ==
  ASSUME OneBitmapCluster, NEW total \in Totals
  PROVE  /\ IsList(FormatWrites(total)) /\ FormatWrites(total) # <<>>
         /\ \A k \in DOMAIN FormatWrites(total) : WriteOK(FormatWrites(total)[k])
         /\ Fits(total) => \A d : WillBeFormatted(d, FormatWrites(total), total)
<1> DEFINE w == [of |-> "super", to |-> 0, put |-> Super(total, 0)]
           first == <<w>>
<1>1. IsList(first) /\ Len(first) = 1 /\ DOMAIN first = {1} /\ first[1] = w
  BY OneList
<1>2. WriteOK(w)
  <2>1. 0 \in Clusters /\ ContentOK(Super(total, 0))
    BY Sizes DEF ContentOK, Super
  <2> QED  BY <2>1 DEF WriteOK
<1> HIDE DEF w, first
<1>3. CASE ~Fits(total)
  <2>1. FormatWrites(total) = first
    BY <1>3 DEF FormatWrites, first, w
  <2>2. first # <<>>
    BY <1>1, EmptyList
  <2> QED  BY <1>1, <1>2, <1>3, <2>1, <2>2
<1>4. CASE Fits(total)
  <2> DEFINE r == FormatRoot(total)
             used == Metadata(total) \cup {r}
             index == FormatIndex(total)
             x == [of |-> "root", to |-> r, put |-> Zero]
             y == [of |-> "root", to |-> r, put |-> Entries(<<>>)]
             z == [of |-> "super", to |-> 0, put |-> Super(total, Root)]
             three == <<x, y, z>>
             tw == TableWrites(total, index)
             bw == BitmapWrites(total, used)
             tt == three \o tw
             rest == tt \o bw
             all == first \o rest
  <2>1. FormatWrites(total) = all
    BY <1>4 DEF FormatWrites, FormatRoot, FormatIndex, InodeIndexes, first, w
  <2>2. /\ r = Top + 1 /\ Top + 1 \in 0 .. total - 1 /\ Top \in Nat /\ total \in Nat
        /\ 0 .. total - 1 \subseteq Clusters /\ Metadata(total) = 0 .. Top
        /\ index \in [InodeIndexes -> InodeValues] /\ Top < total /\ total >= 2
    BY <1>4, FormatRootIs, FormatIndexIs, MetadataIs, Sizes DEF FilePlaces
  <2>3. IsList(three) /\ DOMAIN three = 1 .. 3 /\ three[1] = x /\ three[2] = y /\ three[3] = z
    BY ThreeList
  <2>4. WriteOK(x) /\ WriteOK(y) /\ WriteOK(z)
    <3>1. ContentOK(Zero) /\ ContentOK(Super(total, Root)) /\ ContentOK(Entries(<<>>))
      BY EmptyList DEF ContentOK, Super, Entries
    <3>2. 0 \in Clusters /\ r \in Clusters
      BY <2>2, Sizes
    <3> QED  BY <3>1, <3>2 DEF WriteOK
  <2>5. used \in SUBSET (0 .. total - 1) /\ used \in SUBSET Clusters
    BY <2>2
  <2>6. /\ Puts(three, r, Entries(<<>>)) /\ Puts(three, 0, Super(total, Root))
    <3>1. y.to = r /\ y.put = Entries(<<>>) /\ z.to = 0 /\ z.put = Super(total, Root) /\ r # 0
      BY <2>2
    <3> HIDE DEF three, x, y, z, r
    <3>2. 2 \in DOMAIN three /\ 3 \in DOMAIN three
          /\ \A m \in DOMAIN three : (m > 2 => m = 3) /\ ~(m > 3)
      BY <2>3
    <3>3. Puts(three, r, Entries(<<>>))
      BY <2>3, <3>1, <3>2 DEF Puts
    <3>4. Puts(three, 0, Super(total, Root))
      BY <2>3, <3>1, <3>2 DEF Puts
    <3> QED  BY <3>3, <3>4
  <2> HIDE DEF index, three, x, y, z, r, used
  <2>7. /\ IsList(tw)
        /\ \A k \in DOMAIN tw : WriteOK(tw[k])
        /\ \A k \in TableIndexes : Puts(tw, TableStart + k, ChunkOf(index, k))
        /\ \A c : c \notin 2 .. Top => Spares(tw, c)
    BY <2>2, TableWritesAre, TablePuts
  <2>8. /\ IsList(bw)
        /\ \A k \in DOMAIN bw : WriteOK(bw[k])
        /\ Puts(bw, BitmapStart, Bits(used))
        /\ \A c : c # BitmapStart => Spares(bw, c)
    BY <2>2, <2>5, BitmapWritesAre, BitmapPuts
  <2> HIDE DEF tw, bw
  <2>9. IsList(tt) /\ (\A k \in DOMAIN tt : WriteOK(tt[k]))
        /\ Puts(tt, r, Entries(<<>>)) /\ Puts(tt, 0, Super(total, Root))
        /\ \A k \in TableIndexes : Puts(tt, TableStart + k, ChunkOf(index, k))
    <3>1. r \notin 2 .. Top /\ 0 \notin 2 .. Top
      BY <2>2
    <3>2. \A k \in DOMAIN three : WriteOK(three[k])
      BY <2>3, <2>4
    <3>3. IsList(tt) /\ \A k \in DOMAIN tt : WriteOK(tt[k])
      BY <2>3, <2>7, <3>2, JoinOK
    <3> QED  BY <2>3, <2>6, <2>7, <3>1, <3>3, PutsEarlier, PutsLater
  <2> HIDE DEF tt
  <2>10. IsList(rest) /\ (\A k \in DOMAIN rest : WriteOK(rest[k]))
        /\ Puts(rest, r, Entries(<<>>)) /\ Puts(rest, 0, Super(total, Root))
        /\ Puts(rest, BitmapStart, Bits(used))
        /\ \A k \in TableIndexes : Puts(rest, TableStart + k, ChunkOf(index, k))
    <3>1. r # BitmapStart /\ 0 # BitmapStart
          /\ \A k \in TableIndexes : TableStart + k # BitmapStart
      BY <2>2, TableCluster, Sizes DEF BitmapStart
    <3>2. IsList(rest) /\ \A k \in DOMAIN rest : WriteOK(rest[k])
      BY <2>8, <2>9, JoinOK
    <3> QED  BY <2>8, <2>9, <3>1, <3>2, PutsEarlier, PutsLater
  <2> HIDE DEF rest
  <2>11. IsList(all) /\ (\A k \in DOMAIN all : WriteOK(all[k])) /\ all # <<>>
        /\ Puts(all, r, Entries(<<>>)) /\ Puts(all, 0, Super(total, Root))
        /\ Puts(all, BitmapStart, Bits(used))
        /\ \A k \in TableIndexes : Puts(all, TableStart + k, ChunkOf(index, k))
    <3>1. IsList(all) /\ \A k \in DOMAIN all : WriteOK(all[k])
      BY <1>1, <1>2, <2>10, JoinOK
    <3>2. 1 \in DOMAIN all
      BY <1>1, <2>10, JoinList
    <3>3. all # <<>>
      BY <3>2, EmptyList
    <3> QED  BY <1>1, <2>10, <3>1, <3>3, PutsLater
  <2> HIDE DEF all
  <2>12. \A d : WillBeFormatted(d, all, total)
    BY <1>4, <2>11 DEF WillBeFormatted, WillHold, TableWillBe, index, r, used
  <2> QED  BY <2>1, <2>11, <2>12
<1> QED  BY <1>3, <1>4

LEMMA ClusterZero == 0 \in Clusters
<1>1. PICK most \in Totals : most \in Nat \ {0}
  BY LayoutAssumption
<1> QED  BY <1>1, Sizes

------------------------------------------------------------------------------
(***************************************************************************)
(* Formatting and mounting.                                                *)
(***************************************************************************)
LEMMA Initially ==
  ASSUME Init
  PROVE  IInv
<1>1. /\ disk = [c \in Clusters |-> Zero] /\ mem = Unmounted /\ task = "none"
      /\ left = {} /\ todo = <<>> /\ failed = FALSE /\ promise = <<>>
      /\ touched = {} /\ shaken = TRUE /\ ~mem.up /\ DOMAIN promise = {}
  BY EmptyList DEF Init, Unmounted
<1>2. \A c \in Clusters : ContentOK(disk[c])
  BY <1>1 DEF ContentOK
<1>3. Typed
  BY <1>1, <1>2, EmptyList DEF Typed
<1> QED  BY <1>1, <1>3, EmptyList DEF IInv, InOrder, Formatting, Promised, Unshaken, Shaken

LEMMA FormatKeeps ==
  ASSUME OneBitmapCluster, IInv, Format
  PROVE  IInv'
<1>1. PICK total \in Totals : /\ task' = "format" /\ todo' = FormatWrites(total)
                              /\ failed' = ~Fits(total)
  BY DEF Format
<1>2. /\ promise' = <<>> /\ DOMAIN promise' = {} /\ touched' = {} /\ shaken' = TRUE
      /\ disk' = disk /\ mem' = mem /\ left' = left /\ ~mem.up /\ left = {}
  BY EmptyList DEF Format, IInv, Typed
<1>3. /\ IsList(todo') /\ todo' # <<>> /\ \A k \in DOMAIN todo' : WriteOK(todo'[k])
      /\ Fits(total) => WillBeFormatted(disk, todo', total)
  BY <1>1, FormatStarts
<1>4. Typed'
  <2>1. (mem = Unmounted \/ MemOK)'
    BY <1>2 DEF IInv, Typed, MemOK
  <2>2. failed' \in BOOLEAN
    BY <1>1
  <2>3. disk' = [c \in Clusters |-> disk'[c]] /\ \A c \in Clusters : ContentOK(disk'[c])
    BY <1>2 DEF IInv, Typed
  <2> QED  BY <1>1, <1>2, <1>3, <2>1, <2>2, <2>3 DEF Typed
<1>5. InOrder'
  BY <1>1, <1>2 DEF InOrder
<1>6. Formatting'
  BY <1>1, <1>2, <1>3 DEF Formatting
<1>7. Promised' /\ Unshaken' /\ Shaken'
  BY <1>1, <1>2 DEF Promised, Unshaken, Shaken
<1> QED  BY <1>4, <1>5, <1>6, <1>7 DEF IInv

\* The bitmap that is read is the one that was written.
LEMMA BitmapRead ==
  ASSUME OneBitmapCluster, NEW total \in Totals, NEW used \in SUBSET (0 .. total - 1),
         BitmapIs(disk, used), NEW x \in BitmapReadings(BitmapClusters(total))
  PROVE  x = used
<1>1. /\ BitmapClusters(total) = 1 /\ 0 .. total - 1 \subseteq Clusters
      /\ 0 .. total - 1 \subseteq Segment(0)
  BY MetadataIs
<1>2. x \in BitmapReadings(1)
  BY <1>1
<1>3. /\ x \in SUBSET (Clusters \cap (0 .. 1 * BitsPerCluster - 1))
      /\ x \cap Segment(0) \in
           {b \cap Clusters : b \in BitReadings(disk[BitmapStart + 0], 0)}
  BY <1>2 DEF BitmapReadings
<1>4. BitReadings(disk[BitmapStart + 0], 0) = {used \cap Segment(0)}
  <2>1. disk[BitmapStart + 0] = Bits(used)
    BY DEF BitmapIs, BitmapStart
  <2> QED  BY <2>1 DEF BitReadings, Bits
<1>5. x \cap Segment(0) = used
  BY <1>1, <1>3, <1>4
<1>6. x \subseteq Segment(0)
  <2>1. BitsPerCluster \in Nat
    BY LayoutAssumption
  <2>2. 0 * BitsPerCluster = 0 /\ (0 + 1) * BitsPerCluster = 1 * BitsPerCluster
    BY <2>1
  <2> QED  BY <1>3, <2>1, <2>2 DEF Segment
<1> QED  BY <1>5, <1>6

LEMMA MountKeeps ==
  ASSUME OneBitmapCluster, IInv, Mount
  PROVE  IInv'
<1> DEFINE total == disk[0].total
<1>1. PICK used \in BitmapReadings(BitmapClusters(total)) :
        mem' = [up |-> TRUE, total |-> total, root |-> disk[0].root,
                used |-> used, index |-> TableReading, dirty |-> FALSE]
  BY DEF Mount
<1>2. /\ disk' = disk /\ task' = task /\ left' = left /\ todo' = todo
      /\ failed' = failed /\ promise' = promise /\ touched' = touched
      /\ shaken' = shaken
      /\ task = "none" /\ ~mem.up /\ disk[0].is = "super"
      /\ BitmapFits(total) /\ TableFits(total)
  BY DEF Mount, Mountable
<1>3. left = {} /\ touched = {} /\ todo = <<>>
  BY <1>2 DEF IInv, Typed, InOrder
<1>4. total \in Totals
  <2>1. ContentOK(disk[0])
    BY ClusterZero DEF IInv, Typed
  <2> QED  BY <1>2, <2>1 DEF ContentOK, Zero
<1>5. total \in Nat /\ total >= 2 /\ Top < total /\ total <= MaxTotal
  <2>1. BitmapStart + 1 <= total /\ TableStart + TableClusters <= total
    BY <1>2, <1>4, MetadataIs DEF BitmapFits, TableFits
  <2> QED  BY <1>4, <2>1, Sizes DEF BitmapStart, TableStart
<1>6. TableReading = TableOf(disk) /\ TableOf(disk) \in [InodeIndexes -> InodeValues]
  <2>1. \A k \in TableIndexes : ContentOK(disk[TableStart + k])
    <3>1. \A k \in TableIndexes : TableStart + k \in Clusters
      BY <1>5, TableCluster, Sizes
    <3> QED  BY <3>1 DEF IInv, Typed
  <2> QED  BY <2>1, TableIsRead, ReadingTyped
<1>7. used \in SUBSET Clusters
  BY DEF BitmapReadings
<1>8. Typed'
  <2>1. MemOK'
    BY <1>1, <1>4, <1>5, <1>6, <1>7 DEF MemOK
  <2> QED  BY <1>2, <2>1 DEF IInv, Typed
<1>9. InOrder'
  BY <1>2, <1>3 DEF InOrder
<1>10. Formatting'
  BY <1>2 DEF Formatting
<1>11. Promised'
  <2>1. ~shaken \/ DOMAIN promise # {} => disk[0].root = Root
    BY DEF IInv, Promised, Formed, Super
  <2> QED  BY <1>1, <1>2, <1>6, <2>1 DEF IInv, Promised
<1>12. Unshaken'
  <2>1. CASE shaken
    BY <1>2, <2>1 DEF Unshaken
  <2>2. CASE ~shaken
    <3>1. DOMAIN promise = Names
      BY <2>2 DEF IInv, Unshaken
    <3>2. PICK u \in SUBSET Clusters, index \in [InodeIndexes -> InodeValues] :
            Whole(u, index)
      BY <2>2 DEF IInv, Unshaken
    <3>3. /\ Current(disk, u, index, promise, touched)
          /\ u \in SUBSET (0 .. total - 1) /\ TableIs(disk, index) /\ BitmapIs(disk, u)
      BY <1>3, <3>2 DEF Whole, Current
    <3>4. TableOf(disk) = index
      BY <3>3, TableIsAll
    <3>5. used = u
      BY <1>4, <3>3, BitmapRead
    <3>6. mem'.used = u /\ mem'.index = index
      BY <1>1, <1>6, <3>4, <3>5
    <3>7. Whole(u, index)'
      BY <1>2, <3>2, <3>3, <3>6 DEF Whole
    <3> QED  BY <1>2, <3>1, <3>7 DEF Unshaken
  <2> QED  BY <2>1, <2>2
<1>13. Shaken'
  BY <1>1, <1>2 DEF IInv, Shaken
<1> QED  BY <1>8, <1>9, <1>10, <1>11, <1>12, <1>13 DEF IInv

\* The bitmap is not read: it goes back with what was read of it, and is no
\* longer that of the files.
LEMMA MountWithoutBitmapKeeps ==
  ASSUME OneBitmapCluster, IInv, MountWithoutBitmap
  PROVE  IInv'
<1> DEFINE total == disk[0].total
<1>1. PICK count \in 0 .. BitmapClusters(total) - 1 :
        \E used \in BitmapReadings(count) :
          LET writes == BitmapWrites(total, used)
          IN  Start(IF writes = <<>> THEN "none" ELSE "unmount", writes)
  BY DEF MountWithoutBitmap
<1>2. PICK used \in BitmapReadings(count) :
        Start(IF BitmapWrites(total, used) = <<>> THEN "none" ELSE "unmount",
              BitmapWrites(total, used))
  BY <1>1
<1> DEFINE list == BitmapWrites(total, used)
<1>3. /\ disk' = disk /\ mem' = mem /\ promise' = promise /\ touched' = touched
      /\ shaken' = TRUE /\ task = "none" /\ ~mem.up /\ disk[0].is = "super"
  BY DEF MountWithoutBitmap, Mountable
<1>4. /\ todo' = list /\ left' = {} /\ failed' = FALSE
      /\ task' = IF list = <<>> THEN "none" ELSE "unmount"
  BY <1>2 DEF Start
<1>5. left = {} /\ touched = {} /\ todo = <<>>
  BY <1>3 DEF IInv, Typed, InOrder
<1>6. total \in Totals
  <2>1. ContentOK(disk[0])
    BY ClusterZero DEF IInv, Typed
  <2> QED  BY <1>3, <2>1 DEF ContentOK, Zero
<1>7. used \in SUBSET Clusters
  BY DEF BitmapReadings
<1>8. /\ IsList(list)
      /\ \A k \in DOMAIN list : WriteOK(list[k]) /\ list[k].of = "bitmap"
                                /\ list[k].to = BitmapStart
  BY <1>6, <1>7, BitmapWritesAre
<1> HIDE DEF list, total
<1>9. Typed'
  <2>1. mem' = Unmounted
    BY <1>3 DEF IInv, Typed, MemOK
  <2>2. todo' # <<>> <=> task' \in {"format", "sync", "unmount"}
    BY <1>4
  <2> QED  BY <1>3, <1>4, <1>5, <1>8, <2>1, <2>2 DEF IInv, Typed
<1>10. InOrder'
  BY <1>3, <1>4, <1>5 DEF InOrder
<1>11. Formatting' /\ Unshaken' /\ Shaken'
  BY <1>3, <1>4, <1>8 DEF Formatting, Unshaken, Shaken
<1>12. Promised'
  <2>1. ASSUME DOMAIN promise # {} PROVE Formed(disk) /\ Recoverable(disk, promise)
    <3>1. Formed(disk)
      BY <2>1 DEF IInv, Promised
    <3>2. CASE shaken
      BY <2>1, <3>2 DEF IInv, Promised
    <3>3. CASE ~shaken
      <4>1. DOMAIN promise = Names
        BY <3>3 DEF IInv, Unshaken
      <4>2. PICK u, index : Current(disk, u, index, promise, touched)
        BY <3>3 DEF IInv, Unshaken, Whole
      <4>3. Recoverable(disk, promise)
        BY <1>5, <4>1, <4>2, CurrentRecoverable
      <4> QED  BY <3>1, <4>3
    <3> QED  BY <3>2, <3>3
  <2> QED  BY <1>3, <2>1 DEF Promised
<1> QED  BY <1>9, <1>10, <1>11, <1>12 DEF IInv

\* The table is not read: the bitmap goes back as it came.
LEMMA MountWithoutIndexKeeps ==
  ASSUME OneBitmapCluster, IInv, MountWithoutIndex
  PROVE  IInv'
<1> DEFINE total == disk[0].total
<1>1. PICK used \in BitmapReadings(BitmapClusters(total)) :
        Start("unmount", BitmapWrites(total, used))
  BY DEF MountWithoutIndex
<1> DEFINE list == BitmapWrites(total, used)
<1>2. /\ disk' = disk /\ mem' = mem /\ promise' = promise /\ touched' = touched
      /\ shaken' = shaken /\ task = "none" /\ ~mem.up /\ disk[0].is = "super"
      /\ BitmapFits(total)
  BY DEF MountWithoutIndex, Mountable
<1>3. todo' = list /\ left' = {} /\ failed' = FALSE /\ task' = "unmount"
  BY <1>1 DEF Start
<1>4. left = {} /\ touched = {} /\ todo = <<>>
  BY <1>2 DEF IInv, Typed, InOrder
<1>5. total \in Totals
  <2>1. ContentOK(disk[0])
    BY ClusterZero DEF IInv, Typed
  <2> QED  BY <1>2, <2>1 DEF ContentOK, Zero
<1>6. used \in SUBSET Clusters
  BY DEF BitmapReadings
<1>7. total \in Nat /\ total >= 2
  BY <1>2, <1>5, MetadataIs, Sizes DEF BitmapFits, BitmapStart
<1>8. /\ IsList(list) /\ list # <<>>
      /\ \A k \in DOMAIN list : WriteOK(list[k]) /\ list[k].of = "bitmap"
                                /\ list[k].to = BitmapStart
  BY <1>5, <1>6, <1>7, BitmapWritesAre, EmptyList
<1>9. Typed'
  <2>1. mem' = Unmounted
    BY <1>2 DEF IInv, Typed, MemOK
  <2> HIDE DEF list, total
  <2> QED  BY <1>2, <1>3, <1>4, <1>8, <2>1 DEF IInv, Typed
<1>10. InOrder'
  BY <1>2, <1>3, <1>4 DEF InOrder
<1>11. Formatting' /\ Shaken'
  <2> HIDE DEF list
  <2> QED  BY <1>2, <1>3, <1>8 DEF Formatting, Shaken
<1>12. Promised'
  BY <1>2 DEF IInv, Promised
<1>13. ASSUME ~shaken PROVE Unshaken'
  <2>1. DOMAIN promise = Names
    BY <1>13 DEF IInv, Unshaken
  <2>2. PICK u \in SUBSET Clusters, index \in [InodeIndexes -> InodeValues] :
          Whole(u, index)
    BY <1>13 DEF IInv, Unshaken
  <2>3. /\ Current(disk, u, index, promise, touched)
        /\ u \in SUBSET (0 .. total - 1) /\ TableIs(disk, index) /\ BitmapIs(disk, u)
    BY <1>4, <2>2 DEF Whole, Current
  <2>4. used = u
    BY <1>5, <2>3, BitmapRead
  <2>5. Puts(list, BitmapStart, Bits(u)) /\ \A c : c # BitmapStart => Spares(list, c)
    BY <1>5, <1>7, <2>3, <2>4, BitmapPuts
  <2>6. WillHold(disk, list, BitmapStart, Bits(u)) /\ TableWillBe(disk, list, index)
    <3>1. \A k \in TableIndexes : TableStart + k # BitmapStart
      BY TableCluster DEF BitmapStart
    <3> QED  BY <2>3, <2>5, <3>1 DEF WillHold, TableWillBe, TableIs
  <2>7. \A k \in DOMAIN list : BitmapWrite(list[k], u)
    <3>1. u \cap Segment(0) = u
      BY <1>5, <2>3, MetadataIs
    <3>2. \A k \in DOMAIN list : list[k].put = Bits(u)
      BY <1>5, <1>6, <2>4, <3>1, BitmapWritesAre
    <3> HIDE DEF list
    <3> QED  BY <1>8, <3>2 DEF BitmapWrite
  <2> HIDE DEF list
  <2>8. Flushing(disk, list, u, index)
    BY <1>8, <2>6, <2>7 DEF Flushing, Grouped
  <2>9. Whole(u, index)'
    BY <1>2, <1>3, <2>3, <2>6, <2>8 DEF Whole
  <2> QED  BY <1>2, <2>1, <2>9 DEF Unshaken
<1>14. Unshaken'
  BY <1>2, <1>13 DEF Unshaken
<1> QED  BY <1>9, <1>10, <1>11, <1>12, <1>14 DEF IInv

------------------------------------------------------------------------------
(***************************************************************************)
(* The writes that bring a disk up to date.                                *)
(***************************************************************************)
\* A list of the table's writes, or of none, and the bitmap's.
LEMMA IndexWritesAre ==
  ASSUME MemOK
  PROVE  /\ IsList(IndexWrites(mem))
         /\ \A k \in DOMAIN IndexWrites(mem) : WriteOK(IndexWrites(mem)[k])
         /\ \A k \in DOMAIN IndexWrites(mem) : TableWrite(IndexWrites(mem)[k], mem.index)
         /\ ~mem.dirty => DOMAIN IndexWrites(mem) = {}
<1>1. CASE mem.dirty
  <2>1. mem.total \in Totals /\ mem.index \in [InodeIndexes -> InodeValues]
    BY DEF MemOK
  <2> DEFINE list == TableWrites(mem.total, mem.index)
  <2>2. /\ IsList(list)
        /\ \A k \in DOMAIN list : /\ k - 1 \in TableIndexes
                                  /\ WriteOK(list[k]) /\ list[k].of = "index"
                                  /\ list[k].to = TableStart + (k - 1)
                                  /\ list[k].put = ChunkOf(mem.index, k - 1)
    BY <2>1, TableWritesAre
  <2>3. IndexWrites(mem) = list
    BY <1>1 DEF IndexWrites
  <2> HIDE DEF list
  <2>4. \A k \in DOMAIN list : TableWrite(list[k], mem.index)
    BY <2>2 DEF TableWrite
  <2> QED  BY <1>1, <2>2, <2>3, <2>4
<1>2. CASE ~mem.dirty
  <2>1. IndexWrites(mem) = <<>>
    BY <1>2 DEF IndexWrites
  <2> QED  BY <2>1, EmptyList
<1> QED  BY <1>1, <1>2

LEMMA FlushStarts ==
  ASSUME OneBitmapCluster, Typed, mem.up,
         NEW list, \/ list = IndexWrites(mem) \o BitmapWrites(mem.total, mem.used)
                   \/ list = BitmapWrites(mem.total, mem.used) \o IndexWrites(mem)
  PROVE  /\ IsList(list) /\ list # <<>> /\ \A k \in DOMAIN list : WriteOK(list[k])
         /\ ~mem.dirty => \A k \in DOMAIN list : /\ list[k].of = "bitmap"
                                                 /\ list[k].to = BitmapStart
<1>1. MemOK
  BY DEF Typed, Unmounted
<1> DEFINE x == IndexWrites(mem)
           b == BitmapWrites(mem.total, mem.used)
<1>2. mem.total \in Totals /\ mem.total >= 2 /\ mem.used \in SUBSET Clusters
  BY <1>1 DEF MemOK
<1>3. /\ IsList(b) /\ 1 \in DOMAIN b
      /\ \A k \in DOMAIN b : WriteOK(b[k]) /\ b[k].of = "bitmap" /\ b[k].to = BitmapStart
  BY <1>2, BitmapWritesAre
<1>4. /\ IsList(x) /\ \A k \in DOMAIN x : WriteOK(x[k])
      /\ ~mem.dirty => DOMAIN x = {}
  BY <1>1, IndexWritesAre
<1> HIDE DEF x, b
<1>5. IsList(list) /\ \A k \in DOMAIN list : WriteOK(list[k])
  BY <1>3, <1>4, JoinOK DEF x, b
<1>6. list # <<>>
  <2>1. \E k : k \in DOMAIN list
    BY <1>3, <1>4, JoinList DEF x, b
  <2> QED  BY <2>1, EmptyList
<1>7. ASSUME ~mem.dirty, NEW k \in DOMAIN list
      PROVE  list[k].of = "bitmap" /\ list[k].to = BitmapStart
  <2>1. \/ k \in DOMAIN b /\ list[k] = b[k]
        \/ k - Len(x) \in DOMAIN b /\ list[k] = b[k - Len(x)]
    <3>1. CASE list = x \o b
      BY <1>3, <1>4, <1>7, <3>1, JoinList
    <3>2. CASE list = b \o x
      BY <1>3, <1>4, <1>7, <3>2, JoinList
    <3> QED  BY <3>1, <3>2 DEF x, b
  <2> QED  BY <1>3, <2>1
<1> QED  BY <1>5, <1>6, <1>7

\* They bring the disk to what memory has.
LEMMA FlushWillDo ==
  ASSUME OneBitmapCluster, Typed, mem.up, Top < mem.total,
         mem.used \in SUBSET (0 .. mem.total - 1),
         ~mem.dirty => TableIs(disk, mem.index),
         NEW list, \/ list = IndexWrites(mem) \o BitmapWrites(mem.total, mem.used)
                   \/ list = BitmapWrites(mem.total, mem.used) \o IndexWrites(mem)
  PROVE  /\ Flushing(disk, list, mem.used, mem.index)
         /\ WillHold(disk, list, BitmapStart, Bits(mem.used))
         /\ TableWillBe(disk, list, mem.index)
<1> DEFINE x == IndexWrites(mem)
           b == BitmapWrites(mem.total, mem.used)
<1>1. MemOK
  BY DEF Typed, Unmounted
<1>2. /\ mem.total \in Totals /\ mem.total >= 2 /\ mem.used \in SUBSET Clusters
      /\ mem.index \in [InodeIndexes -> InodeValues]
  BY <1>1 DEF MemOK
<1>3. /\ IsList(b)
      /\ Puts(b, BitmapStart, Bits(mem.used))
      /\ \A c : c # BitmapStart => Spares(b, c)
  BY <1>2, BitmapWritesAre, BitmapPuts
<1>4. \A k \in DOMAIN b : BitmapWrite(b[k], mem.used) /\ b[k].of = "bitmap"
  <2>1. mem.used \cap Segment(0) = mem.used
    BY <1>2, MetadataIs
  <2>2. \A k \in DOMAIN b :
          LET w == b[k]
          IN  /\ WriteOK(w) /\ w.of = "bitmap" /\ w.to = BitmapStart
              /\ w.put = Bits(mem.used \cap Segment(0))
    BY <1>2, BitmapWritesAre, ZenonT(60)
  <2> HIDE DEF b
  <2> QED  BY <2>1, <2>2 DEF BitmapWrite
<1>5. /\ IsList(x)
      /\ \A k \in DOMAIN x : TableWrite(x[k], mem.index) /\ x[k].of = "index"
  BY <1>1, IndexWritesAre DEF TableWrite
<1>6. \A k \in TableIndexes : TableStart + k # BitmapStart /\ TableStart + k \in 2 .. Top
  BY TableCluster DEF BitmapStart
<1>7. Spares(x, BitmapStart)
  BY <1>5, <1>6 DEF Spares, TableWrite
<1>8. \A k \in TableIndexes : WillHold(disk, x, TableStart + k, ChunkOf(mem.index, k))
  <2>1. CASE mem.dirty
    <3>1. x = TableWrites(mem.total, mem.index)
      BY <2>1 DEF IndexWrites
    <3> QED  BY <1>2, <3>1, TablePuts DEF WillHold
  <2>2. CASE ~mem.dirty
    <3>1. DOMAIN x = {}
      BY <1>1, <2>2, IndexWritesAre
    <3> HIDE DEF x
    <3>2. \A c : Spares(x, c)
      BY <3>1 DEF Spares
    <3> QED  BY <2>2, <3>2 DEF WillHold, TableIs
  <2> QED  BY <2>1, <2>2
<1> HIDE DEF x, b
<1>9. WillHold(disk, list, BitmapStart, Bits(mem.used))
  <2>1. Puts(list, BitmapStart, Bits(mem.used))
    <3>1. CASE list = x \o b
      BY <1>3, <1>5, <3>1, PutsLater
    <3>2. CASE list = b \o x
      BY <1>3, <1>5, <1>7, <3>2, PutsEarlier
    <3> QED  BY <3>1, <3>2 DEF x, b
  <2> QED  BY <2>1 DEF WillHold
<1>10. TableWillBe(disk, list, mem.index)
  <2>1. ASSUME NEW k \in TableIndexes
        PROVE  WillHold(disk, list, TableStart + k, ChunkOf(mem.index, k))
    <3> DEFINE c == TableStart + k
               put == ChunkOf(mem.index, k)
    <3> SUFFICES WillHold(disk, list, c, put)
      OBVIOUS
    <3>1. Spares(b, c) /\ WillHold(disk, x, c, put)
      BY <1>3, <1>6, <1>8
    <3> HIDE DEF c, put
    <3>2. CASE Puts(x, c, put)
      <4>1. CASE list = x \o b
        BY <1>3, <1>5, <3>1, <3>2, <4>1, PutsEarlier DEF WillHold
      <4>2. CASE list = b \o x
        BY <1>3, <1>5, <3>2, <4>2, PutsLater DEF WillHold
      <4> QED  BY <4>1, <4>2 DEF x, b
    <3>3. CASE disk[c] = put /\ Spares(x, c)
      <4>1. CASE list = x \o b
        BY <1>3, <1>5, <3>1, <3>3, <4>1, SparesJoin DEF WillHold
      <4>2. CASE list = b \o x
        BY <1>3, <1>5, <3>1, <3>3, <4>2, SparesJoin DEF WillHold
      <4> QED  BY <4>1, <4>2 DEF x, b
    <3> QED  BY <3>1, <3>2, <3>3 DEF WillHold
  <2> QED  BY <2>1 DEF TableWillBe
<1>11. Grouped(list) /\ \A k \in DOMAIN list : BitmapWrite(list[k], mem.used)
                                               \/ TableWrite(list[k], mem.index)
  <2>1. CASE list = x \o b
    <3>1. \A k \in DOMAIN list :
            IF k <= Len(x) THEN TableWrite(list[k], mem.index) /\ list[k].of = "index"
            ELSE BitmapWrite(list[k], mem.used) /\ list[k].of = "bitmap"
      BY <1>3, <1>4, <1>5, <2>1, JoinList
    <3>2. DOMAIN list \subseteq Nat /\ Len(x) \in Nat
      BY <1>3, <1>5, <2>1, JoinList, ListIs
    <3>3. Grouped(list)
      BY <3>1, <3>2 DEF Grouped
    <3> QED  BY <3>1, <3>3
  <2>2. CASE list = b \o x
    <3>1. \A k \in DOMAIN list :
            IF k <= Len(b) THEN BitmapWrite(list[k], mem.used) /\ list[k].of = "bitmap"
            ELSE TableWrite(list[k], mem.index) /\ list[k].of = "index"
      BY <1>3, <1>4, <1>5, <2>2, JoinList
    <3>2. DOMAIN list \subseteq Nat /\ Len(b) \in Nat
      BY <1>3, <1>5, <2>2, JoinList, ListIs
    <3>3. Grouped(list)
      BY <3>1, <3>2 DEF Grouped
    <3> QED  BY <3>1, <3>3
  <2> QED  BY <2>1, <2>2 DEF x, b
<1> QED  BY <1>9, <1>10, <1>11 DEF Flushing

LEMMA UnshakenIs ==
  ASSUME OneBitmapCluster, IInv, ~shaken, mem.up
  PROVE  /\ Formed(disk) /\ MemOK
         /\ mem.total = disk[0].total /\ Top < mem.total /\ mem.root = Root
         /\ DOMAIN promise = Names
         /\ Whole(mem.used, mem.index)
         /\ Current(disk, mem.used, mem.index, promise, touched)
         /\ mem.used \in SUBSET (0 .. mem.total - 1) /\ mem.used \in SUBSET Clusters
<1>1. Formed(disk) /\ mem.total = disk[0].total /\ mem.root = Root
  BY DEF IInv, Promised
<1>2. MemOK
  BY DEF IInv, Typed, Unmounted
<1>3. Top < mem.total
  BY <1>1, FormedIs, Sizes
<1>4. PICK u \in SUBSET Clusters, index \in [InodeIndexes -> InodeValues] : Whole(u, index)
  BY DEF IInv, Unshaken
<1>5. mem.used = u /\ mem.index = index
  BY <1>4 DEF Whole
<1>6. Whole(mem.used, mem.index)
  BY <1>4, <1>5
<1>7. Current(disk, mem.used, mem.index, promise, touched)
  BY <1>6 DEF Whole
<1>8. mem.used \in SUBSET (0 .. mem.total - 1)
  BY <1>1, <1>7 DEF Current
<1> QED  BY <1>1, <1>2, <1>3, <1>4, <1>5, <1>6, <1>7, <1>8 DEF IInv, Unshaken

LEMMA FlushKeeps ==
  ASSUME OneBitmapCluster, IInv, mem.up, left = {},
         NEW list, \/ list = IndexWrites(mem) \o BitmapWrites(mem.total, mem.used)
                   \/ list = BitmapWrites(mem.total, mem.used) \o IndexWrites(mem),
         \/ task' = "unmount" /\ mem' = Unmounted
         \/ task' = "sync" /\ mem' = mem,
         todo' = list, failed' = FALSE, left' = {},
         UNCHANGED <<disk, promise, touched, shaken>>
  PROVE  IInv'
<1>1. /\ IsList(list) /\ list # <<>> /\ \A k \in DOMAIN list : WriteOK(list[k])
      /\ ~mem.dirty => \A k \in DOMAIN list : /\ list[k].of = "bitmap"
                                              /\ list[k].to = BitmapStart
  BY FlushStarts DEF IInv
<1>2. /\ disk' = disk /\ promise' = promise /\ touched' = touched /\ shaken' = shaken
  OBVIOUS
<1>3. task # "format" /\ task # "unmount"
  BY DEF IInv, InOrder
<1>4. Typed'
  <2>1. (mem = Unmounted \/ MemOK)'
    BY DEF IInv, Typed, MemOK
  <2> QED  BY <1>1, <1>2, <2>1 DEF IInv, Typed
<1>5. mem' = Unmounted => ~mem'.up
  BY DEF Unmounted
<1>6. InOrder'
  BY <1>2, <1>5 DEF IInv, InOrder
<1>7. Formatting'
  BY DEF Formatting
<1>8. Promised'
  BY <1>2, <1>5 DEF IInv, Promised
<1>9. Shaken'
  BY <1>1, <1>2, <1>3, <1>5 DEF IInv, Shaken
<1>10. ASSUME ~shaken PROVE Unshaken'
  <2>1. /\ Top < mem.total /\ DOMAIN promise = Names
        /\ Whole(mem.used, mem.index)
        /\ mem.used \in SUBSET (0 .. mem.total - 1) /\ mem.used \in SUBSET Clusters
        /\ mem.index \in [InodeIndexes -> InodeValues]
    BY <1>10, UnshakenIs DEF MemOK
  <2>2. ~mem.dirty => TableIs(disk, mem.index)
    BY <2>1 DEF Whole
  <2>3. /\ Flushing(disk, list, mem.used, mem.index)
        /\ WillHold(disk, list, BitmapStart, Bits(mem.used))
        /\ TableWillBe(disk, list, mem.index)
    BY <2>1, <2>2, FlushWillDo DEF IInv
  <2>4. PICK u, index : u = mem.used /\ index = mem.index
    OBVIOUS
  <2>5. Whole(u, index)'
    BY <1>2, <1>5, <2>1, <2>2, <2>3, <2>4 DEF Whole
  <2> QED  BY <1>2, <2>1, <2>4, <2>5 DEF Unshaken
<1>11. Unshaken'
  BY <1>2, <1>10 DEF Unshaken
<1> QED  BY <1>4, <1>6, <1>7, <1>8, <1>9, <1>11 DEF IInv

LEMMA UnmountKeeps ==
  ASSUME OneBitmapCluster, IInv, Unmount
  PROVE  IInv'
<1>1. /\ mem.up /\ task' = "unmount" /\ mem' = Unmounted
      /\ todo' = IndexWrites(mem) \o BitmapWrites(mem.total, mem.used)
      /\ failed' = FALSE /\ left' = {} /\ UNCHANGED <<disk, promise, touched, shaken>>
  BY DEF Unmount, Start
<1>2. left = {}
  BY DEF Unmount, IInv, Typed
<1> QED  BY <1>1, <1>2, FlushKeeps

LEMMA SyncKeeps ==
  ASSUME OneBitmapCluster, IInv, Sync
  PROVE  IInv'
<1>1. /\ task' = "sync" /\ mem' = mem /\ left = {} /\ task = "defrag"
      /\ todo' = BitmapWrites(mem.total, mem.used) \o IndexWrites(mem)
      /\ failed' = FALSE /\ left' = {} /\ UNCHANGED <<disk, promise, touched, shaken>>
  BY DEF Sync, Start
<1>2. mem.up
  BY <1>1 DEF IInv, InOrder
<1> QED  BY <1>1, <1>2, FlushKeeps

------------------------------------------------------------------------------
(***************************************************************************)
(* The end of a task.                                                      *)
(***************************************************************************)
LEMMA CurrentSame ==
  ASSUME NEW d, NEW used, NEW index, NEW p, NEW t, Current(d, used, index, p, t),
         NEW q, \A n \in Names : q[n] = p[n]
  PROVE  Current(d, used, index, q, t)
<1>1. \A n \in Names :
        IF n \in DOMAIN NamesIn(d) THEN Keeps(d, index[NamesIn(d)[n]], q[n])
        ELSE q[n] = None
  BY DEF Current
<1> QED  BY <1>1 DEF Current

LEMMA NothingLeft ==
  ASSUME NEW d, NEW used, NEW index
  PROVE  Flushing(d, <<>>, used, index)
BY EmptyList DEF Flushing, Grouped

\* Memory is gone; of the disk it is known what it had.
LEMMA Parts ==
  ASSUME OneBitmapCluster, IInv, Part, mem' = Unmounted,
         task' = "none", todo' = <<>>, left' = {},
         shaken /\ DOMAIN promise # {} => Formed(disk') /\ Recoverable(disk', promise),
         ~shaken =>
           /\ Formed(disk')
           /\ \E used \in SUBSET Clusters, index \in [InodeIndexes -> InodeValues] :
                Current(disk', used, index, promise, touched)
  PROVE  /\ InOrder' /\ Formatting' /\ Promised' /\ Unshaken' /\ Shaken'
         /\ DOMAIN promise' \in SUBSET Names /\ touched' = {} /\ shaken' \in BOOLEAN
<1>1. /\ DOMAIN promise' = DOMAIN promise \ touched
      /\ \A n \in DOMAIN promise' : promise'[n] = promise[n]
      /\ touched' = {} /\ shaken' = (shaken \/ touched # {})
      /\ DOMAIN promise \in SUBSET Names /\ ~mem'.up /\ todo' = <<>> /\ DOMAIN todo' = {}
  BY EmptyList DEF Part, Kept, IInv, Typed, Unmounted
<1>2. touched # {} => ~shaken
  BY DEF IInv, InOrder
<1>3. InOrder' /\ Formatting' /\ Shaken'
  BY <1>1 DEF InOrder, Formatting, Shaken
<1>4. ASSUME ~shaken' \/ DOMAIN promise' # {}
      PROVE  Formed(disk') /\ (shaken' => Recoverable(disk', promise'))
  <2>1. CASE shaken
    <3>1. DOMAIN promise # {}
      BY <1>1, <1>4, <2>1
    <3>2. Formed(disk') /\ Recoverable(disk', promise)
      BY <2>1, <3>1
    <3> QED  BY <1>1, <3>2 DEF Recoverable
  <2>2. CASE ~shaken
    <3>1. PICK u, index : Current(disk', u, index, promise, touched)
      BY <2>2
    <3>2. DOMAIN promise' \subseteq Names \ touched
      BY <1>1
    <3>3. Recoverable(disk', promise')
      BY <1>1, <3>1, <3>2, CurrentRecoverable
    <3> QED  BY <2>2, <3>3
  <2> QED  BY <2>1, <2>2
<1>5. Promised'
  BY <1>1, <1>4 DEF Promised
<1>6. ASSUME ~shaken' PROVE Unshaken'
  <2>1. ~shaken /\ touched = {}
    BY <1>1, <1>6
  <2>2. DOMAIN promise = Names /\ DOMAIN promise' = Names
    BY <1>1, <2>1 DEF IInv, Unshaken
  <2>3. PICK u \in SUBSET Clusters, index \in [InodeIndexes -> InodeValues] :
          Current(disk', u, index, promise, touched)
    BY <2>1
  <2>4. Current(disk', u, index, promise', touched)
    BY <1>1, <2>2, <2>3, CurrentSame
  <2>5. Whole(u, index)'
    BY <1>1, <2>1, <2>4, NothingLeft DEF Whole
  <2> QED  BY <2>2, <2>5 DEF Unshaken
<1>7. Unshaken'
  BY <1>6 DEF Unshaken
<1> QED  BY <1>1, <1>3, <1>5, <1>7 DEF IInv, Typed

LEMMA CrashKeeps ==
  ASSUME OneBitmapCluster, IInv, Crash
  PROVE  IInv'
<1>1. /\ disk' = disk /\ mem' = Unmounted /\ task' = "none" /\ todo' = <<>>
      /\ failed' = FALSE /\ left' = {} /\ Part
  BY DEF Crash, Start
<1>2. shaken /\ DOMAIN promise # {} => Formed(disk') /\ Recoverable(disk', promise)
  BY <1>1 DEF IInv, Promised
<1>3. ASSUME ~shaken
      PROVE  /\ Formed(disk')
             /\ \E used \in SUBSET Clusters, index \in [InodeIndexes -> InodeValues] :
                  Current(disk', used, index, promise, touched)
  <2>1. Formed(disk)
    BY <1>3 DEF IInv, Promised
  <2>2. PICK u \in SUBSET Clusters, index \in [InodeIndexes -> InodeValues] :
          Whole(u, index)
    BY <1>3 DEF IInv, Unshaken
  <2>3. Current(disk, u, index, promise, touched)
    BY <2>2 DEF Whole
  <2> QED  BY <1>1, <2>1, <2>3
<1>4. /\ InOrder' /\ Formatting' /\ Promised' /\ Unshaken' /\ Shaken'
      /\ DOMAIN promise' \in SUBSET Names /\ touched' = {} /\ shaken' \in BOOLEAN
  BY <1>1, <1>2, <1>3, Parts
<1>5. Typed'
  BY <1>1, <1>4, EmptyList DEF IInv, Typed
<1> QED  BY <1>4, <1>5 DEF IInv

\* The writes of a task go on, or end, with memory and disk as they are.
LEMMA UnshakenGoesOn ==
  ASSUME OneBitmapCluster, IInv, ~shaken, task \in {"sync", "unmount"},
         NEW used \in SUBSET Clusters, NEW index \in [InodeIndexes -> InodeValues],
         NEW ok \in BOOLEAN, NEW list, IsList(list), Continue(list, ok),
         DOMAIN promise = Names,
         Formed(disk'), Current(disk', used, index, promise, touched),
         Flushing(disk', list, used, index),
         ok => /\ WillHold(disk', list, BitmapStart, Bits(used))
               /\ TableWillBe(disk', list, index),
         mem = Unmounted => mem' = Unmounted,
         mem'.up = mem.up,
         mem.up => /\ mem'.total = disk'[0].total /\ mem'.root = Root
                   /\ mem'.used = used /\ mem'.index = index
                   /\ ~mem'.dirty => TableIs(disk', index)
  PROVE  /\ InOrder' /\ Formatting' /\ Promised' /\ Unshaken' /\ Shaken'
         /\ DOMAIN promise' \in SUBSET Names /\ touched' \in SUBSET Names
         /\ shaken' \in BOOLEAN
<1>1. /\ todo' = list /\ left' = {} /\ failed' = (~ok /\ list # <<>>)
      /\ task' = IF list = <<>> THEN "none" ELSE task
      /\ task = "sync" => mem.up
      /\ task = "unmount" => ~mem.up /\ mem' = Unmounted
      /\ touched \in SUBSET Names /\ DOMAIN promise \in SUBSET Names
      /\ shaken \in BOOLEAN
  BY DEF Continue, IInv, InOrder, Typed, MemOK
<1>2. CASE list # <<>>
  <2>1. promise' = promise /\ touched' = touched /\ shaken' = shaken
    BY <1>2 DEF Continue, Rest
  <2>2. task' = task /\ failed' = ~ok
    BY <1>1, <1>2
  <2>3. Whole(used, index)'
    BY <1>1, <2>1, <2>2 DEF Whole
  <2>4. InOrder' /\ Formatting' /\ Shaken' /\ Promised'
    BY <1>1, <2>1, <2>2 DEF IInv, InOrder, Formatting, Shaken, Promised
  <2>5. Unshaken'
    BY <2>1, <2>3 DEF Unshaken
  <2> QED  BY <1>1, <2>1, <2>4, <2>5
<1>3. CASE list = <<>> /\ ok
  <2>1. promise' = promise /\ touched' = {} /\ shaken' = shaken
    BY <1>3 DEF Continue, Finish, Agree
  <2>2. BitmapIs(disk', used) /\ TableIs(disk', index)
    BY <1>3, WillHoldNow DEF BitmapIs, TableIs, TableWillBe
  <2>3. Current(disk', used, index, promise, {})
    BY <2>2, CurrentNow
  <2>4. Whole(used, index)'
    BY <1>1, <1>3, <2>1, <2>3 DEF Whole
  <2>5. InOrder' /\ Formatting' /\ Shaken' /\ Promised'
    BY <1>1, <1>3, <2>1 DEF IInv, InOrder, Formatting, Shaken, Promised
  <2>6. Unshaken'
    BY <2>1, <2>4 DEF Unshaken
  <2> QED  BY <1>1, <2>1, <2>5, <2>6
<1>4. CASE list = <<>> /\ ~ok /\ task = "sync"
  <2>1. promise' = promise /\ touched' = touched /\ shaken' = shaken
    BY <1>4 DEF Continue, Finish, Rest
  <2>2. Whole(used, index)'
    BY <1>1, <1>4, <2>1 DEF Whole
  <2>3. InOrder' /\ Formatting' /\ Shaken' /\ Promised'
    BY <1>1, <1>4, <2>1 DEF IInv, InOrder, Formatting, Shaken, Promised
  <2>4. Unshaken'
    BY <2>1, <2>2 DEF Unshaken
  <2> QED  BY <1>1, <2>1, <2>3, <2>4
<1>5. CASE list = <<>> /\ ~ok /\ task = "unmount"
  <2>1. Part
    BY <1>5 DEF Continue, Finish
  <2>2. /\ InOrder' /\ Formatting' /\ Promised' /\ Unshaken' /\ Shaken'
        /\ DOMAIN promise' \in SUBSET Names /\ touched' = {} /\ shaken' \in BOOLEAN
    BY <1>1, <1>5, <2>1, Parts
  <2> QED  BY <2>2
<1> QED  BY <1>2, <1>3, <1>4, <1>5

LEMMA ShakenGoesOn ==
  ASSUME OneBitmapCluster, IInv, shaken, task \in {"sync", "unmount"},
         NEW ok \in BOOLEAN, NEW list, IsList(list), Continue(list, ok),
         \A k \in DOMAIN list : list[k].of = "bitmap" /\ list[k].to = BitmapStart,
         \A c \in Clusters : c # BitmapStart => disk'[c] = disk[c], mem' = mem
  PROVE  /\ InOrder' /\ Formatting' /\ Promised' /\ Unshaken' /\ Shaken'
         /\ DOMAIN promise' \in SUBSET Names /\ touched' \in SUBSET Names
         /\ shaken' \in BOOLEAN
<1>1. /\ todo' = list /\ left' = {} /\ failed' = (~ok /\ list # <<>>)
      /\ task' = IF list = <<>> THEN "none" ELSE task
      /\ task = "sync" => mem.up
      /\ task = "unmount" => ~mem.up /\ mem = Unmounted
      /\ touched = {} /\ DOMAIN promise \in SUBSET Names
      /\ mem.up => ~mem.dirty
  BY DEF Continue, IInv, InOrder, Typed, MemOK, Shaken
<1>2. ASSUME DOMAIN promise # {}
      PROVE  /\ Formed(disk') /\ Recoverable(disk', promise)
             /\ TableOf(disk') = TableOf(disk) /\ disk'[0] = disk[0]
  <2>1. Formed(disk) /\ Recoverable(disk, promise)
    BY <1>2 DEF IInv, Promised
  <2>2. /\ Formed(disk') /\ TableOf(disk') = TableOf(disk) /\ disk'[0] = disk[0]
        /\ \A p : Recoverable(disk, p) => Recoverable(disk', p)
    BY <2>1, BitmapApart
  <2> QED  BY <2>1, <2>2
<1>3. CASE promise' = promise /\ touched' = {} /\ shaken' = TRUE
  <2>1. InOrder' /\ Formatting' /\ Unshaken' /\ Shaken'
    BY <1>1, <1>3, EmptyList DEF IInv, InOrder, Formatting, Unshaken, Shaken
  <2>2. Promised'
    BY <1>2, <1>3 DEF IInv, Promised
  <2> QED  BY <1>1, <1>3, <2>1, <2>2
<1>4. CASE list = <<>> /\ ~ok /\ task = "unmount"
  <2>1. Part
    BY <1>4 DEF Continue, Finish
  <2>2. /\ InOrder' /\ Formatting' /\ Promised' /\ Unshaken' /\ Shaken'
        /\ DOMAIN promise' \in SUBSET Names /\ touched' = {} /\ shaken' \in BOOLEAN
    BY <1>1, <1>2, <1>4, <2>1, Parts
  <2> QED  BY <2>2
<1>5. CASE ~(list = <<>> /\ ~ok /\ task = "unmount")
  <2>1. touched' = {} /\ promise' = promise /\ shaken' = shaken
    <3>1. CASE list # <<>>
      BY <1>1, <3>1 DEF Continue, Rest
    <3>2. CASE list = <<>>
      BY <1>1, <1>5, <3>2 DEF Continue, Rest, Finish, Agree
    <3> QED  BY <3>1, <3>2
  <2>2. shaken' = TRUE
    BY <2>1 DEF IInv, Typed
  <2> QED  BY <1>3, <2>1, <2>2
<1> QED  BY <1>4, <1>5

LEMMA WriteIs ==
  ASSUME IInv, Write
  PROVE  /\ todo # <<>> /\ IsList(todo) /\ 1 \in DOMAIN todo
         /\ WriteOK(todo[1]) /\ DOMAIN disk = Clusters
         /\ disk' = Done(disk, todo)
         /\ task \in {"format", "sync", "unmount"} /\ failed \in BOOLEAN
         /\ IsList(Tail(todo)) /\ \A k \in DOMAIN Tail(todo) : WriteOK(Tail(todo)[k])
         /\ Continue(Tail(todo), ~failed)
         /\ \/ mem' = mem
            \/ /\ mem.up /\ mem' = [mem EXCEPT !.dirty = FALSE]
               /\ todo[1].of = "index"
               /\ \A k \in DOMAIN Tail(todo) : Tail(todo)[k].of # "index"
         /\ disk' = [c \in Clusters |-> disk'[c]]
         /\ \A c \in Clusters : ContentOK(disk'[c])
<1>1. /\ todo # <<>> /\ IsList(todo) /\ task \in {"format", "sync", "unmount"}
      /\ failed \in BOOLEAN
      /\ \A k \in DOMAIN todo : WriteOK(todo[k])
      /\ disk = [c \in Clusters |-> disk[c]] /\ \A c \in Clusters : ContentOK(disk[c])
  BY DEF Write, IInv, Typed
<1>2. /\ 1 \in DOMAIN todo /\ Head(todo) = todo[1] /\ IsList(Tail(todo))
      /\ \A k \in DOMAIN Tail(todo) : k + 1 \in DOMAIN todo /\ Tail(todo)[k] = todo[k + 1]
  BY <1>1, TailList
<1> DEFINE rest == Tail(todo)
           w == todo[1]
<1>3. \A k \in DOMAIN rest : WriteOK(rest[k]) /\ rest[k] \in ToSet(rest)
  BY <1>1, <1>2 DEF ToSet
<1>4. WriteOK(w)
  BY <1>1, <1>2
<1>5. disk' = [disk EXCEPT ![w.to] = w.put] /\ Continue(rest, ~failed)
  BY <1>2 DEF Write
<1>6. \/ mem' = mem
      \/ /\ mem.up /\ mem' = [mem EXCEPT !.dirty = FALSE]
         /\ w.of = "index" /\ \A v \in ToSet(rest) : v.of # "index"
  <2> DEFINE last == w.of = "index" /\ \A v \in ToSet(rest) : v.of # "index"
  <2>1. mem' = IF mem.up /\ last THEN [mem EXCEPT !.dirty = FALSE] ELSE mem
    BY <1>2 DEF Write
  <2> HIDE DEF last
  <2>2. mem' = mem \/ (mem.up /\ mem' = [mem EXCEPT !.dirty = FALSE] /\ last)
    BY <2>1
  <2> QED  BY <2>2 DEF last
<1>7. ASSUME NEW c \in Clusters PROVE ContentOK(disk'[c])
  <2>1. disk'[c] = IF c = w.to THEN w.put ELSE disk[c]
    BY <1>1, <1>5
  <2>2. ContentOK(w.put)
    BY <1>4 DEF WriteOK
  <2> QED  BY <1>1, <2>1, <2>2
<1>8. DOMAIN disk = Clusters /\ disk' = [c \in Clusters |-> disk'[c]]
  <2>1. DOMAIN disk = Clusters
    BY <1>1
  <2> QED  BY <1>5, <2>1
<1> QED  BY <1>1, <1>2, <1>3, <1>4, <1>5, <1>6, <1>7, <1>8 DEF Done

\* The types of what a task's writes change, whichever way they go on.
LEMMA ContinueTyped ==
  ASSUME Typed, task \in {"format", "sync", "unmount"},
         NEW ok, NEW list, IsList(list), Continue(list, ok),
         ok \in BOOLEAN,
         \A k \in DOMAIN list : WriteOK(list[k]),
         disk' = [c \in Clusters |-> disk'[c]],
         \A c \in Clusters : ContentOK(disk'[c]),
         (mem = Unmounted \/ MemOK)',
         DOMAIN promise' \in SUBSET Names, touched' \in SUBSET Names,
         shaken' \in BOOLEAN
  PROVE  Typed'
<1>1. /\ todo' = list /\ failed' = (~ok /\ list # <<>>) /\ left' = {}
      /\ task' = IF list = <<>> THEN "none" ELSE task
  BY DEF Continue
<1>2. /\ todo' # <<>> <=> task' \in {"format", "sync", "unmount"}
      /\ task' \in {"none", "format", "defrag", "sync", "unmount"}
      /\ failed' \in BOOLEAN
  BY <1>1
<1> QED  BY <1>1, <1>2 DEF Typed

LEMMA MemKept ==
  ASSUME Typed, mem' = mem \/ (mem.up /\ mem' = [mem EXCEPT !.dirty = FALSE])
  PROVE  /\ (mem = Unmounted \/ MemOK)' /\ mem'.up = mem.up
         /\ mem = Unmounted => mem' = Unmounted
         /\ mem.up => /\ mem'.total = mem.total /\ mem'.root = mem.root
                      /\ mem'.used = mem.used /\ mem'.index = mem.index
                      /\ mem' # mem => ~mem'.dirty
<1>1. CASE mem' = mem
  BY <1>1 DEF Typed, MemOK
<1>2. CASE mem.up /\ mem' = [mem EXCEPT !.dirty = FALSE]
  <2>1. MemOK /\ mem # Unmounted
    BY <1>2 DEF Typed, Unmounted
  <2>2. mem = [up |-> TRUE, total |-> mem.total, root |-> mem.root,
               used |-> mem.used, index |-> mem.index, dirty |-> mem.dirty]
    BY <2>1 DEF MemOK
  <2>3. mem' = [up |-> TRUE, total |-> mem.total, root |-> mem.root,
                used |-> mem.used, index |-> mem.index, dirty |-> FALSE]
    BY <1>2, <2>2
  <2>4. /\ mem'.up = TRUE /\ mem'.total = mem.total /\ mem'.root = mem.root
        /\ mem'.used = mem.used /\ mem'.index = mem.index /\ mem'.dirty = FALSE
    BY <2>3
  <2>5. mem.up = TRUE
    BY <2>2
  <2>6. MemOK'
    BY <2>1, <2>3, <2>4 DEF MemOK
  <2> QED  BY <2>1, <2>4, <2>5, <2>6
<1> QED  BY <1>1, <1>2

LEMMA FormatGoesOn ==
  ASSUME OneBitmapCluster, IInv, task = "format", NEW ok \in BOOLEAN,
         NEW list, IsList(list), Continue(list, ok),
         ok => \E total \in Totals : WillBeFormatted(disk', list, total),
         mem' = mem
  PROVE  /\ InOrder' /\ Formatting' /\ Promised' /\ Unshaken' /\ Shaken'
         /\ DOMAIN promise' \in SUBSET Names /\ touched' \in SUBSET Names
         /\ shaken' \in BOOLEAN
<1>1. /\ todo' = list /\ left' = {} /\ failed' = (~ok /\ list # <<>>)
      /\ task' = IF list = <<>> THEN "none" ELSE task
      /\ shaken = TRUE /\ DOMAIN promise = {} /\ touched = {} /\ ~mem.up
  BY DEF Continue, IInv, InOrder, Formatting, Typed
<1>2. CASE list # <<>> \/ ~ok
  <2>1. promise' = promise /\ touched' = touched /\ shaken' = shaken
    BY <1>2 DEF Continue, Finish, Rest
  <2>2. InOrder' /\ Promised' /\ Unshaken'
    BY <1>1, <2>1 DEF InOrder, Promised, Unshaken
  <2>3. Formatting'
    BY <1>1, <1>2, <2>1 DEF Formatting
  <2>4. Shaken'
    BY <1>1, <2>1, EmptyList DEF Shaken
  <2> QED  BY <1>1, <2>1, <2>2, <2>3, <2>4
<1>3. CASE list = <<>> /\ ok
  <2>1. promise' = [n \in Names |-> None] /\ touched' = {} /\ shaken' = FALSE
    BY <1>3 DEF Continue, Finish
  <2>2. DOMAIN promise' = Names /\ \A n \in Names : promise'[n] = None
    BY <2>1
  <2>3. PICK total \in Totals : WillBeFormatted(disk', <<>>, total)
    BY <1>3
  <2> DEFINE u == Metadata(total) \cup {FormatRoot(total)}
             index == FormatIndex(total)
  <2>4. /\ Formed(disk') /\ disk'[0].total = total
        /\ Current(disk', u, index, promise', {})
        /\ u \subseteq Clusters
        /\ TableIs(disk', index) /\ BitmapIs(disk', u)
    BY <2>2, <2>3, Formatted
  <2>5. index \in [InodeIndexes -> InodeValues]
    BY <2>3, FormatIndexIs DEF WillBeFormatted
  <2> HIDE DEF u, index
  <2>6. Whole(u, index)'
    BY <1>1, <1>3, <2>1, <2>4, NothingLeft DEF Whole
  <2>7. Unshaken'
    BY <2>1, <2>2, <2>4, <2>5, <2>6 DEF Unshaken
  <2>8. InOrder' /\ Formatting' /\ Shaken'
    BY <1>1, <1>3, <2>1 DEF InOrder, Formatting, Shaken
  <2>9. Promised'
    BY <1>1, <2>1, <2>4 DEF Promised
  <2> QED  BY <2>1, <2>2, <2>7, <2>8, <2>9
<1> QED  BY <1>2, <1>3

LEMMA WriteKeeps ==
  ASSUME OneBitmapCluster, IInv, Write
  PROVE  IInv'
<1> DEFINE w == todo[1]
           rest == Tail(todo)
<1>1. /\ todo # <<>> /\ IsList(todo) /\ 1 \in DOMAIN todo
      /\ WriteOK(w) /\ DOMAIN disk = Clusters
      /\ disk' = Done(disk, todo)
      /\ task \in {"format", "sync", "unmount"} /\ failed \in BOOLEAN
      /\ IsList(rest) /\ \A k \in DOMAIN rest : WriteOK(rest[k])
      /\ Continue(rest, ~failed)
      /\ \/ mem' = mem
         \/ /\ mem.up /\ mem' = [mem EXCEPT !.dirty = FALSE]
            /\ w.of = "index"
            /\ \A k \in DOMAIN rest : rest[k].of # "index"
      /\ disk' = [c \in Clusters |-> disk'[c]]
      /\ \A c \in Clusters : ContentOK(disk'[c])
  BY WriteIs
<1>2. /\ (mem = Unmounted \/ MemOK)' /\ mem'.up = mem.up
      /\ mem = Unmounted => mem' = Unmounted
      /\ mem.up => /\ mem'.total = mem.total /\ mem'.root = mem.root
                   /\ mem'.used = mem.used /\ mem'.index = mem.index
                   /\ mem' # mem => ~mem'.dirty
  BY <1>1, MemKept DEF IInv
<1>3. \A c \in Clusters : disk'[c] = IF c = w.to THEN w.put ELSE disk[c]
  BY <1>1 DEF Done
<1>4. \A k \in DOMAIN rest : k + 1 \in DOMAIN todo /\ rest[k] = todo[k + 1]
  BY <1>1, TailList
<1>5. Tail(todo) = rest /\ w = todo[1]
  OBVIOUS
<1> HIDE DEF w, rest
<1>6. \A c \in Clusters : \A content :
        WillHold(disk, todo, c, content) => WillHold(disk', rest, c, content)
  BY <1>1, <1>5, WillHoldOn
<1>7. CASE task = "format"
  <2>1. mem' = mem
    BY <1>1, <1>7 DEF IInv, InOrder
  <2>2. ASSUME ~failed
        PROVE  \E total \in Totals : WillBeFormatted(disk', rest, total)
    <3>1. PICK total \in Totals : WillBeFormatted(disk, todo, total)
      BY <1>7, <2>2 DEF IInv, Formatting
    <3>2. Fits(total)
      BY <3>1 DEF WillBeFormatted
    <3>3. /\ FormatRoot(total) \in 0 .. total - 1 /\ total \in Nat /\ Top + 2 <= total
          /\ 0 .. total - 1 \subseteq Clusters
      BY <3>2, FormatRootIs, MetadataIs, Sizes DEF FilePlaces
    <3>4. /\ 0 \in Clusters /\ FormatRoot(total) \in Clusters /\ BitmapStart \in Clusters
          /\ \A k \in TableIndexes : TableStart + k \in Clusters
      BY <3>3, TableCluster, Sizes DEF BitmapStart
    <3>5. WillBeFormatted(disk', rest, total)
      BY <1>6, <3>1, <3>4 DEF WillBeFormatted, TableWillBe
    <3> QED  BY <3>5
  <2>3. /\ InOrder' /\ Formatting' /\ Promised' /\ Unshaken' /\ Shaken'
        /\ DOMAIN promise' \in SUBSET Names /\ touched' \in SUBSET Names
        /\ shaken' \in BOOLEAN
    BY <1>1, <1>7, <2>1, <2>2, FormatGoesOn
  <2>4. Typed'
    BY <1>1, <1>2, <2>3, ContinueTyped DEF IInv
  <2> QED  BY <2>3, <2>4 DEF IInv
<1>8. CASE task # "format" /\ shaken
  <2>1. \A k \in DOMAIN todo : todo[k].of = "bitmap" /\ todo[k].to = BitmapStart
    BY <1>8 DEF IInv, Shaken
  <2>2. mem' = mem /\ \A k \in DOMAIN rest : rest[k].of = "bitmap" /\ rest[k].to = BitmapStart
    BY <1>1, <1>4, <2>1 DEF w
  <2>3. \A c \in Clusters : c # BitmapStart => disk'[c] = disk[c]
    BY <1>1, <1>3, <2>1 DEF w
  <2>4. /\ InOrder' /\ Formatting' /\ Promised' /\ Unshaken' /\ Shaken'
        /\ DOMAIN promise' \in SUBSET Names /\ touched' \in SUBSET Names
        /\ shaken' \in BOOLEAN
    BY <1>1, <1>8, <2>2, <2>3, ShakenGoesOn
  <2>5. Typed'
    BY <1>1, <1>2, <2>4, ContinueTyped DEF IInv
  <2> QED  BY <2>4, <2>5 DEF IInv
<1>9. CASE task # "format" /\ ~shaken
  <2>1. PICK u \in SUBSET Clusters, index \in [InodeIndexes -> InodeValues] :
          Whole(u, index)
    BY <1>9 DEF IInv, Unshaken
  <2>2. /\ Formed(disk) /\ Current(disk, u, index, promise, touched)
        /\ Flushing(disk, todo, u, index) /\ DOMAIN promise = Names
        /\ mem.up => mem.total = disk[0].total /\ mem.root = Root
        /\ mem.up => mem.used = u /\ mem.index = index
        /\ mem.up /\ ~mem.dirty => TableIs(disk, index)
        /\ ~failed => /\ WillHold(disk, todo, BitmapStart, Bits(u))
                      /\ TableWillBe(disk, todo, index)
    BY <1>1, <1>9, <2>1 DEF IInv, Promised, Unshaken, Whole
  <2>3. BitmapWrite(w, u) \/ TableWrite(w, index)
    BY <1>1, <2>2 DEF Flushing, w
  <2>5. /\ Formed(disk') /\ disk'[0] = disk[0] /\ NamesIn(disk') = NamesIn(disk)
        /\ Current(disk', u, index, promise, touched)
        /\ TableIs(disk, index) => TableIs(disk', index)
    <3>1. /\ DOMAIN disk = Clusters /\ Formed(disk)
          /\ Current(disk, u, index, promise, touched)
      BY <1>1, <2>2
    <3> QED  BY <1>3, <2>3, <3>1, MetadataWritten
  <2>6. BitmapStart \in Clusters /\ \A k \in TableIndexes : TableStart + k \in Clusters
    BY <2>2, FormedIs, TableCluster, Sizes DEF BitmapStart
  <2>7. /\ WillHold(disk, todo, BitmapStart, Bits(u)) => WillHold(disk', rest, BitmapStart, Bits(u))
        /\ TableWillBe(disk, todo, index) => TableWillBe(disk', rest, index)
    BY <1>6, <2>6 DEF TableWillBe
  <2>8. Flushing(disk', rest, u, index)
    <3>1. Grouped(rest)
      <4>1. DOMAIN rest \subseteq Nat /\ DOMAIN todo \subseteq Nat
        BY <1>1, ListIs
      <4>2. ASSUME NEW j \in DOMAIN rest, NEW k \in DOMAIN rest, NEW m \in DOMAIN rest,
                   j < k, k < m, rest[j].of = rest[m].of
            PROVE  rest[k].of = rest[j].of
        <5>1. /\ j + 1 \in DOMAIN todo /\ k + 1 \in DOMAIN todo /\ m + 1 \in DOMAIN todo
              /\ rest[j] = todo[j + 1] /\ rest[k] = todo[k + 1] /\ rest[m] = todo[m + 1]
              /\ j + 1 < k + 1 /\ k + 1 < m + 1
          BY <1>4, <4>1, <4>2
        <5>2. Grouped(todo)
          BY <2>2 DEF Flushing
        <5> QED  BY <4>2, <5>1, <5>2 DEF Grouped
      <4> QED  BY <4>2 DEF Grouped
    <3>2. \A k \in DOMAIN rest : BitmapWrite(rest[k], u) \/ TableWrite(rest[k], index)
      BY <1>4, <2>2 DEF Flushing
    <3>3. (\E k \in DOMAIN rest : rest[k].of = "index") => TableWillBe(disk', rest, index)
      BY <1>4, <2>2, <2>7 DEF Flushing
    <3> QED  BY <3>1, <3>2, <3>3 DEF Flushing
  <2>9. ASSUME mem.up, ~mem'.dirty PROVE TableIs(disk', index)
    <3>1. CASE mem' = mem
      BY <2>2, <2>5, <2>9, <3>1
    <3>2. CASE mem' # mem
      <4>1. w.of = "index" /\ \A k \in DOMAIN rest : rest[k].of # "index"
        BY <1>1, <3>2
      <4>2. TableWillBe(disk', rest, index)
        BY <1>1, <2>2, <2>7, <4>1 DEF Flushing, w
      <4>3. \A k \in DOMAIN rest : rest[k].to = BitmapStart
        BY <1>4, <2>2, <4>1 DEF Flushing, TableWrite, BitmapWrite
      <4>4. \A k \in TableIndexes : TableStart + k # BitmapStart
        BY TableCluster DEF BitmapStart
      <4>5. \A k \in TableIndexes : disk'[TableStart + k] = ChunkOf(index, k)
        BY <4>2, <4>3, <4>4 DEF TableWillBe, WillHold, Puts
      <4> QED  BY <4>5 DEF TableIs
    <3> QED  BY <3>1, <3>2
  <2>10. ~failed => /\ WillHold(disk', rest, BitmapStart, Bits(u))
                    /\ TableWillBe(disk', rest, index)
    BY <2>2, <2>7
  <2>11. mem.up => /\ mem'.total = disk'[0].total /\ mem'.root = Root
                   /\ mem'.used = u /\ mem'.index = index
                   /\ ~mem'.dirty => TableIs(disk', index)
    BY <1>2, <2>2, <2>5, <2>9
  <2>12. (~failed) \in BOOLEAN /\ task \in {"sync", "unmount"}
    BY <1>1, <1>9
  <2>13. /\ InOrder' /\ Formatting' /\ Promised' /\ Unshaken' /\ Shaken'
        /\ DOMAIN promise' \in SUBSET Names /\ touched' \in SUBSET Names
        /\ shaken' \in BOOLEAN
    BY <1>1, <1>2, <1>9, <2>2, <2>5, <2>8, <2>10, <2>11, <2>12, UnshakenGoesOn
  <2>14. Typed'
    BY <1>1, <1>2, <2>13, ContinueTyped DEF IInv
  <2> QED  BY <2>13, <2>14 DEF IInv
<1> QED  BY <1>7, <1>8, <1>9

\* What is left when a write fails starts with the first write of another kind.
LEMMA OthersAre ==
  ASSUME IsList(todo), todo # <<>>
  PROVE  \/ Others = <<>>
         \/ /\ IsList(Others)
            /\ \E s \in Nat :
                 /\ s + 1 \in DOMAIN todo /\ s >= 1 /\ todo[s + 1].of # todo[1].of
                 /\ \A k \in DOMAIN todo : k <= s => todo[k].of = todo[1].of
                 /\ \A k \in DOMAIN Others : k + s \in DOMAIN todo /\ Others[k] = todo[k + s]
                 /\ \A k \in DOMAIN todo : k > s => k - s \in DOMAIN Others
<1> DEFINE other == {k \in DOMAIN todo : todo[k].of # todo[1].of}
           n == Len(todo)
<1>1. n \in Nat /\ DOMAIN todo = 1 .. n /\ todo \in Seq(Listed(todo)) /\ 1 \in DOMAIN todo
  BY ListIs, TailList DEF IsList
<1>2. CASE task = "format" \/ other = {}
  BY <1>2 DEF Others
<1>3. CASE task # "format" /\ other # {}
  <2> DEFINE m == Min(other)
             s == m - 1
             rest == SubSeq(todo, m, n)
  <2>1. Others = rest
    BY <1>3 DEF Others
  <2>2. m \in other /\ \A k \in other : m <= k
    <3>1. other \in SUBSET Nat
      BY <1>1
    <3> HIDE DEF other
    <3>2. \E x \in other : \A y \in other : x <= y
      BY <1>3, <3>1, LeastNatural
    <3> QED  BY <3>2 DEF Min
  <2> HIDE DEF m
  <2>3. m \in 1 .. n /\ m # 1 /\ s \in Nat /\ s + 1 = m /\ s >= 1
    BY <1>1, <2>2
  <2>4. /\ rest \in Seq(Listed(todo)) /\ Len(rest) = n - m + 1
        /\ \A i \in 1 .. n - m + 1 : rest[i] = todo[m + i - 1]
    BY <1>1, <2>3, SubSeqProperties
  <2> HIDE DEF rest
  <2>5. IsList(rest) /\ DOMAIN rest = 1 .. n - s
    BY <1>1, <2>3, <2>4, ListedIn, ListIs
  <2>6. \A k \in DOMAIN rest : k + s \in DOMAIN todo /\ rest[k] = todo[k + s]
    <3>1. ASSUME NEW k \in DOMAIN rest
          PROVE  k + s \in DOMAIN todo /\ m + k - 1 = k + s /\ k \in 1 .. n - m + 1
      BY <1>1, <2>3, <2>5
    <3> QED  BY <2>4, <3>1
  <2>7. \A k \in DOMAIN todo : k > s => k - s \in DOMAIN rest
    BY <1>1, <2>3, <2>5
  <2>8. \A k \in DOMAIN todo : k <= s => todo[k].of = todo[1].of
    BY <1>1, <2>2, <2>3
  <2>9. todo[s + 1].of # todo[1].of /\ s + 1 \in DOMAIN todo
    BY <2>2, <2>3
  <2> HIDE DEF s
  <2> QED  BY <2>1, <2>3, <2>5, <2>6, <2>7, <2>8, <2>9
<1> QED  BY <1>2, <1>3

\* Writes of other clusters can be left out.
LEMMA WillHoldWithout ==
  ASSUME NEW d, NEW list, IsList(list), NEW rest, IsList(rest), NEW s \in Nat,
         \A k \in DOMAIN rest : k + s \in DOMAIN list /\ rest[k] = list[k + s],
         \A k \in DOMAIN list : k > s => k - s \in DOMAIN rest,
         NEW c, \A k \in DOMAIN list : k <= s => list[k].to # c,
         NEW content, WillHold(d, list, c, content)
  PROVE  WillHold(d, rest, c, content)
<1>1. DOMAIN list \subseteq Nat /\ DOMAIN rest \subseteq Nat
  BY ListIs
<1>2. CASE Spares(list, c) /\ d[c] = content
  BY <1>2 DEF WillHold, Spares
<1>3. CASE Puts(list, c, content)
  <2>1. PICK k \in DOMAIN list :
             /\ list[k].to = c /\ list[k].put = content
             /\ \A m \in DOMAIN list : m > k => list[m].to # c
    BY <1>3 DEF Puts
  <2>2. k > s /\ k - s \in DOMAIN rest /\ (k - s) + s = k
    BY <1>1, <2>1
  <2>3. rest[k - s].to = c /\ rest[k - s].put = content
    BY <2>1, <2>2
  <2>4. ASSUME NEW m \in DOMAIN rest, m > k - s PROVE rest[m].to # c
    <3>1. m + s \in DOMAIN list /\ m + s > k /\ rest[m] = list[m + s]
      BY <1>1, <2>1, <2>4
    <3> QED  BY <2>1, <3>1
  <2> QED  BY <2>2, <2>3, <2>4 DEF WillHold, Puts
<1> QED  BY <1>2, <1>3 DEF WillHold

LEMMA WriteFailsKeeps ==
  ASSUME OneBitmapCluster, IInv, WriteFails
  PROVE  IInv'
<1>1. /\ todo # <<>> /\ IsList(todo) /\ task \in {"format", "sync", "unmount"}
      /\ \A k \in DOMAIN todo : WriteOK(todo[k])
      /\ disk' = disk /\ mem' = mem /\ Continue(Others, FALSE)
      /\ disk' = [c \in Clusters |-> disk'[c]] /\ \A c \in Clusters : ContentOK(disk'[c])
      /\ (mem = Unmounted \/ MemOK)'
  BY DEF WriteFails, IInv, Typed, MemOK
<1>2. PICK list : list = Others
  OBVIOUS
<1>3. IsList(list) /\ \A k \in DOMAIN list : WriteOK(list[k])
  <2>1. CASE list = <<>>
    BY <2>1, EmptyList
  <2>2. CASE list # <<>>
    <3>1. IsList(list) /\ \E s : \A k \in DOMAIN list : /\ k + s \in DOMAIN todo
                                                        /\ list[k] = todo[k + s]
      BY <1>1, <1>2, <2>2, OthersAre
    <3> QED  BY <1>1, <3>1
  <2> QED  BY <2>1, <2>2
<1>4. \/ list = <<>>
      \/ \E s \in Nat :
           /\ s + 1 \in DOMAIN todo /\ s >= 1 /\ todo[s + 1].of # todo[1].of
           /\ \A k \in DOMAIN todo : k <= s => todo[k].of = todo[1].of
           /\ \A k \in DOMAIN list : k + s \in DOMAIN todo /\ list[k] = todo[k + s]
           /\ \A k \in DOMAIN todo : k > s => k - s \in DOMAIN list
  BY <1>1, <1>2, OthersAre
<1>5. Continue(list, FALSE)
  BY <1>1, <1>2
<1>6. CASE task = "format"
  <2>1. /\ InOrder' /\ Formatting' /\ Promised' /\ Unshaken' /\ Shaken'
        /\ DOMAIN promise' \in SUBSET Names /\ touched' \in SUBSET Names
        /\ shaken' \in BOOLEAN
    BY <1>1, <1>3, <1>5, <1>6, FormatGoesOn
  <2>2. Typed'
    BY <1>1, <1>3, <1>5, <2>1, ContinueTyped DEF IInv
  <2> QED  BY <2>1, <2>2 DEF IInv
<1>7. CASE task # "format" /\ shaken
  <2>1. \A k \in DOMAIN todo : todo[k].of = "bitmap" /\ todo[k].to = BitmapStart
    BY <1>7 DEF IInv, Shaken
  <2>2. \A k \in DOMAIN list : list[k].of = "bitmap" /\ list[k].to = BitmapStart
    BY <1>4, <2>1, EmptyList
  <2>3. \A c \in Clusters : c # BitmapStart => disk'[c] = disk[c]
    BY <1>1
  <2>4. /\ InOrder' /\ Formatting' /\ Promised' /\ Unshaken' /\ Shaken'
        /\ DOMAIN promise' \in SUBSET Names /\ touched' \in SUBSET Names
        /\ shaken' \in BOOLEAN
    BY <1>1, <1>3, <1>5, <1>7, <2>2, <2>3, ShakenGoesOn
  <2>5. Typed'
    BY <1>1, <1>3, <1>5, <2>4, ContinueTyped DEF IInv
  <2> QED  BY <2>4, <2>5 DEF IInv
<1>8. CASE task # "format" /\ ~shaken
  <2>1. PICK u \in SUBSET Clusters, index \in [InodeIndexes -> InodeValues] :
          Whole(u, index)
    BY <1>8 DEF IInv, Unshaken
  <2>2. /\ Formed(disk) /\ Current(disk, u, index, promise, touched)
        /\ Flushing(disk, todo, u, index) /\ DOMAIN promise = Names
        /\ mem.up => /\ mem.total = disk[0].total /\ mem.root = Root
                     /\ mem.used = u /\ mem.index = index
                     /\ ~mem.dirty => TableIs(disk, index)
    BY <1>8, <2>1 DEF IInv, Promised, Unshaken, Whole
  <2>3. Flushing(disk, list, u, index)
    <3>1. CASE list = <<>>
      BY <3>1, NothingLeft
    <3>2. CASE list # <<>>
      <4>1. PICK s \in Nat :
              /\ s + 1 \in DOMAIN todo /\ s >= 1 /\ todo[s + 1].of # todo[1].of
              /\ \A k \in DOMAIN todo : k <= s => todo[k].of = todo[1].of
              /\ \A k \in DOMAIN list : k + s \in DOMAIN todo /\ list[k] = todo[k + s]
              /\ \A k \in DOMAIN todo : k > s => k - s \in DOMAIN list
        BY <1>4, <3>2
      <4>2. DOMAIN list \subseteq Nat /\ DOMAIN todo \subseteq Nat /\ 1 \in DOMAIN todo
        BY <1>1, <1>3, ListIs, TailList
      <4>3. /\ Grouped(todo)
            /\ \A k \in DOMAIN todo : BitmapWrite(todo[k], u) \/ TableWrite(todo[k], index)
        BY <2>2 DEF Flushing
      <4>4. ASSUME NEW j \in DOMAIN list, NEW k \in DOMAIN list, NEW m \in DOMAIN list,
                   j < k, k < m, list[j].of = list[m].of
            PROVE  list[k].of = list[j].of
        <5>1. /\ j + s \in DOMAIN todo /\ k + s \in DOMAIN todo /\ m + s \in DOMAIN todo
              /\ list[j] = todo[j + s] /\ list[k] = todo[k + s] /\ list[m] = todo[m + s]
              /\ j + s < k + s /\ k + s < m + s
          BY <4>1, <4>2, <4>4
        <5> QED  BY <4>3, <4>4, <5>1 DEF Grouped
      <4>5. Grouped(list)
        BY <4>4 DEF Grouped
      <4>6. \A k \in DOMAIN list : BitmapWrite(list[k], u) \/ TableWrite(list[k], index)
        BY <4>1, <4>3
      <4>7. ASSUME NEW j \in DOMAIN list, list[j].of = "index"
            PROVE  TableWillBe(disk, list, index)
        <5>1. j + s \in DOMAIN todo /\ todo[j + s].of = "index"
          BY <4>1, <4>7
        <5>2. TableWillBe(disk, todo, index)
          BY <2>2, <5>1 DEF Flushing
        <5>3. todo[1].of # "index"
          <6> SUFFICES ASSUME todo[1].of = "index" PROVE FALSE
            OBVIOUS
          <6>1. j \in Nat /\ j >= 1 /\ j # 1
            BY <1>3, <4>1, <4>2, <4>7, ListIs
          <6>2. 1 < s + 1 /\ s + 1 < j + s
            BY <4>1, <6>1
          <6> QED  BY <4>1, <4>2, <4>3, <5>1, <6>2 DEF Grouped
        <5>4. \A k \in DOMAIN todo : k <= s => todo[k].to = BitmapStart
          BY <4>1, <4>3, <5>3 DEF BitmapWrite, TableWrite
        <5>5. \A k \in TableIndexes : TableStart + k # BitmapStart
          BY TableCluster DEF BitmapStart
        <5>6. ASSUME NEW k \in TableIndexes
              PROVE  WillHold(disk, list, TableStart + k, ChunkOf(index, k))
          <6>1. WillHold(disk, todo, TableStart + k, ChunkOf(index, k))
            BY <5>2 DEF TableWillBe
          <6>2. \A m \in DOMAIN todo : m <= s => todo[m].to # TableStart + k
            BY <5>4, <5>5
          <6> QED  BY <1>1, <1>3, <4>1, <6>1, <6>2, WillHoldWithout
        <5> QED  BY <5>6 DEF TableWillBe
      <4> QED  BY <4>5, <4>6, <4>7 DEF Flushing
    <3> QED  BY <3>1, <3>2
  <2>4. /\ Formed(disk') /\ Current(disk', u, index, promise, touched)
        /\ Flushing(disk', list, u, index)
        /\ mem = Unmounted => mem' = Unmounted
        /\ mem'.up = mem.up
        /\ mem.up => /\ mem'.total = disk'[0].total /\ mem'.root = Root
                     /\ mem'.used = u /\ mem'.index = index
                     /\ ~mem'.dirty => TableIs(disk', index)
    BY <1>1, <2>2, <2>3
  <2>5. /\ InOrder' /\ Formatting' /\ Promised' /\ Unshaken' /\ Shaken'
        /\ DOMAIN promise' \in SUBSET Names /\ touched' \in SUBSET Names
        /\ shaken' \in BOOLEAN
    BY <1>1, <1>3, <1>5, <1>8, <2>2, <2>4, UnshakenGoesOn
  <2>6. Typed'
    BY <1>1, <1>3, <1>5, <2>5, ContinueTyped DEF IInv
  <2> QED  BY <2>5, <2>6 DEF IInv
<1> QED  BY <1>1, <1>6, <1>7, <1>8

------------------------------------------------------------------------------
(***************************************************************************)
(* Work.                                                                   *)
(***************************************************************************)
LEMMA MemDisk ==
  ASSUME OneBitmapCluster, IInv, ~shaken, mem.up
  PROVE  /\ RootCluster(mem) = RootIn(disk) /\ HasRoot(mem)
         /\ EntriesOf(mem) = NamesIn(disk)
<1>1. /\ Formed(disk) /\ mem.root = Root
      /\ Current(disk, mem.used, mem.index, promise, touched)
  BY UnshakenIs
<1>2. mem.index[Root] = RootIn(disk) /\ RootIn(disk) \in Top + 1 .. disk[0].total - 1
  BY <1>1, FormedIs DEF Current
<1>3. RootCluster(mem) = RootIn(disk)
  BY <1>1, <1>2, Sizes DEF RootCluster
<1> QED  BY <1>1, <1>3 DEF HasRoot, EntriesOf, NamesIn, Formed

\* An inode gets another cluster, or none: the bitmap follows.
LEMMA AgreedOn ==
  ASSUME OneBitmapCluster, NEW total \in Totals, Fits(total),
         NEW used, NEW index \in [InodeIndexes -> {Unused} \cup 0 .. total - 1],
         Agreed(total, used, index),
         NEW i \in InodeIndexes,
         NEW c, \/ c \in {Unused, 0}
                \/ c \in FilePlaces(total) /\ (c \notin used \/ c = index[i]),
         NEW index2, index2[i] = c,
         \A j \in InodeIndexes \ {i} : index2[j] = index[j]
  PROVE  Agreed(total, (used \ ({index[i]} \ {0})) \cup ({c} \ {0, Unused}), index2)
<1> DEFINE used2 == (used \ ({index[i]} \ {0})) \cup ({c} \ {0, Unused})
<1>1. /\ FilePlaces(total) = Top + 1 .. total - 1 /\ Metadata(total) = 0 .. Top
      /\ Top \in Nat /\ total \in Nat
  BY MetadataIs, Sizes
<1>2. c > 0 <=> c \in FilePlaces(total)
  BY <1>1 DEF Unused
<1>3. /\ \A j, k \in Holders(index) : index[j] = index[k] => j = k
      /\ used = Metadata(total) \cup {index[j] : j \in Holders(index)}
      /\ \A j \in Holders(index) : index[j] \notin Metadata(total)
  BY DEF Agreed
<1>4. \A j \in InodeIndexes \ {i} : j \in Holders(index2) <=> j \in Holders(index)
  BY DEF Holders
<1>5. i \in Holders(index2) <=> c \in FilePlaces(total)
  BY <1>2 DEF Holders
<1>6. i \in Holders(index) <=> index[i] > 0
  BY DEF Holders
<1>7. Holders(index) \subseteq InodeIndexes /\ Holders(index2) \subseteq InodeIndexes
  BY DEF Holders
<1>8. \A j \in Holders(index2) : index2[j] \notin Metadata(total)
  <2>1. ASSUME NEW j \in Holders(index2) PROVE index2[j] \notin Metadata(total)
    <3>1. CASE j = i
      BY <1>5, <2>1, <3>1 DEF FilePlaces
    <3>2. CASE j # i
      BY <1>3, <1>4, <1>7, <2>1, <3>2
    <3> QED  BY <3>1, <3>2
  <2> QED  BY <2>1
<1>9. \A j \in Holders(index2) \ {i} : index2[j] # c
  <2>1. ASSUME NEW j \in Holders(index2) \ {i}, index2[j] = c PROVE FALSE
    <3>1. j \in Holders(index) /\ index[j] = c /\ c \in used /\ c > 0
      BY <1>3, <1>4, <1>7, <2>1 DEF Holders
    <3>2. c = index[i]
      BY <1>2, <3>1 DEF Unused
    <3>3. i \in Holders(index)
      BY <3>1, <3>2 DEF Holders
    <3> QED  BY <1>3, <2>1, <3>1, <3>2, <3>3
  <2> QED  BY <2>1
<1>10. \A j, k \in Holders(index2) : index2[j] = index2[k] => j = k
  <2>1. ASSUME NEW j \in Holders(index2), NEW k \in Holders(index2), index2[j] = index2[k]
        PROVE  j = k
    <3>1. CASE j = i \/ k = i
      BY <1>9, <2>1, <3>1
    <3>2. CASE j # i /\ k # i
      BY <1>3, <1>4, <1>7, <2>1, <3>2
    <3> QED  BY <3>1, <3>2
  <2> QED  BY <2>1
<1>11. used2 = Metadata(total) \cup {index2[j] : j \in Holders(index2)}
  <2>1. ASSUME NEW x \in used2 PROVE x \in Metadata(total) \cup {index2[j] : j \in Holders(index2)}
    <3>1. CASE x \in {c} \ {0, Unused}
      <4>1. c \in FilePlaces(total) /\ x = c
        BY <3>1
      <4> QED  BY <1>5, <4>1
    <3>2. CASE x \in used \ ({index[i]} \ {0})
      <4>1. CASE x \in Metadata(total)
        BY <4>1
      <4>2. CASE x \notin Metadata(total)
        <5>1. PICK j \in Holders(index) : x = index[j]
          BY <1>3, <3>2, <4>2
        <5>2. x > 0
          BY <5>1 DEF Holders
        <5>3. j # i
          BY <3>2, <5>1, <5>2
        <5> QED  BY <1>4, <1>7, <5>1, <5>3
      <4> QED  BY <4>1, <4>2
    <3> QED  BY <2>1, <3>1, <3>2
  <2>2. ASSUME NEW x \in Metadata(total) PROVE x \in used2
    <3>1. x \in used
      BY <1>3, <2>2
    <3>2. x \notin {index[i]} \ {0}
      <4>1. ASSUME x = index[i], x # 0 PROVE FALSE
        <5>1. i \in Holders(index)
          BY <1>1, <1>6, <2>2, <4>1
        <5> QED  BY <1>3, <2>2, <4>1, <5>1
      <4> QED  BY <4>1
    <3> QED  BY <3>1, <3>2
  <2>3. ASSUME NEW j \in Holders(index2) PROVE index2[j] \in used2
    <3>1. CASE j = i
      BY <1>1, <1>5, <2>3, <3>1 DEF Unused
    <3>2. CASE j # i
      <4>1. j \in Holders(index) /\ index2[j] = index[j] /\ index[j] \in used
        BY <1>3, <1>4, <1>7, <2>3, <3>2
      <4>2. index[j] > 0
        BY <4>1 DEF Holders
      <4>3. index[j] # index[i]
        <5>1. ASSUME index[j] = index[i] PROVE FALSE
          <6>1. i \in Holders(index)
            BY <1>6, <4>2, <5>1
          <6> QED  BY <1>3, <3>2, <4>1, <5>1, <6>1
        <5> QED  BY <5>1
      <4> QED  BY <4>1, <4>3
    <3> QED  BY <3>1, <3>2
  <2> HIDE DEF used2
  <2> QED  BY <2>1, <2>2, <2>3
<1> QED  BY <1>8, <1>10, <1>11 DEF Agreed

\* One name, n, is given the inode i, which gets the cluster c, 0 being none;
\* or it is removed.  The directory then has these names.
Reworked(d, used, index, p, n, i, c, e, q, names, index2, used2) ==
  /\ \/ n \in DOMAIN NamesIn(d) /\ NamesIn(d)[n] = i
     \/ n \notin DOMAIN NamesIn(d) /\ index[i] = Unused
  /\ \/ c \in {Unused, 0}
     \/ c \in FilePlaces(d[0].total) /\ (c \notin used \/ c = index[i])
  /\ \A x \in Clusters : x # RootIn(d) /\ (x # c \/ c = 0) => e[x] = d[x]
  /\ e[RootIn(d)].is = "entries" /\ e[RootIn(d)].inodeOf = names
  /\ DOMAIN names \in SUBSET Names
  /\ \A m \in Names \ {n} : /\ m \in DOMAIN names <=> m \in DOMAIN NamesIn(d)
                            /\ m \in DOMAIN names => names[m] = NamesIn(d)[m]
  /\ \A m \in Names \ {n} : q[m] = p[m]
  /\ IF n \in DOMAIN names THEN names[n] = i /\ Keeps(e, c, q[n]) ELSE q[n] = None
  /\ index2 = [j \in InodeIndexes |-> index2[j]] /\ index2[i] = c
  /\ \A j \in InodeIndexes \ {i} : index2[j] = index[j]
  /\ used2 = (used \ ({index[i]} \ {0})) \cup ({c} \ {0, Unused})

LEMMA Worked ==
  ASSUME OneBitmapCluster, NEW d, NEW used, NEW index, NEW p, NEW t, Formed(d),
         Current(d, used, index, p, t),
         NEW n \in Names, NEW i \in FileInodes, NEW c, NEW e, NEW q,
         NEW names, NEW index2, NEW used2,
         Reworked(d, used, index, p, n, i, c, e, q, names, index2, used2)
  PROVE  /\ Formed(e) /\ e[0] = d[0] /\ NamesIn(e) = names
         /\ Current(e, used2, index2, q, t \cup {n})
<1> USE DEF Reworked
<1> DEFINE total == d[0].total
           r == RootIn(d)
<1>1. /\ total \in Totals /\ Fits(total) /\ total \in Nat /\ Top \in Nat
      /\ FilePlaces(total) = Top + 1 .. total - 1 /\ Metadata(total) = 0 .. Top
      /\ r \in Top + 1 .. total - 1 /\ 0 .. total - 1 \subseteq Clusters
      /\ 0 .. Top \subseteq Clusters
      /\ \A m \in DOMAIN NamesIn(d) : NamesIn(d)[m] \in FileInodes
      /\ FileInodes \subseteq InodeIndexes \ {Root}
  <2>1. /\ total \in Totals /\ total \in Nat /\ Top + 2 <= total /\ total <= MaxTotal
        /\ FilePlaces(total) = Top + 1 .. total - 1 /\ Metadata(total) = 0 .. Top
        /\ r \in Top + 1 .. total - 1
    BY FormedIs
  <2>2. Fits(total) /\ \A m \in DOMAIN NamesIn(d) : NamesIn(d)[m] \in FileInodes
    BY DEF Formed
  <2>3. FileInodes \subseteq InodeIndexes \ {Root}
    BY Sizes DEF FileInodes, InodeIndexes
  <2>4. /\ MaxTotal \in Nat /\ Clusters = 0 .. MaxTotal - 1 /\ Top \in Nat
        /\ Top <= MaxTotal - 1
    BY <2>1, Sizes
  <2>5. 0 .. total - 1 \subseteq Clusters /\ 0 .. Top \subseteq Clusters
    BY <2>1, <2>4
  <2> QED  BY <2>1, <2>2, <2>3, <2>4, <2>5
<1>2. /\ used \in SUBSET (0 .. total - 1)
      /\ index \in [InodeIndexes -> {Unused} \cup 0 .. total - 1]
      /\ Agreed(total, used, index)
      /\ index[Root] = r
      /\ \A l, m \in DOMAIN NamesIn(d) : NamesIn(d)[l] = NamesIn(d)[m] => l = m
      /\ \A m \in Names : IF m \in DOMAIN NamesIn(d) THEN Keeps(d, index[NamesIn(d)[m]], p[m])
                          ELSE p[m] = None
      /\ \A m \in DOMAIN NamesIn(d) \ t : TableOf(d)[NamesIn(d)[m]] = index[NamesIn(d)[m]]
  BY DEF Current
<1>3. \A x \in 0 .. Top : e[x] = d[x]
  <2>1. ASSUME NEW x \in 0 .. Top PROVE e[x] = d[x]
    <3>1. x \in Clusters /\ x # r /\ (x # c \/ c = 0)
      BY <1>1 DEF Unused
    <3> QED  BY <3>1
  <2> QED  BY <2>1
<1>4. /\ TableOf(e) = TableOf(d) /\ RootIn(e) = r
      /\ \A k \in TableIndexes : e[TableStart + k] = d[TableStart + k]
  <2>1. \A x \in 2 .. Top : e[x] = d[x]
    BY <1>1, <1>3
  <2> QED  BY <2>1, TableFixed
<1>5. e[0] = d[0] /\ NamesIn(e) = names /\ e[r].is = "entries"
  BY <1>1, <1>3, <1>4 DEF NamesIn
<1>6. DOMAIN NamesIn(d) \subseteq Names
  BY DEF Formed
<1>7. \A m \in DOMAIN names : names[m] \in FileInodes
  <2>1. ASSUME NEW m \in DOMAIN names PROVE names[m] \in FileInodes
    <3>1. CASE m = n
      BY <2>1, <3>1
    <3>2. CASE m # n
      <4>1. m \in DOMAIN NamesIn(d) /\ names[m] = NamesIn(d)[m]
        BY <2>1, <3>2
      <4> QED  BY <1>1, <4>1
    <3> QED  BY <3>1, <3>2
  <2> QED  BY <2>1
<1>8. Formed(e)
  <2>1. \A k \in TableIndexes : /\ e[TableStart + k].is = "inodes"
                                /\ DOMAIN e[TableStart + k].table = Chunk(k)
    BY <1>4 DEF Formed
  <2>2. e[RootIn(e)].is = "entries"
    BY <1>4, <1>5
  <2>3. d[0] = Super(total, Root)
    BY DEF Formed
  <2> QED  BY <1>1, <1>4, <1>5, <1>7, <2>1, <2>2, <2>3 DEF Formed
\* The other names lead to other inodes.
<1>9. \A m \in DOMAIN NamesIn(d) \ {n} : NamesIn(d)[m] # i
  <2>1. ASSUME NEW m \in DOMAIN NamesIn(d) \ {n}, NamesIn(d)[m] = i PROVE FALSE
    <3>1. CASE n \in DOMAIN NamesIn(d) /\ NamesIn(d)[n] = i
      BY <1>2, <2>1, <3>1
    <3>2. CASE index[i] = Unused
      <4>1. Keeps(d, Unused, p[m])
        BY <1>2, <1>6, <2>1, <3>2
      <4> QED  BY <1>1, <4>1 DEF Keeps, Unused
    <3> QED  BY <3>1, <3>2
  <2> QED  BY <2>1
<1>10. i \in InodeIndexes /\ i # Root
  BY <1>1
<1>11. /\ index2 \in [InodeIndexes -> {Unused} \cup 0 .. total - 1]
       /\ index2[i] = c /\ \A j \in InodeIndexes \ {i} : index2[j] = index[j]
  <2>1. c \in {Unused} \cup 0 .. total - 1
    BY <1>1
  <2>2. \A j \in InodeIndexes : index2[j] \in {Unused} \cup 0 .. total - 1
    BY <1>2, <2>1
  <2> QED  BY <2>2
<1>12. Agreed(total, used2, index2)
  BY <1>1, <1>2, <1>10, <1>11, AgreedOn
<1>13. used2 \in SUBSET (0 .. total - 1)
  BY <1>1, <1>2
\* They keep what they held.
<1>14. ASSUME NEW m \in DOMAIN NamesIn(d) \ {n}
       PROVE  /\ index2[NamesIn(d)[m]] = index[NamesIn(d)[m]]
              /\ Keeps(e, index2[NamesIn(d)[m]], q[m])
  <2> DEFINE j == NamesIn(d)[m]
  <2> SUFFICES index2[j] = index[j] /\ Keeps(e, index2[j], q[m])
    OBVIOUS
  <2>1. j \in InodeIndexes /\ j # i /\ j # Root /\ m \in Names /\ q[m] = p[m]
    BY <1>1, <1>6, <1>9, <1>14
  <2>2. index2[j] = index[j] /\ Keeps(d, index[j], p[m])
    BY <1>2, <1>11, <2>1
  <2> HIDE DEF j
  <2>3. CASE index[j] = 0
    BY <2>1, <2>2, <2>3, <1>1, <1>5 DEF Keeps
  <2>4. CASE index[j] # 0
    <3>1. index[j] \in FilePlaces(total) /\ d[index[j]] = Data(p[m])
      BY <2>2, <2>4 DEF Keeps
    <3>2. j \in Holders(index) /\ index[j] \in used /\ Root \in Holders(index)
      BY <1>1, <1>2, <2>1, <3>1, Sizes DEF Holders, Agreed
    <3>3. index[j] # r
      BY <1>2, <2>1, <3>2 DEF Agreed
    <3>4. index[j] # c \/ c = 0
      <4>1. ASSUME index[j] = c PROVE FALSE
        <5>1. c = index[i]
          BY <1>1, <3>1, <3>2, <4>1 DEF Unused
        <5>2. i \in Holders(index)
          BY <1>1, <1>10, <3>1, <4>1, <5>1 DEF Holders
        <5> QED  BY <1>2, <2>1, <3>2, <4>1, <5>1, <5>2 DEF Agreed
      <4> QED  BY <4>1
    <3>5. e[index[j]] = d[index[j]]
      BY <1>1, <3>1, <3>3, <3>4
    <3> QED  BY <1>5, <2>1, <2>2, <3>1, <3>5 DEF Keeps
  <2> QED  BY <2>3, <2>4
<1>15. \A m \in Names : IF m \in DOMAIN names THEN Keeps(e, index2[names[m]], q[m])
                        ELSE q[m] = None
  <2>1. ASSUME NEW m \in Names
        PROVE  IF m \in DOMAIN names THEN Keeps(e, index2[names[m]], q[m]) ELSE q[m] = None
    <3>1. CASE m = n
      BY <1>11, <3>1
    <3>2. CASE m # n
      <4>1. CASE m \in DOMAIN names
        BY <1>14, <3>2, <4>1
      <4>2. CASE m \notin DOMAIN names
        BY <1>2, <3>2, <4>2
      <4> QED  BY <4>1, <4>2
    <3> QED  BY <3>1, <3>2
  <2> QED  BY <2>1
<1>16. \A m \in DOMAIN names \ (t \cup {n}) : TableOf(e)[names[m]] = index2[names[m]]
  BY <1>2, <1>4, <1>14
<1>17. \A l, m \in DOMAIN names : names[l] = names[m] => l = m
  <2>1. ASSUME NEW l \in DOMAIN names, NEW m \in DOMAIN names, names[l] = names[m], l # m
        PROVE  FALSE
    <3>1. CASE l = n
      BY <1>9, <2>1, <3>1
    <3>2. CASE m = n
      BY <1>9, <2>1, <3>2
    <3>3. CASE l # n /\ m # n
      BY <1>2, <2>1, <3>3
    <3> QED  BY <3>1, <3>2, <3>3
  <2> QED  BY <2>1
<1>18. index2[Root] = RootIn(e)
  BY <1>2, <1>4, <1>10, <1>11, Sizes
<1>19. Current(e, used2, index2, q, t \cup {n})
  BY <1>5, <1>11, <1>12, <1>13, <1>15, <1>16, <1>17, <1>18 DEF Current
<1> QED  BY <1>5, <1>8, <1>19

\* Memory and the clusters outside the metadata change; the disk lags behind.
LEMMA ChangeKeeps ==
  ASSUME OneBitmapCluster, IInv, ~shaken, mem.up, task \in {"none", "defrag"},
         NEW used2, NEW index2,
         mem' = [up |-> TRUE, total |-> mem.total, root |-> mem.root,
                 used |-> used2, index |-> index2, dirty |-> TRUE],
         disk' = [c \in Clusters |-> disk'[c]],
         \A c \in Clusters : ContentOK(disk'[c]),
         Formed(disk'), disk'[0] = disk[0],
         Current(disk', used2, index2, promise', touched'),
         touched' \in SUBSET Names, touched' # {}, DOMAIN promise' = Names,
         left' \in SUBSET left, left' \subseteq DOMAIN NamesIn(disk'),
         UNCHANGED <<task, todo, failed, shaken>>
  PROVE  IInv'
<1>1. /\ mem'.up = TRUE /\ mem'.total = mem.total /\ mem'.root = mem.root
      /\ mem'.used = used2 /\ mem'.index = index2 /\ mem'.dirty = TRUE
  OBVIOUS
<1>2. /\ task' = task /\ todo' = todo /\ failed' = failed /\ shaken' = shaken
      /\ shaken = FALSE /\ todo = <<>>
  BY DEF IInv, Typed
<1>3. MemOK /\ mem.total = disk[0].total /\ mem.root = Root
  BY UnshakenIs
<1>4. /\ used2 \in SUBSET (0 .. mem.total - 1)
      /\ index2 \in [InodeIndexes -> {Unused} \cup 0 .. mem.total - 1]
  BY <1>3 DEF Current
<1>5. used2 \in SUBSET Clusters /\ index2 \in [InodeIndexes -> InodeValues]
  <2>1. 0 .. mem.total - 1 \subseteq Clusters
    BY <1>3, MetadataIs DEF MemOK
  <2> QED  BY <1>4, <2>1 DEF InodeValues
<1>6. MemOK'
  BY <1>1, <1>3, <1>5 DEF MemOK
<1>7. Typed'
  BY <1>2, <1>6 DEF IInv, Typed
<1>8. InOrder' /\ Formatting' /\ Shaken'
  BY <1>1, <1>2 DEF InOrder, Formatting, Shaken
<1>9. Promised'
  BY <1>1, <1>2, <1>3 DEF Promised
<1>10. Whole(used2, index2)'
  BY <1>1, <1>2, NothingLeft DEF Whole
<1>11. Unshaken'
  BY <1>5, <1>10 DEF Unshaken
<1> QED  BY <1>7, <1>8, <1>9, <1>11 DEF IInv

LEMMA NewCluster ==
  ASSUME OneBitmapCluster, IInv, ~shaken, mem.up, FreeClusters # {}
  PROVE  LET c == FirstFree(mem.total, mem.used)
         IN  /\ c \in FilePlaces(mem.total) /\ c \notin mem.used
             /\ c # RootIn(disk) /\ c \in Clusters /\ c \in Nat \ {0}
<1> DEFINE c == FirstFree(mem.total, mem.used)
<1>1. /\ Formed(disk) /\ mem.total = disk[0].total
      /\ Current(disk, mem.used, mem.index, promise, touched)
  BY UnshakenIs
<1>2. /\ mem.total \in Totals /\ mem.total \in Nat /\ Top \in Nat
      /\ FilePlaces(mem.total) = Top + 1 .. mem.total - 1
      /\ Metadata(mem.total) = 0 .. Top
      /\ RootIn(disk) \in Top + 1 .. mem.total - 1
      /\ 0 .. mem.total - 1 \subseteq Clusters
  BY <1>1, FormedIs, MetadataIs, Sizes
<1>3. c \in 0 .. mem.total - 1 /\ c \notin mem.used
  BY <1>2, FirstFreeIs DEF FreeClusters
<1> HIDE DEF c
<1>4. /\ Metadata(mem.total) \subseteq mem.used
      /\ \A j \in Holders(mem.index) : mem.index[j] \in mem.used
  BY <1>1 DEF Current, Agreed
<1>5. RootIn(disk) \in mem.used
  <2>1. mem.index[Root] = RootIn(disk) /\ Root \in Holders(mem.index)
    BY <1>1, <1>2, Sizes DEF Current, Holders
  <2> QED  BY <1>4, <2>1
<1>6. c \in FilePlaces(mem.total) /\ c \in Nat \ {0}
  BY <1>2, <1>3, <1>4
<1>7. /\ c \in FilePlaces(mem.total) /\ c \notin mem.used
      /\ c # RootIn(disk) /\ c \in Clusters /\ c \in Nat \ {0}
  BY <1>2, <1>3, <1>5, <1>6
<1> QED  BY <1>7 DEF c

\* What work starts from.
LEMMA WorkFrom ==
  ASSUME OneBitmapCluster, IInv, ~shaken, mem.up
  PROVE  /\ Formed(disk) /\ mem.total = disk[0].total
         /\ Current(disk, mem.used, mem.index, promise, touched)
         /\ DOMAIN promise = Names /\ touched \in SUBSET Names
         /\ RootCluster(mem) = RootIn(disk) /\ EntriesOf(mem) = NamesIn(disk)
         /\ mem = [up |-> TRUE, total |-> mem.total, root |-> mem.root,
                   used |-> mem.used, index |-> mem.index, dirty |-> mem.dirty]
         /\ mem.index \in [InodeIndexes -> InodeValues]
         /\ mem.used \in SUBSET Nat
         /\ DOMAIN NamesIn(disk) \subseteq Names
         /\ \A m \in DOMAIN NamesIn(disk) : NamesIn(disk)[m] \in FileInodes
         /\ FileInodes \subseteq InodeIndexes \ {Root}
         /\ RootIn(disk) \in Clusters /\ RootIn(disk) \in Nat \ {0}
         /\ disk[RootIn(disk)].is = "entries"
         /\ disk = [c \in Clusters |-> disk[c]] /\ DOMAIN disk = Clusters
         /\ \A c \in Clusters : ContentOK(disk[c])
         /\ mem.total \in Totals /\ mem.total \in Nat /\ Top \in Nat
         /\ FilePlaces(mem.total) = Top + 1 .. mem.total - 1
         /\ FilePlaces(mem.total) \subseteq Clusters
         /\ RootIn(disk) \notin FilePlaces(mem.total) \ {RootIn(disk)}
<1>1. /\ Formed(disk) /\ MemOK /\ mem.total = disk[0].total /\ DOMAIN promise = Names
      /\ Current(disk, mem.used, mem.index, promise, touched)
      /\ mem.used \in SUBSET (0 .. mem.total - 1)
  BY UnshakenIs
<1>2. /\ mem.total \in Totals /\ mem.total \in Nat
      /\ FilePlaces(mem.total) = Top + 1 .. mem.total - 1
      /\ RootIn(disk) \in Top + 1 .. mem.total - 1
  BY <1>1, FormedIs
<1>3. 0 .. mem.total - 1 \subseteq Clusters /\ Top \in Nat
  BY <1>2, MetadataIs, Sizes
<1>4. FileInodes \subseteq InodeIndexes \ {Root}
  BY Sizes DEF FileInodes, InodeIndexes
<1>5. RootIn(disk) \in Clusters /\ RootIn(disk) \in Nat \ {0} /\ mem.used \in SUBSET Nat
      /\ FilePlaces(mem.total) \subseteq Clusters
  BY <1>1, <1>2, <1>3
<1>6. /\ DOMAIN NamesIn(disk) \subseteq Names
      /\ \A m \in DOMAIN NamesIn(disk) : NamesIn(disk)[m] \in FileInodes
      /\ disk[RootIn(disk)].is = "entries"
  BY <1>1 DEF Formed
<1>7. /\ touched \in SUBSET Names /\ disk = [c \in Clusters |-> disk[c]]
      /\ \A c \in Clusters : ContentOK(disk[c])
  BY DEF IInv, Typed
<1>8. DOMAIN disk = Clusters
  BY <1>7
<1> QED  BY <1>1, <1>2, <1>3, <1>4, <1>5, <1>6, <1>7, <1>8, MemDisk DEF MemOK

LEMMA EntriesOK ==
  ASSUME NEW names, DOMAIN names \in SUBSET Names,
         \A m \in DOMAIN names : names[m] \in FileInodes
  PROVE  /\ ContentOK(Entries(names)) /\ Entries(names).is = "entries"
         /\ Entries(names).inodeOf = names
<1>1. Entries(names).is = "entries" /\ Entries(names).inodeOf = names
  BY DEF Entries
<1> QED  BY <1>1 DEF ContentOK

LEMMA DataOK ==
  ASSUME NEW word \in Words
  PROVE  ContentOK(Data(word))
BY DEF ContentOK, Data

LEMMA MemChanged ==
  ASSUME NEW m, NEW used, NEW index,
         m = [up |-> TRUE, total |-> m.total, root |-> m.root,
              used |-> m.used, index |-> m.index, dirty |-> m.dirty],
         NEW m2, m2 = [m EXCEPT !.index = index, !.used = used, !.dirty = TRUE]
  PROVE  m2 = [up |-> TRUE, total |-> m.total, root |-> m.root,
               used |-> used, index |-> index, dirty |-> TRUE]
<1>1. PICK a, b, x, y, z : m = [up |-> TRUE, total |-> a, root |-> b,
                                used |-> x, index |-> y, dirty |-> z]
  OBVIOUS
<1>2. m.total = a /\ m.root = b
  BY <1>1
<1>3. m2 = [up |-> TRUE, total |-> a, root |-> b,
            used |-> used, index |-> index, dirty |-> TRUE]
  BY <1>1
<1> QED  BY <1>2, <1>3

LEMMA WorkEnds ==
  ASSUME OneBitmapCluster, IInv, ~shaken, mem.up, task \in {"none", "defrag"},
         NEW n \in Names, NEW i \in FileInodes, NEW c, NEW names, NEW index2, NEW used2,
         Reworked(disk, mem.used, mem.index, promise, n, i, c, disk', promise', names,
                  index2, used2),
         disk' = [x \in Clusters |-> disk'[x]],
         \A x \in Clusters : ContentOK(disk'[x]),
         DOMAIN promise' = Names, touched' = touched \cup {n},
         mem' = [up |-> TRUE, total |-> mem.total, root |-> mem.root,
                 used |-> used2, index |-> index2, dirty |-> TRUE],
         left' \in SUBSET left, left' \subseteq DOMAIN names,
         UNCHANGED <<task, todo, failed, shaken>>
  PROVE  IInv'
<1>1. /\ Formed(disk) /\ touched \in SUBSET Names
      /\ Current(disk, mem.used, mem.index, promise, touched)
  BY WorkFrom
<1>2. PICK e, q : e = disk' /\ q = promise'
  OBVIOUS
<1>3. Reworked(disk, mem.used, mem.index, promise, n, i, c, e, q, names, index2, used2)
  BY <1>2
<1>4. /\ Formed(e) /\ e[0] = disk[0] /\ NamesIn(e) = names
      /\ Current(e, used2, index2, q, touched \cup {n})
  BY <1>1, <1>3, Worked
<1>5. /\ touched' \in SUBSET Names /\ touched' # {}
      /\ Formed(disk') /\ disk'[0] = disk[0] /\ NamesIn(disk') = names
      /\ Current(disk', used2, index2, promise', touched')
      /\ left' \subseteq DOMAIN NamesIn(disk')
  BY <1>1, <1>2, <1>4
<1> QED  BY <1>5, ChangeKeeps

LEMMA CreateFileKeeps ==
  ASSUME OneBitmapCluster, IInv, Working, NEW n \in Names, NEW word \in Words,
         CreateFile(n, word)
  PROVE  IInv'
<1>1. mem.up /\ ~shaken /\ task = "none"
  BY DEF Working
<1> DEFINE r == RootIn(disk)
           old == NamesIn(disk)
           i == Min(FreeInodes)
           c == IF FreeClusters = {} THEN 0 ELSE FirstFree(mem.total, mem.used)
           names == [m \in DOMAIN old \cup {n} |-> IF m = n THEN i ELSE old[m]]
           what == IF c = 0 THEN Empty ELSE word
           index2 == [mem.index EXCEPT ![i] = c]
           used2 == (mem.used \ ({mem.index[i]} \ {0})) \cup ({c} \ {0, Unused})
<1>2. /\ Formed(disk) /\ mem.total = disk[0].total
      /\ Current(disk, mem.used, mem.index, promise, touched)
      /\ DOMAIN promise = Names /\ touched \in SUBSET Names
      /\ RootCluster(mem) = r /\ EntriesOf(mem) = old
      /\ mem = [up |-> TRUE, total |-> mem.total, root |-> mem.root,
                used |-> mem.used, index |-> mem.index, dirty |-> mem.dirty]
      /\ mem.index \in [InodeIndexes -> InodeValues]
      /\ mem.used \in SUBSET Nat
      /\ DOMAIN old \subseteq Names /\ \A m \in DOMAIN old : old[m] \in FileInodes
      /\ r \in Clusters /\ \A x \in Clusters : ContentOK(disk[x])
  BY <1>1, WorkFrom
<1>3. /\ n \notin DOMAIN old /\ FreeInodes # {}
      /\ mem' = [mem EXCEPT !.index[i] = c, !.used = @ \cup ({c} \ {0}), !.dirty = TRUE]
      /\ disk' = [d \in Clusters |-> IF d = r THEN Entries(names)
                                     ELSE IF d = c /\ c # 0 THEN Data(word) ELSE disk[d]]
      /\ promise' = [promise EXCEPT ![n] = what] /\ touched' = touched \cup {n}
      /\ UNCHANGED <<task, left, todo, failed, shaken>>
  BY <1>2 DEF CreateFile, Promise
<1>4. i \in FileInodes /\ mem.index[i] = Unused
  <2> DEFINE S == FreeInodes
  <2>1. S \in SUBSET Nat /\ S # {}
    BY <1>3, Sizes DEF FreeInodes, FileInodes
  <2> HIDE DEF S
  <2>2. \E x \in S : \A y \in S : x <= y
    BY <2>1, LeastNatural
  <2>3. Min(S) \in S
    BY <2>2 DEF Min
  <2> QED  BY <2>3 DEF S, FreeInodes
<1>5. c = 0 \/ (c \in FilePlaces(mem.total) /\ c \notin mem.used /\ c # r /\ c \in Nat \ {0}
                /\ c \in Clusters)
  BY <1>1, NewCluster
<1> HIDE DEF i, c, old, r
<1>6. used2 = mem.used \cup ({c} \ {0})
  BY <1>2, <1>4, <1>5 DEF Unused
<1>7. /\ DOMAIN names = DOMAIN old \cup {n} /\ names[n] = i
      /\ \A m \in DOMAIN old : m # n => names[m] = old[m]
  OBVIOUS
<1> HIDE DEF names, index2, used2, what
<1>8. mem' = [up |-> TRUE, total |-> mem.total, root |-> mem.root,
              used |-> used2, index |-> index2, dirty |-> TRUE]
  <2>1. mem' = [mem EXCEPT !.index = index2, !.used = used2, !.dirty = TRUE]
    BY <1>3, <1>6 DEF index2
  <2>2. mem = [up |-> TRUE, total |-> mem.total, root |-> mem.root,
               used |-> mem.used, index |-> mem.index, dirty |-> mem.dirty]
    BY <1>2
  <2> QED  BY <2>1, <2>2, MemChanged
<1>9. DOMAIN names \in SUBSET Names /\ \A m \in DOMAIN names : names[m] \in FileInodes
  BY <1>2, <1>4, <1>7
<1>10. \A x \in Clusters : disk'[x] = IF x = r THEN Entries(names)
                                      ELSE IF x = c /\ c # 0 THEN Data(word) ELSE disk[x]
  BY <1>3
<1>11. disk' = [x \in Clusters |-> disk'[x]]
  BY <1>3
<1>12. \A x \in Clusters : ContentOK(disk'[x])
  BY <1>2, <1>9, <1>10, EntriesOK, DataOK
<1>13. disk'[r].is = "entries" /\ disk'[r].inodeOf = names
  <2>1. disk'[r] = Entries(names)
    BY <1>2, <1>10
  <2> QED  BY <1>9, <2>1, EntriesOK
<1>14. \A x \in Clusters : x # r /\ (x # c \/ c = 0) => disk'[x] = disk[x]
  BY <1>10
<1>15. /\ DOMAIN promise' = Names /\ \A m \in Names \ {n} : promise'[m] = promise[m]
       /\ promise'[n] = what /\ names[n] = i /\ Keeps(disk', c, promise'[n])
  <2>1. promise'[n] = what /\ DOMAIN promise' = Names
        /\ \A m \in Names \ {n} : promise'[m] = promise[m]
    BY <1>2, <1>3
  <2>2. disk'[0] = disk[0]
    BY <1>1, <1>14, ClusterZero, WorkFrom DEF r
  <2>3. c # 0 => disk'[c] = Data(what) /\ c \in FilePlaces(disk'[0].total)
    BY <1>2, <1>5, <1>10, <2>2 DEF what
  <2>4. Keeps(disk', c, what)
    BY <2>3 DEF Keeps, what
  <2> QED  BY <1>7, <2>1, <2>4
<1>16. /\ \A m \in Names \ {n} : /\ m \in DOMAIN names <=> m \in DOMAIN old
                                 /\ m \in DOMAIN names => names[m] = old[m]
       /\ n \in DOMAIN names
  BY <1>7
<1>17. left' \in SUBSET left /\ left' \subseteq DOMAIN names
  BY <1>1, <1>3 DEF IInv, Typed
<1>18. /\ c \in {Unused, 0} \/ (c \in FilePlaces(mem.total)
                                /\ (c \notin mem.used \/ c = mem.index[i]))
       /\ index2 = [j \in InodeIndexes |-> index2[j]] /\ index2[i] = c
       /\ \A j \in InodeIndexes \ {i} : index2[j] = mem.index[j]
       /\ used2 = (mem.used \ ({mem.index[i]} \ {0})) \cup ({c} \ {0, Unused})
  <2>1. i \in InodeIndexes
    BY <1>1, <1>4, WorkFrom
  <2> QED  BY <1>2, <1>5, <2>1 DEF index2, used2
<1>19. touched' = touched \cup {n} /\ UNCHANGED <<task, todo, failed, shaken>>
  BY <1>3
<1>20. n \notin DOMAIN old /\ mem.index[i] = Unused
  BY <1>3, <1>4
<1>21. Reworked(disk, mem.used, mem.index, promise, n, i, c, disk', promise', names,
                index2, used2)
  BY <1>2, <1>9, <1>13, <1>14, <1>15, <1>16, <1>18, <1>20 DEF Reworked, old, r
<1> QED  BY <1>1, <1>4, <1>8, <1>11, <1>12, <1>15, <1>17, <1>19, <1>21, WorkEnds

LEMMA WriteFileKeeps ==
  ASSUME OneBitmapCluster, IInv, Working, NEW n \in Names, NEW word \in Words,
         WriteFile(n, word)
  PROVE  IInv'
<1>1. mem.up /\ ~shaken /\ task = "none"
  BY DEF Working
<1> DEFINE r == RootIn(disk)
           names == NamesIn(disk)
           i == names[n]
           was == mem.index[i]
           c == IF was # 0 THEN was
                ELSE IF FreeClusters = {} THEN 0
                ELSE FirstFree(mem.total, mem.used)
           index2 == [mem.index EXCEPT ![i] = c]
           used2 == (mem.used \ ({was} \ {0})) \cup ({c} \ {0, Unused})
<1>2. /\ Formed(disk) /\ mem.total = disk[0].total
      /\ Current(disk, mem.used, mem.index, promise, touched)
      /\ DOMAIN promise = Names /\ EntriesOf(mem) = names
      /\ mem = [up |-> TRUE, total |-> mem.total, root |-> mem.root,
                used |-> mem.used, index |-> mem.index, dirty |-> mem.dirty]
      /\ mem.index \in [InodeIndexes -> InodeValues]
      /\ DOMAIN names \subseteq Names /\ \A m \in DOMAIN names : names[m] \in FileInodes
      /\ FileInodes \subseteq InodeIndexes \ {Root}
      /\ r \in Clusters /\ disk[r].is = "entries"
      /\ disk = [x \in Clusters |-> disk[x]] /\ \A x \in Clusters : ContentOK(disk[x])
      /\ FilePlaces(mem.total) \subseteq Clusters
      /\ FilePlaces(mem.total) = Top + 1 .. mem.total - 1
      /\ Top \in Nat /\ mem.total \in Nat
  BY <1>1, WorkFrom
<1>3. /\ n \in DOMAIN names /\ c # 0
      /\ mem' = [mem EXCEPT !.index[i] = c, !.used = @ \cup {c}, !.dirty = TRUE]
      /\ disk' = [disk EXCEPT ![c] = Data(word)]
      /\ promise' = [promise EXCEPT ![n] = word] /\ touched' = touched \cup {n}
      /\ UNCHANGED <<task, left, todo, failed, shaken>>
  BY <1>2 DEF WriteFile, Promise
<1>4. i \in FileInodes /\ i \in InodeIndexes \ {Root}
  BY <1>2, <1>3
\* Its cluster is a new one, or the one it has.
<1>5. /\ c \in FilePlaces(mem.total) /\ c # r
      /\ (c \notin mem.used /\ was = 0) \/ (c = was /\ c \in mem.used)
  <2>1. CASE was = 0
    <3>1. FreeClusters # {} /\ c = FirstFree(mem.total, mem.used)
      BY <1>3, <2>1
    <3> QED  BY <1>1, <2>1, <3>1, NewCluster
  <2>2. CASE was # 0
    <3>1. Keeps(disk, was, promise[n])
      BY <1>2, <1>3 DEF Current
    <3>2. c = was /\ c \in FilePlaces(mem.total)
      BY <1>2, <2>2, <3>1, SMTT(30) DEF Keeps
    <3>3. i \in Holders(mem.index) /\ Root \in Holders(mem.index) /\ mem.index[Root] = r
      <4>1. mem.index[Root] = r /\ r \in FilePlaces(mem.total)
        BY <1>2 DEF Current, Formed
      <4> QED  BY <1>2, <1>4, <3>2, <4>1, Sizes, SMTT(30) DEF Holders
    <3>4. /\ \A j, k \in Holders(mem.index) : mem.index[j] = mem.index[k] => j = k
          /\ \A j \in Holders(mem.index) : mem.index[j] \in mem.used
      BY <1>2 DEF Current, Agreed
    <3>5. was # r /\ was \in mem.used
      BY <1>4, <3>3, <3>4
    <3> QED  BY <3>2, <3>5
  <2> QED  BY <2>1, <2>2
<1> HIDE DEF c
<1>6. used2 = mem.used \cup {c}
  <2>1. c # Unused
    BY <1>2, <1>5 DEF Unused
  <2> QED  BY <1>3, <1>5, <2>1
<1> HIDE DEF index2, used2
<1>7. mem' = [up |-> TRUE, total |-> mem.total, root |-> mem.root,
              used |-> used2, index |-> index2, dirty |-> TRUE]
  <2>1. mem' = [mem EXCEPT !.index = index2, !.used = used2, !.dirty = TRUE]
    BY <1>3, <1>6 DEF index2
  <2>2. mem = [up |-> TRUE, total |-> mem.total, root |-> mem.root,
               used |-> mem.used, index |-> mem.index, dirty |-> mem.dirty]
    BY <1>2
  <2> QED  BY <2>1, <2>2, MemChanged
<1> HIDE DEF i, names, r, was
<1>8. /\ \A x \in Clusters : x # c => disk'[x] = disk[x]
      /\ disk'[c] = Data(word) /\ disk' = [x \in Clusters |-> disk'[x]]
  <2>1. c \in Clusters
    BY <1>2, <1>5
  <2> QED  BY <1>2, <1>3, <2>1
<1>9. \A x \in Clusters : ContentOK(disk'[x])
  BY <1>2, <1>8, DataOK
<1>10. disk'[r].is = "entries" /\ disk'[r].inodeOf = names
  BY <1>2, <1>5, <1>8 DEF names, NamesIn, r
<1>11. /\ DOMAIN promise' = Names /\ \A m \in Names \ {n} : promise'[m] = promise[m]
       /\ promise'[n] = word
  BY <1>2, <1>3
<1>12. Keeps(disk', c, promise'[n])
  <2>1. 0 \in Clusters /\ c # 0 /\ disk'[0] = disk[0]
    BY <1>3, <1>8, ClusterZero
  <2> QED  BY <1>2, <1>5, <1>8, <1>11, <2>1 DEF Keeps
<1>13. /\ c \in FilePlaces(mem.total) /\ (c \notin mem.used \/ c = mem.index[i])
       /\ index2 = [j \in InodeIndexes |-> index2[j]] /\ index2[i] = c
       /\ \A j \in InodeIndexes \ {i} : index2[j] = mem.index[j]
       /\ used2 = (mem.used \ ({mem.index[i]} \ {0})) \cup ({c} \ {0, Unused})
  BY <1>2, <1>4, <1>5 DEF index2, used2, was
<1>14. n \in DOMAIN names /\ names[n] = i
  BY <1>3 DEF i
<1>15. Reworked(disk, mem.used, mem.index, promise, n, i, c, disk', promise', names,
                index2, used2)
  <2>1. /\ disk[0].total = mem.total /\ RootIn(disk) = r /\ NamesIn(disk) = names
        /\ DOMAIN names \in SUBSET Names
    BY <1>2 DEF names, r
  <2>2. Keeps(disk', c, promise'[n]) /\ n \in DOMAIN NamesIn(disk) /\ NamesIn(disk)[n] = i
    BY <1>12, <1>14, <2>1
  <2>3. \A x \in Clusters : x # RootIn(disk) /\ (x # c \/ c = 0) => disk'[x] = disk[x]
    BY <1>3, <1>8
  <2> HIDE DEF index2, used2
  <2> QED  BY <1>10, <1>11, <1>13, <2>1, <2>2, <2>3 DEF Reworked
<1>16. left' \in SUBSET left /\ left' \subseteq DOMAIN names
  BY <1>1, <1>3 DEF IInv, Typed
<1>17. touched' = touched \cup {n} /\ UNCHANGED <<task, todo, failed, shaken>>
  BY <1>3
<1> QED  BY <1>1, <1>4, <1>7, <1>8, <1>9, <1>11, <1>15, <1>16, <1>17, WorkEnds

LEMMA RemoveFileKeeps ==
  ASSUME OneBitmapCluster, IInv, Working, NEW n \in Names, RemoveFile(n)
  PROVE  IInv'
<1>1. mem.up /\ ~shaken /\ task = "none"
  BY DEF Working
<1> DEFINE r == RootIn(disk)
           old == NamesIn(disk)
           i == old[n]
           names == [m \in DOMAIN old \ {n} |-> old[m]]
           index2 == [mem.index EXCEPT ![i] = Unused]
           used2 == (mem.used \ ({mem.index[i]} \ {0})) \cup ({Unused} \ {0, Unused})
<1>2. /\ Formed(disk) /\ mem.total = disk[0].total
      /\ Current(disk, mem.used, mem.index, promise, touched)
      /\ DOMAIN promise = Names /\ RootCluster(mem) = r /\ EntriesOf(mem) = old
      /\ mem = [up |-> TRUE, total |-> mem.total, root |-> mem.root,
                used |-> mem.used, index |-> mem.index, dirty |-> mem.dirty]
      /\ mem.index \in [InodeIndexes -> InodeValues]
      /\ DOMAIN old \subseteq Names /\ \A m \in DOMAIN old : old[m] \in FileInodes
      /\ FileInodes \subseteq InodeIndexes \ {Root}
      /\ r \in Clusters
      /\ disk = [x \in Clusters |-> disk[x]] /\ \A x \in Clusters : ContentOK(disk[x])
  BY <1>1, WorkFrom
<1>3. /\ n \in DOMAIN old
      /\ mem' = [mem EXCEPT !.index[i] = Unused, !.used = @ \ ({mem.index[i]} \ {0}),
                            !.dirty = TRUE]
      /\ disk' = [disk EXCEPT ![r] = Entries(names)]
      /\ promise' = [promise EXCEPT ![n] = None] /\ touched' = touched \cup {n}
      /\ UNCHANGED <<task, left, todo, failed, shaken>>
  BY <1>2 DEF RemoveFile, Promise
<1>4. i \in FileInodes /\ i \in InodeIndexes \ {Root}
  BY <1>2, <1>3
<1>5. used2 = mem.used \ ({mem.index[i]} \ {0})
  OBVIOUS
<1>6. DOMAIN names = DOMAIN old \ {n} /\ \A m \in DOMAIN names : names[m] = old[m]
  OBVIOUS
<1> HIDE DEF index2, used2, names
<1>7. mem' = [up |-> TRUE, total |-> mem.total, root |-> mem.root,
              used |-> used2, index |-> index2, dirty |-> TRUE]
  <2>1. mem' = [mem EXCEPT !.index = index2, !.used = used2, !.dirty = TRUE]
    BY <1>3, <1>5 DEF index2
  <2>2. mem = [up |-> TRUE, total |-> mem.total, root |-> mem.root,
               used |-> mem.used, index |-> mem.index, dirty |-> mem.dirty]
    BY <1>2
  <2> QED  BY <2>1, <2>2, MemChanged
<1> HIDE DEF i, old, r
<1>8. DOMAIN names \in SUBSET Names /\ \A m \in DOMAIN names : names[m] \in FileInodes
  BY <1>2, <1>6
<1>9. /\ \A x \in Clusters : x # r => disk'[x] = disk[x]
      /\ disk'[r] = Entries(names) /\ disk' = [x \in Clusters |-> disk'[x]]
  BY <1>2, <1>3
<1>10. \A x \in Clusters : ContentOK(disk'[x])
  BY <1>2, <1>8, <1>9, EntriesOK
<1>11. disk'[r].is = "entries" /\ disk'[r].inodeOf = names
  BY <1>8, <1>9, EntriesOK
<1>12. /\ DOMAIN promise' = Names /\ \A m \in Names \ {n} : promise'[m] = promise[m]
       /\ promise'[n] = None
  BY <1>2, <1>3
<1>13. /\ \A m \in Names \ {n} : /\ m \in DOMAIN names <=> m \in DOMAIN old
                                 /\ m \in DOMAIN names => names[m] = old[m]
       /\ n \notin DOMAIN names
  BY <1>6
<1>14. /\ index2 = [j \in InodeIndexes |-> index2[j]] /\ index2[i] = Unused
       /\ \A j \in InodeIndexes \ {i} : index2[j] = mem.index[j]
       /\ used2 = (mem.used \ ({mem.index[i]} \ {0})) \cup ({Unused} \ {0, Unused})
  BY <1>2, <1>4 DEF index2, used2
<1>15. n \in DOMAIN old /\ old[n] = i
  BY <1>3 DEF i
<1>16. Reworked(disk, mem.used, mem.index, promise, n, i, Unused, disk', promise', names,
                index2, used2)
  BY <1>8, <1>9, <1>11, <1>12, <1>13, <1>14, <1>15 DEF Reworked, old, r
<1>17. left' \in SUBSET left /\ left' \subseteq DOMAIN names
  BY <1>1, <1>3 DEF IInv, Typed
<1>18. touched' = touched \cup {n} /\ UNCHANGED <<task, todo, failed, shaken>>
  BY <1>3
<1> QED  BY <1>1, <1>4, <1>7, <1>9, <1>10, <1>12, <1>16, <1>17, <1>18, WorkEnds

LEMMA WorkKeeps ==
  ASSUME OneBitmapCluster, IInv, Work
  PROVE  IInv'
<1>1. Working
  BY DEF Work
<1>2. PICK n \in Names : \/ \E word \in Words : CreateFile(n, word) \/ WriteFile(n, word)
                         \/ RemoveFile(n)
  BY DEF Work
<1>3. CASE RemoveFile(n)
  BY <1>1, <1>3, RemoveFileKeeps
<1>4. CASE \E word \in Words : CreateFile(n, word) \/ WriteFile(n, word)
  <2>1. PICK word \in Words : CreateFile(n, word) \/ WriteFile(n, word)
    BY <1>4
  <2>2. CASE CreateFile(n, word)
    BY <1>1, <2>2, CreateFileKeeps
  <2>3. CASE WriteFile(n, word)
    BY <1>1, <2>3, WriteFileKeeps
  <2> QED  BY <2>1, <2>2, <2>3
<1> QED  BY <1>2, <1>3, <1>4

LEMMA RelocateKeeps ==
  ASSUME OneBitmapCluster, IInv, task = "defrag", NEW n \in left, left' = left \ {n},
         Relocate(n), UNCHANGED <<task, todo, failed, promise, shaken>>
  PROVE  IInv'
<1>1. mem.up /\ ~shaken /\ left \in SUBSET Names /\ left \subseteq DOMAIN NamesIn(disk)
  BY DEF IInv, InOrder, Typed
<1> DEFINE r == RootIn(disk)
           names == NamesIn(disk)
           i == names[n]
           was == mem.index[i]
           c == FirstFree(mem.total, mem.used)
           index2 == [mem.index EXCEPT ![i] = c]
           used2 == (mem.used \ ({was} \ {0})) \cup ({c} \ {0, Unused})
<1>2. /\ Formed(disk) /\ mem.total = disk[0].total
      /\ Current(disk, mem.used, mem.index, promise, touched)
      /\ DOMAIN promise = Names /\ EntriesOf(mem) = names
      /\ mem = [up |-> TRUE, total |-> mem.total, root |-> mem.root,
                used |-> mem.used, index |-> mem.index, dirty |-> mem.dirty]
      /\ mem.index \in [InodeIndexes -> InodeValues]
      /\ DOMAIN names \subseteq Names /\ \A m \in DOMAIN names : names[m] \in FileInodes
      /\ FileInodes \subseteq InodeIndexes \ {Root}
      /\ r \in Clusters /\ disk[r].is = "entries"
      /\ disk = [x \in Clusters |-> disk[x]] /\ \A x \in Clusters : ContentOK(disk[x])
      /\ FilePlaces(mem.total) \subseteq Clusters
      /\ FilePlaces(mem.total) = Top + 1 .. mem.total - 1
      /\ Top \in Nat /\ mem.total \in Nat
  BY <1>1, WorkFrom
<1>3. /\ n \in DOMAIN names /\ was # 0 /\ FreeClusters # {}
      /\ mem' = [mem EXCEPT !.index[i] = c, !.used = (@ \cup {c}) \ {was}, !.dirty = TRUE]
      /\ disk' = [disk EXCEPT ![c] = disk[was]]
      /\ touched' = touched \cup {n}
  BY <1>1, <1>2 DEF Relocate
<1>4. i \in FileInodes /\ i \in InodeIndexes \ {Root} /\ n \in Names
  BY <1>1, <1>2, <1>3
\* It moves to a free cluster.
<1>5. /\ c \in FilePlaces(mem.total) /\ c # r /\ c \notin mem.used /\ c # 0 /\ c # Unused
      /\ c \in Clusters
  <2>1. /\ c \in FilePlaces(mem.total) /\ c # r /\ c \notin mem.used /\ c \in Nat \ {0}
        /\ c \in Clusters
    BY <1>1, <1>3, NewCluster
  <2> QED  BY <2>1 DEF Unused
<1>6. was \in FilePlaces(mem.total) /\ disk[was] = Data(promise[n]) /\ was # c
  <2>1. Keeps(disk, was, promise[n])
    BY <1>2, <1>3, <1>4 DEF Current
  <2>2. was \in FilePlaces(mem.total) /\ disk[was] = Data(promise[n])
    BY <1>2, <1>3, <2>1 DEF Keeps
  <2>3. i \in Holders(mem.index)
    BY <1>2, <1>4, <2>2 DEF Holders
  <2>4. mem.used = Metadata(mem.total) \cup {mem.index[j] : j \in Holders(mem.index)}
    BY <1>2 DEF Current, Agreed
  <2>5. was \in mem.used
    BY <2>3, <2>4
  <2> QED  BY <1>5, <2>2, <2>5
<1> HIDE DEF c
<1>7. used2 = (mem.used \cup {c}) \ {was}
  BY <1>3, <1>5, <1>6
<1> HIDE DEF index2, used2
<1>8. mem' = [up |-> TRUE, total |-> mem.total, root |-> mem.root,
              used |-> used2, index |-> index2, dirty |-> TRUE]
  <2>1. mem' = [mem EXCEPT !.index = index2, !.used = used2, !.dirty = TRUE]
    BY <1>3, <1>7 DEF index2
  <2>2. mem = [up |-> TRUE, total |-> mem.total, root |-> mem.root,
               used |-> mem.used, index |-> mem.index, dirty |-> mem.dirty]
    BY <1>2
  <2> QED  BY <2>1, <2>2, MemChanged
<1> HIDE DEF i, names, r, was
<1>9. /\ \A x \in Clusters : x # c => disk'[x] = disk[x]
      /\ disk'[c] = disk[was] /\ disk' = [x \in Clusters |-> disk'[x]]
  BY <1>2, <1>3, <1>5
<1>10. \A x \in Clusters : ContentOK(disk'[x])
  <2>1. ContentOK(disk[was])
    BY <1>2, <1>6
  <2> QED  BY <1>2, <1>9, <2>1
<1>11. disk'[r].is = "entries" /\ disk'[r].inodeOf = names
  BY <1>2, <1>5, <1>9 DEF names, NamesIn, r
<1>12. Keeps(disk', c, promise'[n])
  <2>1. 0 \in Clusters /\ disk'[0] = disk[0]
    BY <1>5, <1>9, ClusterZero
  <2> QED  BY <1>2, <1>5, <1>6, <1>9, <2>1 DEF Keeps
<1>13. /\ c \in FilePlaces(mem.total) /\ c \notin mem.used
       /\ index2 = [j \in InodeIndexes |-> index2[j]] /\ index2[i] = c
       /\ \A j \in InodeIndexes \ {i} : index2[j] = mem.index[j]
       /\ used2 = (mem.used \ ({mem.index[i]} \ {0})) \cup ({c} \ {0, Unused})
  BY <1>2, <1>4, <1>5 DEF index2, used2, was
<1>14. Reworked(disk, mem.used, mem.index, promise, n, i, c, disk', promise', names,
                index2, used2)
  <2>1. /\ disk[0].total = mem.total /\ RootIn(disk) = r /\ NamesIn(disk) = names
        /\ DOMAIN names \in SUBSET Names
    BY <1>2 DEF names, r
  <2>2. Keeps(disk', c, promise'[n]) /\ n \in DOMAIN NamesIn(disk) /\ NamesIn(disk)[n] = i
    BY <1>3, <1>12, <2>1 DEF i
  <2>3. \A x \in Clusters : x # RootIn(disk) /\ (x # c \/ c = 0) => disk'[x] = disk[x]
    BY <1>5, <1>9
  <2> QED  BY <1>11, <1>13, <2>1, <2>2, <2>3 DEF Reworked
<1>15. left' \in SUBSET left /\ left' \subseteq DOMAIN names /\ DOMAIN promise' = Names
  BY <1>1, <1>2 DEF names
<1> QED  BY <1>1, <1>3, <1>4, <1>8, <1>9, <1>10, <1>14, <1>15, WorkEnds

LEMMA OnlyLeftChanges ==
  ASSUME IInv,
         disk' = disk, mem' = mem, task' = task, todo' = todo, failed' = failed,
         promise' = promise, touched' = touched, shaken' = shaken, left' \in SUBSET left
  PROVE  IInv'
<1>1. Typed' /\ InOrder'
  BY DEF IInv, Typed, MemOK, InOrder
<1>2. Formatting' /\ Promised' /\ Shaken'
  BY DEF IInv, Formatting, Promised, Shaken
<1>3. Unshaken'
  BY DEF IInv, Unshaken, Whole
<1> QED  BY <1>1, <1>2, <1>3 DEF IInv

LEMMA VisitKeeps ==
  ASSUME OneBitmapCluster, IInv, NEW n \in left, Visit(n)
  PROVE  IInv'
<1>1. task = "defrag" /\ left' = left \ {n} /\ UNCHANGED <<task, todo, failed, promise, shaken>>
  BY DEF Visit
<1>2. CASE Relocate(n)
  BY <1>1, <1>2, RelocateKeeps
<1>3. CASE UNCHANGED <<disk, mem, touched>>
  <2>1. /\ disk' = disk /\ mem' = mem /\ task' = task /\ todo' = todo /\ failed' = failed
        /\ promise' = promise /\ touched' = touched /\ shaken' = shaken
        /\ left' \in SUBSET left
    BY <1>1, <1>3
  <2> QED  BY <2>1, OnlyLeftChanges
<1> QED  BY <1>2, <1>3 DEF Visit

LEMMA DefragKeeps ==
  ASSUME OneBitmapCluster, IInv, Defrag
  PROVE  IInv'
<1>1. /\ disk' = disk /\ mem' = mem /\ todo' = todo /\ failed' = failed /\ todo = <<>>
      /\ promise' = promise /\ touched' = touched /\ shaken' = shaken
      /\ task = "none" /\ task' = "defrag" /\ mem.up
  BY DEF Defrag, IInv, Typed
<1>2. left' # {} => ~shaken /\ left' \subseteq DOMAIN NamesIn(disk)
  <2>1. ASSUME left' # {} PROVE ~shaken /\ left' \subseteq DOMAIN NamesIn(disk)
    <3>1. ~shaken /\ left' = DOMAIN EntriesOf(mem)
      BY <2>1 DEF Defrag, Working
    <3> QED  BY <1>1, <3>1, MemDisk
  <2> QED  BY <2>1
<1>3. left' \in SUBSET Names
  <2>1. CASE left' = {}
    BY <2>1
  <2>2. CASE left' # {}
    BY <1>1, <1>2, <2>2, WorkFrom
  <2> QED  BY <2>1, <2>2
<1>4. Typed' /\ InOrder' /\ Formatting' /\ Promised' /\ Shaken'
  BY <1>1, <1>2, <1>3 DEF IInv, Typed, MemOK, InOrder, Formatting, Promised, Shaken
<1>5. Unshaken'
  BY <1>1 DEF IInv, Unshaken, Whole
<1> QED  BY <1>4, <1>5 DEF IInv

LEMMA StutterKeeps ==
  ASSUME IInv, UNCHANGED vars
  PROVE  IInv'
BY OnlyLeftChanges DEF vars

LEMMA StepKeeps ==
  ASSUME OneBitmapCluster, IInv, [Next]_vars
  PROVE  IInv'
<1>1. CASE Format
  BY <1>1, FormatKeeps
<1>2. CASE Mount
  BY <1>2, MountKeeps
<1>3. CASE MountWithoutBitmap
  BY <1>3, MountWithoutBitmapKeeps
<1>4. CASE MountWithoutIndex
  BY <1>4, MountWithoutIndexKeeps
<1>5. CASE Work
  BY <1>5, WorkKeeps
<1>6. CASE Defrag
  BY <1>6, DefragKeeps
<1>7. CASE \E n \in left : Visit(n)
  BY <1>7, VisitKeeps
<1>8. CASE Sync
  BY <1>8, SyncKeeps
<1>9. CASE Unmount
  BY <1>9, UnmountKeeps
<1>10. CASE Write
  BY <1>10, WriteKeeps
<1>11. CASE WriteFails
  BY <1>11, WriteFailsKeeps
<1>12. CASE Crash
  BY <1>12, CrashKeeps
<1>13. CASE UNCHANGED vars
  BY <1>13, StutterKeeps
<1> QED  BY <1>1, <1>2, <1>3, <1>4, <1>5, <1>6, <1>7, <1>8, <1>9, <1>10, <1>11, <1>12,
            <1>13 DEF Next

------------------------------------------------------------------------------
(***************************************************************************)
(* What the invariant says of a mounted disk.                              *)
(***************************************************************************)
LEMMA ShownIs ==
  ASSUME OneBitmapCluster, Formed(disk), mem.root = Root, mem.index[Root] = RootIn(disk),
         NEW n, NEW what,
         IF n \in DOMAIN NamesIn(disk)
         THEN Keeps(disk, mem.index[NamesIn(disk)[n]], what)
         ELSE what = None
  PROVE  Shown(mem, n) = what
<1>1. RootIn(disk) \in Top + 1 .. disk[0].total - 1 /\ Top \in Nat
      /\ FilePlaces(disk[0].total) = Top + 1 .. disk[0].total - 1
      /\ disk[0].total \in Nat
  BY FormedIs, Sizes
<1>2. RootCluster(mem) = RootIn(disk)
  BY <1>1 DEF RootCluster
<1>3. HasRoot(mem) /\ EntriesOf(mem) = NamesIn(disk)
  BY <1>2 DEF HasRoot, EntriesOf, NamesIn, Formed
<1>4. CASE n \notin DOMAIN NamesIn(disk)
  BY <1>3, <1>4 DEF Shown
<1>5. CASE n \in DOMAIN NamesIn(disk)
  <2> DEFINE c == mem.index[NamesIn(disk)[n]]
  <2>1. Shown(mem, n) = IF c < 0 THEN Lost ELSE IF c = 0 THEN Empty
                        ELSE IF disk[c].is = "data" THEN disk[c].word ELSE Lost
    BY <1>3, <1>5 DEF Shown
  <2>2. Keeps(disk, c, what)
    BY <1>5
  <2> HIDE DEF c
  <2>3. CASE c = 0 /\ what = Empty
    BY <2>1, <2>3
  <2>4. CASE c \in FilePlaces(disk[0].total) /\ disk[c] = Data(what)
    <3>1. disk[c].is = "data" /\ disk[c].word = what
      BY <2>4 DEF Data
    <3>2. ~(c < 0) /\ c # 0
      BY <1>1, <2>4
    <3> QED  BY <2>1, <3>1, <3>2
  <2> QED  BY <2>2, <2>3, <2>4 DEF Keeps
<1> QED  BY <1>4, <1>5

LEMMA Typing ==
  ASSUME OneBitmapCluster, IInv
  PROVE  TypeOK
<1>1. /\ DOMAIN disk = Clusters
      /\ task \in {"none", "format", "defrag", "sync", "unmount"}
      /\ todo # <<>> <=> task \in {"format", "sync", "unmount"}
      /\ left \subseteq Names /\ (left # {} => task = "defrag")
      /\ failed \in BOOLEAN /\ shaken \in BOOLEAN
      /\ DOMAIN promise \subseteq Names /\ touched \subseteq Names
  <2>1. disk = [c \in Clusters |-> disk[c]]
    BY DEF IInv, Typed
  <2>2. DOMAIN disk = Clusters
    BY <2>1
  <2>3. /\ task \in {"none", "format", "defrag", "sync", "unmount"}
        /\ todo # <<>> <=> task \in {"format", "sync", "unmount"}
        /\ left \in SUBSET Names /\ (left # {} => task = "defrag")
        /\ DOMAIN promise \in SUBSET Names /\ touched \in SUBSET Names
    BY DEF IInv, Typed
  <2>4. failed \in BOOLEAN /\ shaken \in BOOLEAN
    BY DEF IInv, Typed
  <2> QED  BY <2>2, <2>3, <2>4
<1>2. ASSUME NEW c \in Clusters
      PROVE  CASE disk[c].is = "bits" -> disk[c].used \subseteq Clusters
               [] disk[c].is = "inodes" ->
                    \A i \in DOMAIN disk[c].table : disk[c].table[i] \in InodeValues
               [] disk[c].is = "entries" ->
                    /\ DOMAIN disk[c].inodeOf \subseteq Names
                    /\ \A n \in DOMAIN disk[c].inodeOf : disk[c].inodeOf[n] \in FileInodes
               [] disk[c].is = "data" -> disk[c].word \in Words
               [] disk[c].is = "super" -> disk[c].total \in Totals
               [] OTHER -> disk[c] = Zero
  <2>1. ContentOK(disk[c])
    BY DEF IInv, Typed
  <2>2. Zero.is = "zero"
    BY DEF Zero
  <2> QED  BY <2>1, <2>2 DEF ContentOK
<1>3. mem.up => /\ mem.total \in Totals
                /\ mem.used \subseteq Clusters
                /\ mem.index \in [0 .. InodeCount - 1 -> InodeValues]
                /\ mem.dirty \in BOOLEAN
                /\ shaken \/ \A i \in DOMAIN mem.index : mem.index[i] < mem.total
  <2>1. ASSUME mem.up
        PROVE  /\ mem.total \in Totals
               /\ mem.used \subseteq Clusters
               /\ mem.index \in [0 .. InodeCount - 1 -> InodeValues]
    BY <2>1 DEF IInv, Typed, Unmounted, MemOK, InodeIndexes
  <2>2. ASSUME mem.up PROVE mem.dirty \in BOOLEAN
    BY <2>2 DEF IInv, Typed, Unmounted, MemOK
  <2>3. ASSUME mem.up, ~shaken, NEW i \in DOMAIN mem.index
        PROVE  mem.index[i] < mem.total
    <3>1. /\ mem.total = disk[0].total /\ mem.total \in Nat
          /\ mem.index \in [InodeIndexes -> {Unused} \cup 0 .. disk[0].total - 1]
      BY <2>3, WorkFrom DEF Current
    <3>2. i \in InodeIndexes
      BY <2>3, <3>1
    <3>3. mem.index[i] \in {Unused} \cup 0 .. mem.total - 1
      BY <3>1, <3>2
    <3> QED  BY <3>1, <3>3 DEF Unused
  <2> QED  BY <2>1, <2>2, <2>3
<1>4. \A w \in ToSet(todo) : w.to \in Clusters
  BY DEF IInv, Typed, WriteOK, ToSet
<1> QED  BY <1>1, <1>2, <1>3, <1>4 DEF TypeOK

LEMMA Keeping ==
  ASSUME OneBitmapCluster, IInv
  PROVE  PromisesKept
<1>1. ASSUME mem.up, NEW n \in DOMAIN promise PROVE Shown(mem, n) = promise[n]
  <2>1. Formed(disk) /\ mem.root = Root
    BY <1>1 DEF IInv, Promised
  <2>2. Root \in InodeIndexes /\ n \in Names
    BY <1>1, Sizes DEF IInv, Typed
  <2>3. CASE ~shaken
    <3>1. Current(disk, mem.used, mem.index, promise, touched)
      BY <1>1, <2>3, WorkFrom
    <3> QED  BY <2>1, <2>2, <3>1, ShownIs DEF Current
  <2>4. CASE shaken
    <3>1. Recoverable(disk, promise) /\ mem.index = TableOf(disk)
      BY <1>1, <2>4 DEF IInv, Promised
    <3>2. mem.index[Root] = RootIn(disk)
      BY <3>1 DEF RootIn
    <3> QED  BY <1>1, <2>1, <3>1, <3>2, ShownIs DEF Recoverable
  <2> QED  BY <2>3, <2>4
<1> QED  BY <1>1 DEF PromisesKept

LEMMA Agreeing ==
  ASSUME OneBitmapCluster, IInv
  PROVE  MetadataAgree
<1>1. ASSUME mem.up, ~shaken PROVE Agreed(mem.total, mem.used, mem.index)
  BY <1>1, WorkFrom DEF Current
<1> QED  BY <1>1 DEF MetadataAgree, Agreed, Holders, InodeIndexes

------------------------------------------------------------------------------
(***************************************************************************)
(* The results.                                                            *)
(***************************************************************************)
\* Between any two steps of any life of a disk whose bitmap fits one cluster,
\* the writes that are left will bring the disk to what memory was when they
\* were drawn up; and while no failure parts the two, bitmap, index and
\* directory in memory agree with each other and with what the clusters hold.
THEOREM VolumeInvariant == ASSUME OneBitmapCluster PROVE Spec => []IInv
<1>1. Init => IInv
  BY Initially
<1>2. IInv /\ [Next]_vars => IInv'
  BY StepKeeps
<1> QED  BY <1>1, <1>2, PTL DEF Spec

\* Clusters hold what the program writes there; what is mounted, and every
\* write that is left, lies on the disk.
THEOREM VolumeTypes == ASSUME OneBitmapCluster PROVE Spec => []TypeOK
<1>1. IInv => TypeOK
  BY Typing
<1> QED  BY <1>1, VolumeInvariant, PTL

\* A mounted disk shows under each name what the last call on it made of it;
\* after a crash or a failed flush this holds of all names but those that were
\* changed since memory and disk last agreed.
THEOREM PromisesAlwaysKept == ASSUME OneBitmapCluster PROVE Spec => []PromisesKept
<1>1. IInv => PromisesKept
  BY Keeping
<1> QED  BY <1>1, VolumeInvariant, PTL

\* The loaded bitmap and index agree on a disk that no failure touched: no
\* cluster has two owners, none leaks, and none of the metadata is given out.
THEOREM MetadataAlwaysAgree == ASSUME OneBitmapCluster PROVE Spec => []MetadataAgree
<1>1. IInv => MetadataAgree
  BY Agreeing
<1> QED  BY <1>1, VolumeInvariant, PTL
==============================================================================
