------------------------------ MODULE Volume ------------------------------
(***************************************************************************)
(* The life of a disk: it is formatted, mounted, worked on, unmounted and  *)
(* mounted again (storage/format.c, storage/superblock.c, cli context.c).  *)
(* The bitmap and the inode index are read when a disk is mounted, change  *)
(* in memory, and reach the disk when it is unmounted or defragmented; the *)
(* contents of files and directories are written at once.  Between any two *)
(* of the writes that bring the disk up to date the program may be killed, *)
(* and each of them may fail.                                              *)
(*                                                                         *)
(* Clusters have typed contents.  A file has one cluster at most, and lies *)
(* in the root directory; what happens inside larger files and directories *)
(* is the matter of Alloc and Directories.                                 *)
(***************************************************************************)
EXTENDS Integers, FiniteSets, Sequences, SequencesExt, FiniteSetsExt

CONSTANTS
  Totals,            \* the sizes, in clusters, that disks are formatted with
  BitsPerCluster,    \* bits of the bitmap in a cluster
  InodeCount,
  InodesPerCluster,  \* inodes of the table in a cluster
  Names,             \* names of files
  Words,             \* contents of files
  Faults             \* a subset of {"crash", "read", "write"}

ASSUME LayoutAssumption ==
  /\ Totals \subseteq Nat \ {0}
  /\ \E most \in Totals : \A total \in Totals : total <= most
  /\ BitsPerCluster \in Nat \ {0}
  /\ InodesPerCluster \in Nat \ {0}
  /\ InodeCount \in Nat /\ InodeCount > 2
  /\ Faults \subseteq {"crash", "read", "write"}

VARIABLES
  disk,     \* the clusters of the host file
  mem,      \* what the mounted disk's contexts hold
  task,     \* what goes on: "none", "format", "defrag", "sync" or "unmount"
  left,     \* the names that a defragmentation has yet to visit
  todo,     \* the writes that are left of the task
  failed,   \* one of its writes has failed
  promise,  \* what the last call that completed made of each name
  touched,  \* names changed since memory and disk were last the same
  shaken    \* memory and disk parted at a crash or a failure

vars == <<disk, mem, task, left, todo, failed, promise, touched, shaken>>

----------------------------------------------------------------------------
\* Layout

BitmapStart == 1
TableStart == 2

Root == 2
FileInodes == 3 .. InodeCount - 1

TableClusters == (InodeCount + InodesPerCluster - 1) \div InodesPerCluster
BitmapClusters(total) == (total + BitsPerCluster - 1) \div BitsPerCluster

Metadata(total) ==
  {0} \cup BitmapStart .. BitmapStart + BitmapClusters(total) - 1
      \cup TableStart .. TableStart + TableClusters - 1

Segment(k) == k * BitsPerCluster .. (k + 1) * BitsPerCluster - 1
Chunk(k) == (k * InodesPerCluster .. (k + 1) * InodesPerCluster - 1)
              \cap (0 .. InodeCount - 1)

MaxTotal == Max(Totals)
Clusters == 0 .. MaxTotal - 1

\* An inode is unused, or holds the cluster of its content, 0 being none;
\* or its bytes are those of something else.
Unused == -1
Broken == -2

----------------------------------------------------------------------------
\* What a cluster holds

Zero == [is |-> "zero"]
Super(total, root) == [is |-> "super", total |-> total, root |-> root]
Bits(used) == [is |-> "bits", used |-> used]
Inodes(table) == [is |-> "inodes", table |-> table]
Entries(inodeOf) == [is |-> "entries", inodeOf |-> inodeOf]
Data(word) == [is |-> "data", word |-> word]

\* What the bytes of a cluster say where the bitmap, or the table, is looked
\* for.  The bytes of anything else leave the bits open.
BitReadings(content, k) ==
  CASE content.is = "bits" -> {content.used \cap Segment(k)}
    [] content.is = "zero" -> {{}}
    [] OTHER -> SUBSET Segment(k)

InodeReading(content, k) ==
  CASE content.is = "inodes" /\ DOMAIN content.table = Chunk(k) ->
         content.table
    [] content.is = "zero" \/ content = Bits({}) -> [i \in Chunk(k) |-> Unused]
    [] OTHER -> [i \in Chunk(k) |-> Broken]

\* The bitmap and the table as sequences of writes, up to the first cluster
\* that does not lie on the disk.
OnDisk(first, count, total) ==
  IF first + count <= total THEN count
  ELSE IF first < total THEN total - first
  ELSE 0

\* Mutant of BitmapWrites: each cluster gets the bits of the next one.
NextSegment(total, used) ==
  [k \in 1 .. OnDisk(BitmapStart, BitmapClusters(total), total) |->
     [of |-> "bitmap", to |-> BitmapStart + k - 1,
      put |-> Bits(used \cap Segment(k))]]

BitmapWrites(total, used) ==
  [k \in 1 .. OnDisk(BitmapStart, BitmapClusters(total), total) |->
     [of |-> "bitmap", to |-> BitmapStart + k - 1,
      put |-> Bits(used \cap Segment(k - 1))]]

TableWrites(total, index) ==
  [k \in 1 .. OnDisk(TableStart, TableClusters, total) |->
     [of |-> "index", to |-> TableStart + k - 1,
      put |-> Inodes([i \in Chunk(k - 1) |-> index[i]])]]

IndexWrites(m) == IF m.dirty THEN TableWrites(m.total, m.index) ELSE <<>>

----------------------------------------------------------------------------
\* What a mounted disk shows

Unmounted == [up |-> FALSE]

RootCluster(m) == IF m.root = Root /\ m.index[Root] > 0 THEN m.index[Root] ELSE 0

HasRoot(m) == disk[RootCluster(m)].is = "entries"
EntriesOf(m) == disk[RootCluster(m)].inodeOf

None == "none"
Empty == "empty"
Lost == "lost"

Shown(m, n) ==
  IF ~HasRoot(m) THEN Lost
  ELSE IF n \notin DOMAIN EntriesOf(m) THEN None
  ELSE LET c == m.index[EntriesOf(m)[n]]
       IN  IF c < 0 THEN Lost
           ELSE IF c = 0 THEN Empty
           ELSE IF disk[c].is = "data" THEN disk[c].word ELSE Lost

----------------------------------------------------------------------------
\* Starting and ending the writes of a task

Kept == [n \in DOMAIN promise \ touched |-> promise[n]]

\* Memory and disk part: what was touched may be in any state, and from now
\* on a change may hit a cluster that the bitmap wrongly calls free.
Part ==
  /\ promise' = Kept
  /\ touched' = {}
  /\ shaken' = (shaken \/ touched # {})

Agree ==
  /\ touched' = {}
  /\ UNCHANGED <<promise, shaken>>

Rest == UNCHANGED <<promise, touched, shaken>>

Finish(ok) ==
  CASE task = "format" ->
         IF ok
         THEN /\ promise' = [n \in Names |-> None]
              /\ touched' = {}
              /\ shaken' = FALSE
         ELSE Rest
    [] task = "sync" -> IF ok THEN Agree ELSE Rest
    [] task = "unmount" -> IF ok THEN Agree ELSE Part

\* The rest of the task is writes; with none left it is over.
Continue(writes, ok) ==
  /\ todo' = writes
  /\ failed' = (~ok /\ writes # <<>>)
  /\ task' = IF writes = <<>> THEN "none" ELSE task
  /\ left' = {}
  /\ IF writes = <<>> THEN Finish(ok) ELSE Rest

Start(what, writes) ==
  /\ task' = what
  /\ todo' = writes
  /\ failed' = FALSE
  /\ left' = {}

\* The next cluster is written.  The index is clean when its last cluster is.
Write ==
  /\ todo # <<>>
  /\ LET w == Head(todo)
         last == w.of = "index" /\ \A v \in ToSet(Tail(todo)) : v.of # "index"
     IN  /\ disk' = [disk EXCEPT ![w.to] = w.put]
         /\ mem' = IF mem.up /\ last THEN [mem EXCEPT !.dirty = FALSE] ELSE mem
  /\ Continue(Tail(todo), ~failed)

\* What is left when the first write fails: a format gives up; a flush of the
\* index or of the bitmap gives up too, but the other one goes on.
Others ==
  LET other == {k \in DOMAIN todo : todo[k].of # todo[1].of}
  IN  IF task = "format" \/ other = {} THEN <<>>
      ELSE SubSeq(todo, Min(other), Len(todo))

WriteFails ==
  /\ "write" \in Faults
  /\ todo # <<>>
  /\ Continue(Others, FALSE)
  /\ UNCHANGED <<disk, mem>>

----------------------------------------------------------------------------
\* fs_format_initialize_disk, of a disk that is not mounted

\* Mutant of FreeBits: the scan looks at one bit more than there are clusters.
OneBitMore(total, used) == (0 .. total) \ used

FreeBits(total, used) == (0 .. total - 1) \ used
FirstFree(total, used) == Min(FreeBits(total, used))

Fits(total) == Metadata(total) \subseteq 0 .. total - 2

FormatWrites(total) ==
  LET first == <<[of |-> "super", to |-> 0, put |-> Super(total, 0)]>>
      used == Metadata(total)
      c == FirstFree(total, used)
      index == [i \in 0 .. InodeCount - 1 |->
                  IF i = Root THEN c ELSE IF i < Root THEN 0 ELSE Unused]
      rest == <<[of |-> "root", to |-> c, put |-> Zero],
                [of |-> "root", to |-> c, put |-> Entries(<<>>)],
                [of |-> "super", to |-> 0, put |-> Super(total, Root)]>>
              \o TableWrites(total, index)
              \o BitmapWrites(total, used \cup {c})
  IN  IF Fits(total) THEN first \o rest ELSE first

\* A disk too small for the metadata and the root is found out after its
\* superblock is written.  Nothing is promised until a format succeeds.
Format ==
  /\ task = "none" /\ ~mem.up
  /\ \E total \in Totals :
       /\ task' = "format"
       /\ todo' = FormatWrites(total)
       /\ failed' = ~Fits(total)
  /\ promise' = <<>>
  /\ touched' = {}
  /\ shaken' = TRUE
  /\ UNCHANGED <<disk, mem, left>>

----------------------------------------------------------------------------
\* cli_mount_disk

\* The bits of the first count clusters of the bitmap, the others being zero.
BitmapReadings(count) ==
  {used \in SUBSET (Clusters \cap (0 .. count * BitsPerCluster - 1)) :
     \A k \in 0 .. count - 1 :
        used \cap Segment(k) \in
          {b \cap Clusters : b \in BitReadings(disk[BitmapStart + k], k)}}

TableReading ==
  [i \in 0 .. InodeCount - 1 |->
     LET k == i \div InodesPerCluster
     IN  InodeReading(disk[TableStart + k], k)[i]]

BitmapFits(total) == BitmapStart + BitmapClusters(total) <= total
TableFits(total) == TableStart + TableClusters <= total

Mountable == task = "none" /\ ~mem.up /\ disk[0].is = "super"

Mount ==
  /\ Mountable
  /\ LET total == disk[0].total
     IN  /\ BitmapFits(total) /\ TableFits(total)
         /\ \E used \in BitmapReadings(BitmapClusters(total)) :
              mem' = [up |-> TRUE, total |-> total, root |-> disk[0].root,
                      used |-> used, index |-> TableReading, dirty |-> FALSE]
  /\ UNCHANGED <<disk, task, left, todo, failed, promise, touched, shaken>>

\* The bitmap cannot be read, from its cluster `count` on.  The cleanup, which
\* is cli_unmount_disk, writes what is in memory: zeros from there on.
MountWithoutBitmap ==
  /\ Mountable
  /\ LET total == disk[0].total
     IN  \E count \in 0 .. BitmapClusters(total) - 1 :
           /\ "read" \in Faults \/ BitmapStart + count >= total
           /\ BitmapStart + count <= total
           /\ \E used \in BitmapReadings(count) :
                LET writes == BitmapWrites(total, used)
                IN  Start(IF writes = <<>> THEN "none" ELSE "unmount", writes)
  /\ shaken' = TRUE
  /\ UNCHANGED <<disk, mem, promise, touched>>

\* The table cannot be read.  The bitmap goes back as it came.
MountWithoutIndex ==
  /\ Mountable
  /\ LET total == disk[0].total
     IN  /\ BitmapFits(total)
         /\ "read" \in Faults \/ ~TableFits(total)
         /\ \E used \in BitmapReadings(BitmapClusters(total)) :
              Start("unmount", BitmapWrites(total, used))
  /\ UNCHANGED <<disk, mem, promise, touched, shaken>>

----------------------------------------------------------------------------
\* Work on the mounted disk: a file is created and written, written again, or
\* removed.  What the calls do with a disk that is not what memory says is
\* left open: nothing is promised of it.

Working == task = "none" /\ mem.up /\ ~shaken /\ HasRoot(mem)

Promise(n, what) ==
  /\ promise' = [promise EXCEPT ![n] = what]
  /\ touched' = touched \cup {n}
  /\ UNCHANGED <<task, left, todo, failed, shaken>>

FreeInodes == {i \in FileInodes : mem.index[i] = Unused}
FreeClusters == FreeBits(mem.total, mem.used)

\* fs_vfs_open with CREATE, then fs_vfs_write and fs_vfs_close.  On a full
\* disk the file stays empty.
CreateFile(n, word) ==
  /\ n \notin DOMAIN EntriesOf(mem)
  /\ FreeInodes # {}
  /\ LET i == Min(FreeInodes)
         c == IF FreeClusters = {} THEN 0 ELSE FirstFree(mem.total, mem.used)
         entries == Entries([m \in DOMAIN EntriesOf(mem) \cup {n} |->
                               IF m = n THEN i ELSE EntriesOf(mem)[m]])
     IN  /\ mem' = [mem EXCEPT !.index[i] = c,
                               !.used = @ \cup ({c} \ {0}),
                               !.dirty = TRUE]
         /\ disk' = [d \in Clusters |->
                       IF d = RootCluster(mem) THEN entries
                       ELSE IF d = c /\ c # 0 THEN Data(word) ELSE disk[d]]
         /\ Promise(n, IF c = 0 THEN Empty ELSE word)

\* The same of a file that is there, without TRUNCATE.
WriteFile(n, word) ==
  /\ n \in DOMAIN EntriesOf(mem)
  /\ LET i == EntriesOf(mem)[n]
         old == mem.index[i]
         c == IF old # 0 THEN old
              ELSE IF FreeClusters = {} THEN 0
              ELSE FirstFree(mem.total, mem.used)
     IN  /\ c # 0
         /\ mem' = [mem EXCEPT !.index[i] = c,
                               !.used = @ \cup {c},
                               !.dirty = TRUE]
         /\ disk' = [disk EXCEPT ![c] = Data(word)]
  /\ Promise(n, word)

\* fs_vfs_remove
RemoveFile(n) ==
  /\ n \in DOMAIN EntriesOf(mem)
  /\ LET i == EntriesOf(mem)[n]
     IN  /\ mem' = [mem EXCEPT !.index[i] = Unused,
                               !.used = @ \ ({mem.index[i]} \ {0}),
                               !.dirty = TRUE]
         /\ disk' = [disk EXCEPT ![RootCluster(mem)] =
                       Entries([m \in DOMAIN EntriesOf(mem) \ {n} |->
                                  EntriesOf(mem)[m]])]
  /\ Promise(n, None)

Work ==
  /\ Working
  /\ \E n \in Names : \/ \E word \in Words : CreateFile(n, word) \/ WriteFile(n, word)
                      \/ RemoveFile(n)

----------------------------------------------------------------------------
\* Bringing the disk up to date

\* cli_unmount_disk: the index if it is dirty, then the bitmap.
Unmount ==
  /\ task = "none" /\ mem.up
  /\ Start("unmount", IndexWrites(mem) \o BitmapWrites(mem.total, mem.used))
  /\ mem' = Unmounted
  /\ UNCHANGED <<disk, promise, touched, shaken>>

\* Mutant of Relocate: the index does not learn that it has to be written.
RelocateUnnoticed(n) ==
  LET i == EntriesOf(mem)[n]
      old == mem.index[i]
      new == FirstFree(mem.total, mem.used)
  IN  /\ old # 0 /\ FreeClusters # {}
      /\ disk' = [disk EXCEPT ![new] = disk[old]]
      /\ mem' = [mem EXCEPT !.index[i] = new,
                            !.used = (@ \cup {new}) \ {old}]
      /\ touched' = touched \cup {n}

\* defrag_process_inode on a file that is scattered, which here any file with
\* content may be: the first free place takes a copy, the old one is free.
\* Until bitmap and index are written, the disk has the old place of the file.
Relocate(n) ==
  LET i == EntriesOf(mem)[n]
      old == mem.index[i]
      new == FirstFree(mem.total, mem.used)
  IN  /\ old # 0 /\ FreeClusters # {}
      /\ disk' = [disk EXCEPT ![new] = disk[old]]
      /\ mem' = [mem EXCEPT !.index[i] = new,
                            !.used = (@ \cup {new}) \ {old},
                            !.dirty = TRUE]
      /\ touched' = touched \cup {n}

\* cli_command_defrag lists the root directory, here in any order, ...
Defrag ==
  /\ task = "none" /\ mem.up
  /\ task' = "defrag"
  /\ left' = IF Working THEN DOMAIN EntriesOf(mem) ELSE {}
  /\ UNCHANGED <<disk, mem, todo, failed, promise, touched, shaken>>

\* ... moves a file or leaves it where it is, ...
Visit(n) ==
  /\ task = "defrag" /\ n \in left
  /\ left' = left \ {n}
  /\ Relocate(n) \/ UNCHANGED <<disk, mem, touched>>
  /\ UNCHANGED <<task, todo, failed, promise, shaken>>

\* ... and writes the bitmap, and the index if it is dirty.
Sync ==
  /\ task = "defrag" /\ left = {}
  /\ Start("sync", BitmapWrites(mem.total, mem.used) \o IndexWrites(mem))
  /\ UNCHANGED <<disk, mem, promise, touched, shaken>>

\* The program is killed.
Crash ==
  /\ "crash" \in Faults
  /\ mem.up \/ task # "none"
  /\ mem' = Unmounted
  /\ Start("none", <<>>)
  /\ Part
  /\ UNCHANGED disk

----------------------------------------------------------------------------
Init ==
  /\ disk = [c \in Clusters |-> Zero]
  /\ mem = Unmounted
  /\ task = "none" /\ left = {} /\ todo = <<>> /\ failed = FALSE
  /\ promise = <<>>
  /\ touched = {}
  /\ shaken = TRUE

Next ==
  \/ Format \/ Mount \/ MountWithoutBitmap \/ MountWithoutIndex
  \/ Work
  \/ Defrag \/ (\E n \in left : Visit(n)) \/ Sync
  \/ Unmount
  \/ Write \/ WriteFails
  \/ Crash

Spec == Init /\ [][Next]_vars

----------------------------------------------------------------------------
\* Properties

InodeValues == {Unused, Broken} \cup Clusters

\* The variables have their types: clusters hold what the program writes
\* there, the mounted contexts bits and inodes that lie on this disk, and so
\* do the writes that are left.
TypeOK ==
  /\ DOMAIN disk = Clusters
  /\ \A c \in Clusters :
       CASE disk[c].is = "bits" -> disk[c].used \subseteq Clusters
         [] disk[c].is = "inodes" ->
              \A i \in DOMAIN disk[c].table : disk[c].table[i] \in InodeValues
         [] disk[c].is = "entries" ->
              /\ DOMAIN disk[c].inodeOf \subseteq Names
              /\ \A n \in DOMAIN disk[c].inodeOf : disk[c].inodeOf[n] \in FileInodes
         [] disk[c].is = "data" -> disk[c].word \in Words
         [] disk[c].is = "super" -> disk[c].total \in Totals
         [] OTHER -> disk[c] = Zero
  /\ mem.up => /\ mem.total \in Totals
               /\ mem.used \subseteq Clusters
               /\ mem.index \in [0 .. InodeCount - 1 -> InodeValues]
               /\ mem.dirty \in BOOLEAN
               /\ shaken \/ \A i \in DOMAIN mem.index : mem.index[i] < mem.total
  /\ task \in {"none", "format", "defrag", "sync", "unmount"}
  /\ todo # <<>> <=> task \in {"format", "sync", "unmount"}
  /\ left \subseteq Names /\ (left # {} => task = "defrag")
  /\ \A w \in ToSet(todo) : w.to \in Clusters
  /\ failed \in BOOLEAN
  /\ DOMAIN promise \subseteq Names
  /\ touched \subseteq Names
  /\ shaken \in BOOLEAN

\* A mounted disk shows under each name what the last call on it made of it,
\* however often the disk was unmounted or brought up to date since.  After a
\* crash, or a write of the metadata that failed, this still holds of every
\* name that was not changed since memory and disk last agreed.
PromisesKept ==
  mem.up => \A n \in DOMAIN promise : Shown(mem, n) = promise[n]

\* On a disk that no failure touched, the loaded bitmap and the loaded index
\* agree: a cluster an inode holds is used, lies outside the metadata and is
\* held by no other inode, and every other used cluster is metadata.
MetadataAgree ==
  mem.up /\ ~shaken =>
    LET holds == {i \in 0 .. InodeCount - 1 : mem.index[i] > 0}
    IN  /\ \A i, j \in holds : mem.index[i] = mem.index[j] => i = j
        /\ mem.used = Metadata(mem.total) \cup {mem.index[i] : i \in holds}
        /\ \A i \in holds : mem.index[i] \notin Metadata(mem.total)

============================================================================
