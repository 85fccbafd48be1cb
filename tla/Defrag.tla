------------------------------ MODULE Defrag ------------------------------
(***************************************************************************)
(* The command defrag, cli/src/commands/defrag_command.c, over the         *)
(* allocator: it visits the regular files, copies each that is scattered   *)
(* into the first run of free clusters that is long enough, builds new     *)
(* pointer blocks for it, truncates the old file and stores the new        *)
(* pointers in its inode.                                                  *)
(*                                                                         *)
(* It moves cluster_count clusters of a file and frees all of them, so it  *)
(* needs the size and cluster_count of the inodes, which Alloc leaves out: *)
(* a program that lets a file grow stores the size before it writes the    *)
(* cluster (io.c), and a write that succeeds sets cluster_count from it.   *)
(* Those of directories and links interest nobody here and stay 0.         *)
(*                                                                         *)
(* The command runs alone.  A disk access of it may fail where             *)
(* DefragFaults says so; it ignores every status and goes on with the next *)
(* file.                                                                   *)
(***************************************************************************)
EXTENDS AllocFiles, FiniteSets

CONSTANT DefragFaults  \* which disk accesses of the command may fail

ASSUME DefragAssumption == DefragFaults \subseteq {"read", "write"}

VARIABLES
  size,   \* the inodes' size, in words
  count,  \* the inodes' cluster_count
  todo    \* the files the command has yet to visit

defragVars == <<used, disk, level, index, call, at, ret, size, count, todo>>

--------------------------------------------------------------------------
(***************************************************************************)
(* The allocator with the sizes of its files.                              *)
(***************************************************************************)
ClustersFor(words) == (words + PointersPerCluster - 1) \div PointersPerCluster

Regular(i) == index[i].kind = "regular"

\* vfs_write tells the inode that it grows before anything is written.
BeginWrite(i, q, w) ==
  /\ Begin(i, q, w)
  /\ size' = IF Regular(i) /\ q.off + q.len > size[i]
             THEN [size EXCEPT ![i] = q.off + q.len] ELSE size
  /\ UNCHANGED count

\* Mutant of CommitWrite: cluster_count is rounded down.
CommitWriteRoundingDown ==
  /\ Commit
  /\ count' = IF Regular(call.inode)
              THEN [count EXCEPT ![call.inode] =
                      size[call.inode] \div PointersPerCluster]
              ELSE count
  /\ UNCHANGED size

CommitWrite ==
  /\ Commit
  /\ count' = IF Regular(call.inode)
              THEN [count EXCEPT ![call.inode] = ClustersFor(size[call.inode])]
              ELSE count
  /\ UNCHANGED size

\* fs_alloc_truncate_file and the inode table forget both.
Empty(i) ==
  /\ Truncate(i) \/ Remove(i) \/ RemoveDirectory(i)
  /\ size' = [size EXCEPT ![i] = 0]
  /\ count' = [count EXCEPT ![i] = 0]

Grow ==
  /\ \/ AllocateRoot \/ AllocateInBlock \/ LosePointer \/ NoSpace \/ IoError
     \/ Descend \/ WriteChunk
     \/ \E i \in Inode :
          \/ \E q \in Request, w \in Word : BeginSymlink(i, q, w)
          \/ \E kind \in Kinds \ {"symlink"} : Create(i, kind)
  /\ UNCHANGED <<size, count>>

FileStep ==
  /\ todo = {}
  /\ \/ Grow \/ CommitWrite
     \/ \E i \in Inode :
          Empty(i) \/ \E q \in Request, w \in Word : BeginWrite(i, q, w)
  /\ UNCHANGED todo

--------------------------------------------------------------------------
(***************************************************************************)
(* The new place of a file: a run of clusters, and pointer blocks for it.  *)
(***************************************************************************)
Old(i, l) == Resolve(index[i].root, l)
OldClusters(i) == {Old(i, l) : l \in 0 .. count[i] - 1}

Scattered(i) == \E l \in 1 .. count[i] - 1 : Old(i, l) # Old(i, l - 1) + 1

\* fs_bitmap_find_contiguous_free: the first run of n clear bits.
RunAt(start, n) == start .. start + n - 1

\* Mutant of FreeRun: the last cluster of the run is not looked at.
FreeRunButLast(start, n) ==
  /\ RunAt(start, n) \subseteq Cluster
  /\ RunAt(start, n - 1) \subseteq Free
  /\ \A s \in Cluster : RunAt(s, n) \subseteq Free => start <= s

FreeRun(start, n) ==
  /\ RunAt(start, n) \subseteq Free
  /\ \A s \in Cluster : RunAt(s, n) \subseteq Free => start <= s

\* What a pointer block of that height leads to, in data clusters.
Reach(height) ==
  CASE height = 0 -> 1
    [] height = 1 -> PointersPerCluster
    [] height = 2 -> PointersPerCluster * PointersPerCluster
    [] OTHER -> PointersPerCluster * PointersPerCluster * PointersPerCluster

\* The pointer blocks of a file of n clusters, each named by its height and
\* the first logical cluster below it.
Blocks(n) ==
  {b \in [height : 1 .. 3, first : DirectPointers .. n - 1] :
     /\ b.height <= HeightOf(b.first)
     /\ (b.first - Before(HeightOf(b.first))) % Reach(b.height) = 0}

\* Mutant of Place: a block is not marked used before the next is taken.
PlaceOfTheFirst(b, n) == 1

\* They are allocated from left to right, a block before those below it.
Place(b, n) ==
  Cardinality({c \in Blocks(n) :
    c.first < b.first \/ (c.first = b.first /\ c.height >= b.height)})

\* Each takes the lowest free cluster.
Nth(S, k) == CHOOSE c \in S : Cardinality({d \in S : d <= c}) = k

--------------------------------------------------------------------------
(***************************************************************************)
(* defrag_process_inode on file i, one action for each way it ends.        *)
(***************************************************************************)
Visit(i) ==
  /\ Idle
  /\ i \in todo
  /\ todo' = todo \ {i}
  /\ UNCHANGED <<call, at, ret, size, count>>

Movable(i) ==
  /\ size[i] > 0 /\ count[i] > 1
  /\ 0 \notin OldClusters(i)
  /\ Scattered(i)

\* The file is empty, has one cluster, has a hole among its first clusters
\* or is contiguous; no run of free clusters is long enough; or a pointer
\* block cannot be read.
Leave(i) ==
  /\ \/ ~Movable(i)
     \/ ~\E s \in Cluster : FreeRun(s, count[i])
     \/ "read" \in DefragFaults
  /\ Visit(i)
  /\ UNCHANGED <<used, disk, level, index>>

\* Mutant of Copied: the loop ends one cluster early.
CopiedOneShort(i, start, k) ==
  [c \in Cluster |-> IF c \in RunAt(start, k - 1) THEN disk[Old(i, c - start)]
                     ELSE disk[c]]

\* The first k clusters of the file are copied to the run.
Copied(i, start, k) ==
  [c \in Cluster |-> IF c \in RunAt(start, k) THEN disk[Old(i, c - start)]
                     ELSE disk[c]]

\* Mutant of StopCopying: the run stays marked.
StopCopyingKeepingRun(i) ==
  /\ DefragFaults # {} /\ Movable(i)
  /\ \E s \in Cluster, k \in 0 .. count[i] - 1 :
       /\ FreeRun(s, count[i])
       /\ disk' = Copied(i, s, k)
       /\ used' = used \cup RunAt(s, count[i])
  /\ Visit(i)
  /\ UNCHANGED <<level, index>>

\* Reading or writing a cluster fails: the run is free again.
StopCopying(i) ==
  /\ DefragFaults # {} /\ Movable(i)
  /\ \E s \in Cluster, k \in 0 .. count[i] - 1 :
       FreeRun(s, count[i]) /\ disk' = Copied(i, s, k)
  /\ Visit(i)
  /\ UNCHANGED <<used, level, index>>

\* The first k pointer blocks are taken when another one is not to be had, or
\* one cannot be written: the run is free again, they are not.  Nothing
\* leads to them, so what was written to them is left out.
LoseBlocks(i, fault) ==
  LET n == count[i]
  IN  /\ Movable(i)
      /\ \E s \in Cluster, k \in 0 .. Cardinality(Blocks(n)) :
           LET room == Free \ RunAt(s, n)
               taken == {Nth(room, m) : m \in 1 .. k}
           IN  /\ FreeRun(s, n)
               /\ k <= Cardinality(room)
               /\ IF fault
                  THEN \E b \in Blocks(n) : b.height = 1 /\ Place(b, n) = k
                  ELSE k = Cardinality(room) /\ k < Cardinality(Blocks(n))
               /\ disk' = Copied(i, s, n)
               /\ used' = used \cup taken
               /\ level' = [c \in Cluster |-> IF c \in taken THEN 0 ELSE level[c]]
      /\ Visit(i)
      /\ UNCHANGED index

\* The file in its new place: cluster l of it is start + l, block b is
\* where Blocks puts it; the old file is truncated.
Moved(i, start, bad) ==
  LET n == count[i]
      room == Free \ RunAt(start, n)
      block(b) == Nth(room, Place(b, n))
      target(height, l) ==
        CASE l >= n -> 0
          [] l < n /\ height = 0 -> start + l
          [] OTHER -> block([height |-> height, first |-> l])
      words(b) ==
        [s \in Slot |-> target(b.height - 1, b.first + s * Reach(b.height - 1))]
      built == {block(b) : b \in Blocks(n)}
      at_(c) == CHOOSE b \in Blocks(n) : block(b) = c
  IN  /\ used' = (used \cup RunAt(start, n) \cup built)
                   \ Freed(index[i].root, bad)
      /\ disk' = [c \in Cluster |-> IF c \in built THEN words(at_(c))
                                    ELSE Copied(i, start, n)[c]]
      /\ level' = [c \in Cluster |-> CASE c \in built -> at_(c).height
                                       [] c \in RunAt(start, n) -> 0
                                       [] OTHER -> level[c]]
      /\ index' = [index EXCEPT ![i].root = [r \in Root |->
                     target(RootHeight(r), IF r < DirectPointers THEN r
                                           ELSE Before(RootHeight(r)))]]

\* The pointer blocks in bad cannot be read when the old file is truncated.
Move(i, bad) ==
  LET n == count[i]
  IN  /\ Movable(i)
      /\ bad \subseteq {c \in Freed(index[i].root, {}) : level[c] > 0}
      /\ \E s \in Cluster :
           /\ FreeRun(s, n)
           /\ Cardinality(Free \ RunAt(s, n)) >= Cardinality(Blocks(n))
           /\ Moved(i, s, bad)
      /\ Visit(i)

\* The command visits the files of the tree one after the other.
StartDefrag ==
  /\ Idle /\ todo = {}
  /\ todo' = {i \in Inode : Regular(i)}
  /\ UNCHANGED <<used, disk, level, index, call, at, ret, size, count>>

--------------------------------------------------------------------------
DefragInit ==
  /\ Init
  /\ size = [i \in Inode |-> 0]
  /\ count = [i \in Inode |-> 0]
  /\ todo = {}

Faults == IF "write" \in DefragFaults THEN BOOLEAN ELSE {FALSE}
Unread == IF "read" \in DefragFaults THEN SUBSET PointerBlocks ELSE {{}}

DefragNext ==
  \/ FileStep
  \/ StartDefrag
  \/ \E i \in Inode :
       \/ Leave(i)
       \/ StopCopying(i)
       \/ \E fault \in Faults : LoseBlocks(i, fault)
       \/ \E bad \in Unread : Move(i, bad)

DefragSpec == DefragInit /\ [][DefragNext]_defragVars

--------------------------------------------------------------------------
(***************************************************************************)
(* Properties.                                                             *)
(***************************************************************************)
\* The writes that vfs makes from its cache, one cluster each (cache.c:70),
\* while the disk works.
OneClusterWrites ==
  /\ ~DiskFaults
  /\ \A q \in Request :
       (q.off % PointersPerCluster) + q.len <= PointersPerCluster

\* No cluster of a regular file lies past its cluster_count, which a write
\* computes from the size (alloc.c:557) and defragmentation relies on: it
\* keeps the first cluster_count clusters and frees every one.  This needs
\* OneClusterWrites: a write that fails for want of space has then stored
\* nothing, and no write fails otherwise.
CountCoversFile ==
  Idle => \A i \in Inode, l \in Logical :
            Regular(i) /\ Resolve(index[i].root, l) # 0 => l < count[i]

\* Clusters get lost, used with nothing that leads to them, only when a
\* write fails, when a directory is removed, or when a file cannot be moved:
\* then at most its pointer blocks, and only if the disk fails or has no room
\* for them.  A file that is moved leaves nothing behind unless a pointer
\* block could not be read.
LossesAccounted ==
  [][\/ Leaked' \subseteq Leaked
     \/ FileStep /\ (ret' # "ok" \/ \E i \in Inode : RemoveDirectory(i))
     \/ \E i \in Inode, bad \in Unread \ {{}} : Move(i, bad)
     \/ \E i \in Inode, fault \in Faults :
          /\ LoseBlocks(i, fault)
          /\ Cardinality(Leaked' \ Leaked) <= Cardinality(Blocks(count[i]))
          /\ \/ fault
             \/ Cardinality(Free) < count[i] + Cardinality(Blocks(count[i]))]_defragVars
==========================================================================
