------------------------------ MODULE Alloc ------------------------------
(***************************************************************************)
(* The cluster allocator, src/alloc/alloc.c, over the bitmap, the in-memory *)
(* inode index and the disk it is given.                                   *)
(*                                                                         *)
(* An inode has DirectPointers direct pointers and one single, one double  *)
(* and one triple indirect pointer; the code walks them with four copies   *)
(* of the same loop, which is one walk here: a cursor stands before a      *)
(* pointer, in the caller's copy of the inode (block = 0) or in a pointer  *)
(* block on disk, whose target has a height (0 for data, k for a pointer   *)
(* block with k levels below it).  A missing pointer is allocated, a       *)
(* present one is followed.                                                *)
(*                                                                         *)
(* The program is sequential: a write call runs to its end before another  *)
(* operation starts.  Its steps are separate here because each of them can *)
(* fail, and the call then returns with whatever the earlier ones did.     *)
(* The unit of data is the word, the size of a cluster pointer, so that a  *)
(* cluster holds PointersPerCluster words whether it is data or pointers.  *)
(***************************************************************************)
EXTENDS Integers

CONSTANTS
  TotalClusters,       \* clusters of the disk, numbered from 0
  ReservedClusters,    \* superblock, bitmap and inode table: 0 .. Reserved-1
  DirectPointers,      \* FS_DIRECT_POINTERS
  PointersPerCluster,  \* FS_CLUSTER_SIZE / sizeof(uint32_t)
  InodeCount,          \* FS_INODE_COUNT
  Word,                \* words the callers write; may look like pointers
  Request,             \* [off, len]: the extents callers write, in words
  Kinds,               \* kinds of inodes callers create
  DiskFaults           \* whether a disk read or write may fail

ASSUME SizesAssumption ==
  /\ TotalClusters \in Nat
  /\ ReservedClusters \in Nat \ {0}
  /\ ReservedClusters <= TotalClusters
  /\ DirectPointers \in Nat \ {0}
  /\ PointersPerCluster \in Nat \ {0}
  /\ InodeCount \in Nat

ASSUME InputAssumption ==
  /\ Word \subseteq Nat
  /\ Request \subseteq [off : Nat, len : Nat]
  /\ Kinds \subseteq {"regular", "directory", "symlink"}
  /\ DiskFaults \in BOOLEAN

\* The logical clusters that the pointers of an inode reach are 0 .. Capacity - 1.
Capacity ==
  LET p == PointersPerCluster IN DirectPointers + p + p * p + p * p * p

\* A size in bytes has 32 bits, that is 2^20 clusters at most, and the
\* pointers of an inode reach more than 1024^3.
ASSUME CapacityAssumption ==
  \A q \in Request : q.off + q.len <= PointersPerCluster * Capacity

VARIABLES
  used,   \* the bitmap: clusters whose bit is set
  disk,   \* disk[c][s]: word s of cluster c
  level,  \* history: the height a cluster was last allocated for
  index,  \* the inode table: kind and pointers of every inode
  call,   \* the write call in progress, with its own copy of the pointers
  at,     \* the cursor of its walk
  ret     \* the status the last operation returned

vars == <<used, disk, level, index, call, at, ret>>

--------------------------------------------------------------------------
Cluster == 0 .. TotalClusters - 1
Reserved == 0 .. ReservedClusters - 1
Inode == 0 .. InodeCount - 1
NoInode == InodeCount
Slot == 0 .. PointersPerCluster - 1
Root == 0 .. DirectPointers + 2
Height == 0 .. 3
Kind == {"unused", "regular", "directory", "symlink"}

Zeros == [s \in Slot |-> 0]
NoPointers == [r \in Root |-> 0]
UnusedInode == [kind |-> "unused", root |-> NoPointers]
Top == [block |-> 0, height |-> 0]
NoCall == [inode |-> NoInode, off |-> 0, len |-> 0, word |-> 0,
           done |-> 0, root |-> NoPointers]

\* Where logical cluster l hangs: the height of its tree, the inode field
\* that holds the tree, and the slot that leads to it in the block whose
\* targets have height h.
HeightOf(l) ==
  CASE l < DirectPointers -> 0
    [] l >= DirectPointers /\ l < DirectPointers + PointersPerCluster -> 1
    [] l >= DirectPointers + PointersPerCluster
       /\ l < DirectPointers + PointersPerCluster
              + PointersPerCluster * PointersPerCluster -> 2
    [] OTHER -> 3

RootOf(l) == IF HeightOf(l) = 0 THEN l ELSE DirectPointers + HeightOf(l) - 1
RootHeight(r) == IF r < DirectPointers THEN 0 ELSE r - DirectPointers + 1

Span(h) ==
  CASE h = 0 -> 1
    [] h = 1 -> PointersPerCluster
    [] OTHER -> PointersPerCluster * PointersPerCluster

Before(h) ==
  CASE h <= 1 -> DirectPointers
    [] h = 2 -> DirectPointers + PointersPerCluster
    [] OTHER -> DirectPointers + PointersPerCluster
                + PointersPerCluster * PointersPerCluster

SlotOf(l, h) ==
  ((l - Before(HeightOf(l))) \div Span(h)) % PointersPerCluster

--------------------------------------------------------------------------
(***************************************************************************)
(* The call in progress.                                                   *)
(***************************************************************************)
Idle == call.inode = NoInode
Walking == ~Idle /\ call.done < call.len

LogicalIndex == (call.off + call.done) \div PointersPerCluster

Pointer ==
  IF at.block = 0
  THEN call.root[RootOf(LogicalIndex)]
  ELSE disk[at.block][SlotOf(LogicalIndex, at.height)]

\* Mutant of Free: a scan that runs one bit past the last cluster.
FreePastTheEnd == (Cluster \cup {TotalClusters}) \ used

\* fs_bitmap_find_free_cluster: the lowest clear bit
Free == Cluster \ used
FirstFree(c) == c \in Free /\ \A d \in Free : c <= d

StartCall(i, q, w, root) ==
  /\ call' = [inode |-> i, off |-> q.off, len |-> q.len, word |-> w,
              done |-> 0, root |-> root]
  /\ at' = [block |-> 0, height |-> HeightOf(q.off \div PointersPerCluster)]
  /\ ret' = "none"

EndCall(status) ==
  /\ call' = NoCall
  /\ at' = Top
  /\ ret' = status

\* A caller copies the inode out of the index and calls fs_alloc_write_data.
Begin(i, q, w) ==
  /\ Idle
  /\ index[i].kind \in {"regular", "directory"}
  /\ StartCall(i, q, w, index[i].root)
  /\ UNCHANGED <<used, disk, level, index>>

\* fs_index_allocate_inode takes the first unused inode.
FirstUnused(i) ==
  /\ index[i].kind = "unused"
  /\ \A j \in Inode : j < i => index[j].kind # "unused"

\* fs_vfs_create_symlink takes an inode and writes the target to it at once.
BeginSymlink(i, q, w) ==
  /\ Idle
  /\ "symlink" \in Kinds
  /\ FirstUnused(i)
  /\ q.off = 0
  /\ index' = [index EXCEPT ![i] = [kind |-> "symlink", root |-> NoPointers]]
  /\ StartCall(i, q, w, NoPointers)
  /\ UNCHANGED <<used, disk, level>>

\* Mutant of AllocateRoot: the new cluster keeps what a freed file left in it.
AllocateRootWithoutZeroing ==
  /\ Walking /\ at.block = 0 /\ Pointer = 0
  /\ \E c \in Free :
       /\ FirstFree(c)
       /\ used' = used \cup {c}
       /\ level' = [level EXCEPT ![c] = at.height]
       /\ call' = [call EXCEPT !.root[RootOf(LogicalIndex)] = c]
  /\ UNCHANGED <<disk, index, at, ret>>

\* A missing pointer in the inode copy: mark a cluster used, zero it, and
\* remember it in the copy.
AllocateRoot ==
  /\ Walking /\ at.block = 0 /\ Pointer = 0
  /\ \E c \in Free :
       /\ FirstFree(c)
       /\ used' = used \cup {c}
       /\ disk' = [disk EXCEPT ![c] = Zeros]
       /\ level' = [level EXCEPT ![c] = at.height]
       /\ call' = [call EXCEPT !.root[RootOf(LogicalIndex)] = c]
  /\ UNCHANGED <<index, at, ret>>

\* A missing pointer in a pointer block: the block is written back.
AllocateInBlock ==
  /\ Walking /\ at.block # 0 /\ Pointer = 0
  /\ \E c \in Free :
       /\ FirstFree(c)
       /\ used' = used \cup {c}
       /\ disk' = [disk EXCEPT
                     ![c] = Zeros,
                     ![at.block][SlotOf(LogicalIndex, at.height)] = c]
       /\ level' = [level EXCEPT ![c] = at.height]
  /\ UNCHANGED <<index, call, at, ret>>

\* fs_vfs_create_symlink frees its inode, without truncating it, when the
\* write fails; the other callers just drop their copy of the inode.
Abort(status) ==
  /\ index' = IF index[call.inode].kind = "symlink"
              THEN [index EXCEPT ![call.inode] = UnusedInode]
              ELSE index
  /\ EndCall(status)

\* The write-back of the pointer block fails: the new cluster stays marked
\* and zeroed, and nothing points to it.
LosePointer ==
  /\ DiskFaults
  /\ Walking /\ at.block # 0 /\ Pointer = 0
  /\ \E c \in Free :
       /\ FirstFree(c)
       /\ used' = used \cup {c}
       /\ disk' = [disk EXCEPT ![c] = Zeros]
       /\ level' = [level EXCEPT ![c] = at.height]
  /\ Abort("io_error")

NoSpace ==
  /\ Walking /\ Pointer = 0 /\ Free = {}
  /\ Abort("no_space")
  /\ UNCHANGED <<used, disk, level>>

\* Any other disk access of the step fails: reading a pointer block or the
\* cluster a partial chunk is merged into, zeroing a new cluster (whose bit
\* is cleared again), writing the data.
IoError ==
  /\ DiskFaults
  /\ Walking
  /\ Abort("io_error")
  /\ UNCHANGED <<used, disk, level>>

\* Mutant of Descend: the walk forgets that it went down one level.
DescendWithoutCounting ==
  /\ Walking /\ Pointer # 0 /\ at.height > 0
  /\ at' = [at EXCEPT !.block = Pointer]
  /\ UNCHANGED <<used, disk, level, index, call, ret>>

Descend ==
  /\ Walking /\ Pointer # 0 /\ at.height > 0
  /\ at' = [block |-> Pointer, height |-> at.height - 1]
  /\ UNCHANGED <<used, disk, level, index, call, ret>>

\* Where the call stands in the cluster, and how much it writes there.
Offset == (call.off + call.done) % PointersPerCluster
Chunk ==
  LET room == PointersPerCluster - Offset
      rest == call.len - call.done
  IN  IF rest > room THEN room ELSE rest

\* Mutant of WriteChunk: a partial chunk is written without merging it into
\* the words the cluster holds.
WriteChunkWithoutMerging ==
  /\ Walking /\ Pointer # 0 /\ at.height = 0
  /\ disk' = [disk EXCEPT ![Pointer] =
                [s \in Slot |-> IF Offset <= s /\ s < Offset + Chunk
                               THEN call.word ELSE 0]]
  /\ call' = [call EXCEPT !.done = @ + Chunk]
  /\ at' = [block |-> 0,
            height |-> HeightOf((call.off + call.done + Chunk)
                                \div PointersPerCluster)]
  /\ UNCHANGED <<used, level, index, ret>>

\* Mutant of WriteChunk: the count of written words does not advance.
WriteChunkWithoutAdvancing ==
  /\ Walking /\ Pointer # 0 /\ at.height = 0
  /\ disk' = [disk EXCEPT ![Pointer] =
                [s \in Slot |-> IF Offset <= s /\ s < Offset + Chunk
                               THEN call.word ELSE @[s]]]
  /\ at' = [block |-> 0, height |-> HeightOf(LogicalIndex)]
  /\ UNCHANGED <<used, level, index, call, ret>>

WriteChunk ==
  /\ Walking /\ Pointer # 0 /\ at.height = 0
  /\ disk' = [disk EXCEPT ![Pointer] =
                [s \in Slot |-> IF Offset <= s /\ s < Offset + Chunk
                               THEN call.word ELSE @[s]]]
  /\ call' = [call EXCEPT !.done = @ + Chunk]
  /\ at' = [block |-> 0,
            height |-> HeightOf((call.off + call.done + Chunk)
                                \div PointersPerCluster)]
  /\ UNCHANGED <<used, level, index, ret>>

\* The call succeeded and its caller writes the inode copy to the index.
Commit ==
  /\ ~Idle /\ call.done >= call.len
  /\ index' = [index EXCEPT ![call.inode].root = call.root]
  /\ EndCall("ok")
  /\ UNCHANGED <<used, disk, level>>

--------------------------------------------------------------------------
(***************************************************************************)
(* Truncation.  A pointer block that cannot be read is skipped with all    *)
(* that hangs below it; fs_alloc_truncate_file forgets the pointer anyway. *)
(***************************************************************************)
Targets(c) == {disk[c][s] : s \in Slot} \ {0}

\* Mutant of Freed1: the targets are freed, the pointer block itself is not.
Freed1WithoutBlock(c, bad) == IF c \in bad THEN {} ELSE Targets(c)

Freed1(c, bad) == IF c \in bad THEN {} ELSE {c} \cup Targets(c)
Freed2(c, bad) ==
  IF c \in bad THEN {} ELSE {c} \cup UNION {Freed1(d, bad) : d \in Targets(c)}
Freed3(c, bad) ==
  IF c \in bad THEN {} ELSE {c} \cup UNION {Freed2(d, bad) : d \in Targets(c)}

FreedBelow(h, c, bad) ==
  CASE c = 0 -> {}
    [] c # 0 /\ h = 0 -> {c}
    [] c # 0 /\ h = 1 -> Freed1(c, bad)
    [] c # 0 /\ h = 2 -> Freed2(c, bad)
    [] OTHER -> Freed3(c, bad)

Freed(root, bad) == UNION {FreedBelow(RootHeight(r), root[r], bad) : r \in Root}

\* The sets of pointer blocks of the file that may be unreadable.
Unreadable(root) ==
  IF DiskFaults THEN SUBSET {c \in Freed(root, {}) : level[c] > 0} ELSE {{}}

Create(i, kind) ==
  /\ Idle
  /\ FirstUnused(i)
  /\ index' = [index EXCEPT ![i] = [kind |-> kind, root |-> NoPointers]]
  /\ ret' = "ok"
  /\ UNCHANGED <<used, disk, level, call, at>>

\* Mutant of Truncate: the clusters are freed, the inode keeps its pointers.
TruncateKeepingPointers(i) ==
  /\ Idle
  /\ index[i].kind = "regular"
  /\ \E bad \in Unreadable(index[i].root) : used' = used \ Freed(index[i].root, bad)
  /\ ret' = "ok"
  /\ UNCHANGED <<disk, level, index, call, at>>

\* fs_vfs_open with FS_OPEN_TRUNCATE
Truncate(i) ==
  /\ Idle
  /\ index[i].kind = "regular"
  /\ \E bad \in Unreadable(index[i].root) : used' = used \ Freed(index[i].root, bad)
  /\ index' = [index EXCEPT ![i].root = NoPointers]
  /\ ret' = "ok"
  /\ UNCHANGED <<disk, level, call, at>>

\* fs_vfs_remove, and the recursive rmdir of the command line: truncate the
\* file, then free its inode.
Remove(i) ==
  /\ Idle
  /\ index[i].kind # "unused"
  /\ \E bad \in Unreadable(index[i].root) : used' = used \ Freed(index[i].root, bad)
  /\ index' = [index EXCEPT ![i] = UnusedInode]
  /\ ret' = "ok"
  /\ UNCHANGED <<disk, level, call, at>>

\* fs_vfs_remove_directory frees the inode of the empty directory and does
\* not truncate it.
RemoveDirectory(i) ==
  /\ Idle
  /\ index[i].kind = "directory"
  /\ index' = [index EXCEPT ![i] = UnusedInode]
  /\ ret' = "ok"
  /\ UNCHANGED <<used, disk, level, call, at>>

--------------------------------------------------------------------------
\* fs_format_initialize_disk before it makes the root directory, which is
\* then created and written like any other.
Init ==
  /\ used = Reserved
  /\ disk = [c \in Cluster |-> Zeros]
  /\ level = [c \in Cluster |-> 0]
  /\ index = [i \in Inode |-> UnusedInode]
  /\ call = NoCall
  /\ at = Top
  /\ ret = "ok"

CallStep ==
  \/ AllocateRoot \/ AllocateInBlock \/ LosePointer \/ NoSpace \/ IoError
  \/ Descend \/ WriteChunk \/ Commit

Next ==
  \/ CallStep
  \/ \E i \in Inode :
       \/ \E q \in Request, w \in Word : Begin(i, q, w) \/ BeginSymlink(i, q, w)
       \/ \E kind \in Kinds \ {"symlink"} : Create(i, kind)
       \/ Truncate(i)
       \/ Remove(i)
       \/ RemoveDirectory(i)

Spec == Init /\ [][Next]_vars

\* The program is sequential: a call that has started keeps running.
FairSpec == Spec /\ WF_vars(CallStep)

--------------------------------------------------------------------------
(***************************************************************************)
(* Properties.                                                             *)
(***************************************************************************)
\* Type correctness of the state.
TypeOK ==
  /\ used \subseteq Cluster
  /\ disk \in [Cluster -> [Slot -> Nat]]
  /\ level \in [Cluster -> Height]
  /\ index \in [Inode -> [kind : Kind, root : [Root -> Cluster]]]
  /\ call \in [inode : 0 .. InodeCount, off : Nat, len : Nat,
               word : Word \cup {0}, done : Nat, root : [Root -> Cluster]]
  /\ at \in [block : Cluster, height : Height]
  /\ ret \in {"none", "ok", "no_space", "io_error"}

\* The pointers of inode i that the program would follow now: those of the
\* copy a running call works on, or those of the index.
LiveRoot(i) == IF i = call.inode THEN call.root ELSE index[i].root

PointerBlocks == {c \in used \ Reserved : level[c] > 0}

\* Every pointer the program may follow, in an inode or in any pointer block
\* that is marked used, leads to a cluster that is marked used, holds no
\* metadata and was allocated for the height it is used at: data is never
\* read as pointers, and a pointer never outlives its cluster.
PointersSound ==
  /\ Reserved \subseteq used
  /\ \A i \in Inode, r \in Root :
       LiveRoot(i)[r] # 0 =>
         /\ LiveRoot(i)[r] \in used \ Reserved
         /\ level[LiveRoot(i)[r]] = RootHeight(r)
  /\ \A b \in PointerBlocks, s \in Slot :
       disk[b][s] # 0 =>
         /\ disk[b][s] \in used \ Reserved
         /\ level[disk[b][s]] = level[b] - 1

\* No cluster is the target of two pointers: two files, or two places of one
\* file, never share a data cluster or a pointer block.
SingleOwner ==
  /\ \A i, j \in Inode, r, q \in Root :
       LiveRoot(i)[r] # 0 /\ LiveRoot(i)[r] = LiveRoot(j)[q] => i = j /\ r = q
  /\ \A a, b \in PointerBlocks, s, t \in Slot :
       disk[a][s] # 0 /\ disk[a][s] = disk[b][t] => a = b /\ s = t
  /\ \A i \in Inode, r \in Root, b \in PointerBlocks, s \in Slot :
       LiveRoot(i)[r] # 0 => LiveRoot(i)[r] # disk[b][s]

\* The walk of a running call: its inode copy has kept every pointer of the
\* index and only gained new ones; the block its cursor is in is a live
\* pointer block one level above the pointer it stands at; at the top, the
\* pointer is the field of the inode that holds the next logical cluster.
CursorSound ==
  /\ \A i \in Inode, r \in Root :
       i = call.inode /\ index[i].root[r] # 0 => call.root[r] = index[i].root[r]
  /\ at.block # 0 =>
       ~Idle /\ at.block \in PointerBlocks /\ level[at.block] = at.height + 1
  /\ Walking /\ at.block = 0 => at.height = HeightOf(LogicalIndex)

\* The inductive invariant.
IInv == TypeOK /\ PointersSound /\ SingleOwner /\ CursorSound

\* Everything the pointers of an inode lead to.
Below(S) == S \cup UNION {Targets(c) : c \in {d \in S : level[d] > 0}}
Reachable(root) == Below(Below(Below({root[r] : r \in Root} \ {0})))

\* Clusters marked used that no inode leads to: nothing can free them.
Leaked ==
  (used \ Reserved) \ UNION {Reachable(LiveRoot(i)) : i \in Inode}

\* While the disk works, an operation that reports success loses no cluster:
\* a write either commits all it allocated or fails, and truncation finds
\* every cluster of the file, at every depth.  The one exception is the
\* removal of a directory, which is freed without being truncated.
SuccessLosesNothing ==
  [][~DiskFaults /\ ret' = "ok" =>
       \/ Leaked' \subseteq Leaked
       \/ \E i \in Inode : RemoveDirectory(i)]_vars

\* A write call returns: its walk makes progress at every step, or fails.
CallReturns == ~Idle ~> Idle
==========================================================================
