------------------------------ MODULE VfsIo ------------------------------
(***************************************************************************)
(* Open files: the descriptor table of src/vfs/context.c, the calls of     *)
(* src/vfs/io.c and the write-back cache of src/vfs/cache.c.               *)
(*                                                                         *)
(* Every descriptor has a position, its own idea of the size of the file   *)
(* and its own cache of CacheClusters clusters, replaced in least recently *)
(* used order and written back when evicted, when a write fills a cluster, *)
(* when a seek leaves the cluster and at close.  Nothing keeps two         *)
(* descriptors of one inode coherent.                                      *)
(*                                                                         *)
(* The program is sequential: a read or write call runs to its end before  *)
(* another call starts; each round of its loop is one step here.  Paths    *)
(* and directories are left out: the name of a file is its inode.  Below,  *)
(* the allocator is what FileStore says of it: writing a whole cluster     *)
(* stores it, or fails and at worst turns a hole into zeros.               *)
(***************************************************************************)
EXTENDS Integers, FiniteSets, Sequences, SequencesExt

CONSTANTS
  Inode,          \* the inodes callers work with
  MaxOpenFiles,   \* FS_MAX_OPEN_FILES
  CacheClusters,  \* FS_CACHE_CLUSTER_COUNT
  ClusterWords,   \* FS_CLUSTER_SIZE, in words
  Capacity,       \* data clusters of the disk
  WordOf,         \* WordOf[i]: the words callers write to inode i
  OpenFlags,      \* the sets of flags callers open files with
  Length,         \* the lengths callers read and write
  MaxWords,       \* bound: callers write and seek up to this position
  DiskFaults,     \* whether a disk access may fail
  Careless,       \* what callers do not refrain from, see below
  Hole            \* a logical cluster with nothing behind it

ASSUME SizesAssumption ==
  /\ {MaxOpenFiles, CacheClusters, ClusterWords} \subseteq Nat \ {0}
  /\ {Capacity, MaxWords} \subseteq Nat
  /\ Length \subseteq Nat \ {0}
  /\ Inode # {} /\ IsFiniteSet(Inode) /\ DiskFaults \in BOOLEAN

\* Opening an inode that is already open; seeking past the end of a file;
\* destroying the table while a descriptor has words to write back.
ASSUME CarelessAssumption ==
  Careless \subseteq {"share", "seek_past_end", "destroy_dirty"}

ASSUME FlagsAssumption ==
  \A flags \in OpenFlags :
    /\ flags \subseteq {"read", "write", "append", "create", "truncate"}
    /\ flags \cap {"read", "write"} # {}

VARIABLES
  inodes,  \* inodes[i]: whether it is used, its size, its clusters on disk
  fds,     \* open_files
  call,    \* the call in progress
  ret      \* status of the last call, and what its last round delivered

vars == <<inodes, fds, call, ret>>

--------------------------------------------------------------------------
Fd == 0 .. MaxOpenFiles - 1
Slot == 1 .. CacheClusters
Logical == 0 .. (MaxWords \div ClusterWords) + 1
At == 1 .. ClusterWords

Zeros == [o \in At |-> 0]
NoFile == [used |-> FALSE, size |-> 0, blocks |-> [l \in Logical |-> Hole]]

\* Slots 1 .. valid are the valid ones; recent lists those that were used since
\* they became valid, in the order of their time stamps.  A slot keeps its
\* content and its stamp when it becomes invalid.
EmptySlot == [index |-> 0, words |-> Zeros, dirty |-> FALSE]
FreshFd == [open |-> FALSE, inode |-> CHOOSE i \in Inode : TRUE, flags |-> {},
            pos |-> 0, size |-> 0, valid |-> 0, recent |-> <<>>,
            slot |-> [s \in Slot |-> EmptySlot]]

NoCall == [op |-> "none", fd |-> 0, left |-> 0, word |-> 0]
Idle == call.op = "none"
OpenOn(i) == {f \in Fd : fds[f].open /\ fds[f].inode = i}

Return(status) == [status |-> status, data |-> <<>>, missing |-> 0]

\* The clusters of an inode, and those it may have before the disk is full.
Allocated(n) == {l \in Logical : n.blocks[l] # Hole}
Budget(i) ==
  Capacity - Cardinality(UNION {{j} \X Allocated(inodes[j]) : j \in Inode \ {i}})
Fits(n, budget) == Cardinality(Allocated(n)) <= budget

--------------------------------------------------------------------------
(***************************************************************************)
(* The cache.  What may come of an operation on the descriptor d and the   *)
(* inode n is a set of records: whether it succeeded, and the d and n it   *)
(* leaves.                                                                 *)
(***************************************************************************)
\* The inode once the slots F have been written to it, in their order: each
\* write also gives the inode the descriptor's idea of the size.
Store(d, n, F) ==
  LET last(l) == CHOOSE s \in F : /\ d.slot[s].index = l
                                  /\ \A t \in F : d.slot[t].index = l => t <= s
      stored == {d.slot[s].index : s \in F}
  IN  [n EXCEPT !.size = IF F = {} THEN n.size ELSE d.size,
                !.blocks = [l \in Logical |->
                   IF l \in stored THEN d.slot[last(l)].words ELSE n.blocks[l]]]

Dirty(d, S) == {s \in S : d.slot[s].dirty}
Clean(d, S) ==
  [d EXCEPT !.slot = [s \in Slot |->
     IF s \in S THEN [d.slot[s] EXCEPT !.dirty = FALSE] ELSE d.slot[s]]]

\* vfs_cache_flush_slot on the slots from a to b, up to the first failure: no
\* cluster is free, or a disk access fails, possibly after a hole has become
\* a cluster of zeros.
Flush(d, n, budget, a, b) ==
  LET stored(k) == Store(d, n, Dirty(d, a .. k))
      failsAt(k) == d.slot[k].dirty /\ (DiskFaults \/ ~Fits(stored(k), budget))
      zeroed(k) ==
        IF DiskFaults /\ Fits(stored(k), budget)
           /\ stored(k - 1).blocks[d.slot[k].index] = Hole
        THEN {[stored(k - 1) EXCEPT !.blocks[d.slot[k].index] = Zeros]} ELSE {}
  IN  {[ok |-> TRUE, d |-> Clean(d, a .. b), n |-> stored(b)] :
         x \in {y \in {TRUE} : Fits(stored(b), budget)}}
      \cup UNION {{[ok |-> FALSE, d |-> Clean(d, a .. k - 1), n |-> m] :
                     m \in {stored(k - 1)} \cup zeroed(k)} :
                  k \in {j \in a .. b : failsAt(j) /\ Fits(stored(j - 1), budget)}}

FlushSlot(d, n, budget, s) == Flush(d, n, budget, s, s)

\* Mutant of FlushAll: the last valid slot is left out.
FlushAllButLast(d, n, budget) == Flush(d, n, budget, 1, d.valid - 1)

FlushAll(d, n, budget) == Flush(d, n, budget, 1, d.valid)

\* fs_alloc_read_data of one cluster, zero-filled past the end of the file:
\* a hole inside the file cannot be read.
Readable(n, l) == l * ClusterWords >= n.size \/ n.blocks[l] # Hole
DiskWords(n, l) ==
  [o \in At |-> IF l * ClusterWords + o <= n.size THEN n.blocks[l][o] ELSE 0]

Touch(d, s) == [d EXCEPT !.recent = Append(RemoveFirst(@, s), s)]

\* Mutant of Fill: the end of a cluster past the end of the file is not zeroed.
FillWithoutZeroing(d, n, l, s, failed) ==
  {[ok |-> TRUE, n |-> n, s |-> s,
    d |-> Touch([d EXCEPT !.slot[s] =
                   [index |-> l, dirty |-> FALSE,
                    words |-> [o \in At |-> IF l * ClusterWords + o <= n.size
                                            THEN n.blocks[l][o] ELSE @.words[o]]]], s)] :
     x \in {y \in {l} : Readable(n, y)}}
  \cup {[ok |-> FALSE, n |-> n, s |-> s, d |-> e] :
          e \in {y \in failed : DiskFaults \/ ~Readable(n, l)}}

\* Cluster l is read into slot s of d; the descriptor is one of failed if
\* that goes wrong.
Fill(d, n, l, s, failed) ==
  {[ok |-> TRUE, n |-> n, s |-> s,
    d |-> Touch([d EXCEPT !.slot[s] =
                   [index |-> l, words |-> DiskWords(n, l), dirty |-> FALSE]], s)] :
     x \in {y \in {l} : Readable(n, y)}}
  \cup {[ok |-> FALSE, n |-> n, s |-> s, d |-> e] :
          e \in {y \in failed : DiskFaults \/ ~Readable(n, l)}}

Holding(d, l) == {s \in 1 .. d.valid : d.slot[s].index = l}
First(S) == CHOOSE s \in S : \A t \in S : s <= t

\* vfs_cache_find_least_recently_used_slot.  The counter of the stamps starts
\* again at open and the stamps stay, so that the stamp of a valid slot that
\* has not been used since may be older or newer than all others.
LeastRecentlyUsed(d) ==
  {s \in 1 .. d.valid : s \in ToSet(d.recent) => s = Head(d.recent)}

\* vfs_cache_load_cluster.  A load that fails in a cache with room has
\* already made the next slot valid, with what it held before.
Load(d, n, budget, l) ==
  LET s == d.valid + 1
      grown == [d EXCEPT !.valid = s]
  IN  IF Holding(d, l) # {}
      THEN LET h == First(Holding(d, l))
           IN  {[ok |-> TRUE, n |-> n, s |-> h, d |-> Touch(d, h)]}
      ELSE IF d.valid < CacheClusters
      THEN Fill(grown, n, l, s, {grown})
      ELSE UNION {UNION {IF r.ok THEN Fill(r.d, r.n, l, old, {r.d})
                         ELSE {[ok |-> FALSE, n |-> r.n, s |-> old, d |-> r.d]} :
                         r \in FlushSlot(d, n, budget, old)} :
                  old \in LeastRecentlyUsed(d)}

\* Mutant of Prefetch: the next cluster is read into a full cache, too.
PrefetchIntoFull(d, n, l) ==
  IF Holding(d, l) # {} THEN {d}
  ELSE {r.d : r \in Fill([d EXCEPT !.valid = @ + 1], n, l, d.valid + 1, {d})}

\* vfs_prefetch_next_cluster: only into a cache with room; a failure leaves
\* no trace.
Prefetch(d, n, l) ==
  IF d.valid = CacheClusters \/ Holding(d, l) # {} THEN {d}
  ELSE {r.d : r \in Fill([d EXCEPT !.valid = @ + 1], n, l, d.valid + 1, {d})}

--------------------------------------------------------------------------
(***************************************************************************)
(* The descriptor table.                                                   *)
(***************************************************************************)
\* fs_vfs_open.  Creating and truncating happen before a descriptor is
\* looked for.
Open(i, flags) ==
  LET n == inodes[i]
      new == ~n.used \/ {"truncate", "write"} \subseteq flags
      m == IF new THEN [NoFile EXCEPT !.used = TRUE] ELSE n
      closed == {f \in Fd : ~fds[f].open}
  IN  /\ Idle
      /\ n.used \/ "create" \in flags
      /\ "share" \in Careless \/ OpenOn(i) = {}
      /\ inodes' = [inodes EXCEPT ![i] = m]
      /\ \/ /\ closed = {}
            /\ ret' = Return("error")
            /\ UNCHANGED fds
         \/ /\ closed # {}
            /\ fds' = [fds EXCEPT ![First(closed)] =
                 [FreshFd EXCEPT !.open = TRUE, !.inode = i, !.flags = flags,
                                 !.pos = IF "append" \in flags THEN m.size ELSE 0,
                                 !.size = m.size, !.slot = fds[First(closed)].slot]]
            /\ ret' = Return("ok")
      /\ UNCHANGED call

\* fs_vfs_close: a descriptor that cannot be flushed stays open.  What a
\* closed descriptor holds is set again at open, except for its slots.
Close(f) ==
  LET d == fds[f]
      i == d.inode
  IN  /\ Idle
      /\ d.open
      /\ \E r \in FlushAll(d, inodes[i], Budget(i)) :
           \/ /\ r.ok
              /\ inodes' = [inodes EXCEPT ![i] = [r.n EXCEPT !.size = d.size]]
              /\ fds' = [fds EXCEPT ![f] = [FreshFd EXCEPT !.slot = r.d.slot]]
              /\ ret' = Return("ok")
           \/ /\ ~r.ok
              /\ inodes' = [inodes EXCEPT ![i] = r.n]
              /\ fds' = [fds EXCEPT ![f] = r.d]
              /\ ret' = Return("error")
      /\ UNCHANGED call

\* fs_vfs_seek to a position that is not negative.
Seek(f, p) ==
  LET d == fds[f]
      i == d.inode
  IN  /\ Idle
      /\ d.open
      /\ "seek_past_end" \in Careless \/ p <= d.size
      /\ \/ /\ d.pos \div ClusterWords = p \div ClusterWords
            /\ fds' = [fds EXCEPT ![f].pos = p]
            /\ ret' = Return("ok")
            /\ UNCHANGED inodes
         \/ /\ d.pos \div ClusterWords # p \div ClusterWords
            /\ \E r \in FlushAll(d, inodes[i], Budget(i)) :
                 /\ inodes' = [inodes EXCEPT ![i] = r.n]
                 /\ fds' = [fds EXCEPT ![f] =
                      IF r.ok THEN [r.d EXCEPT !.valid = 0, !.recent = <<>>, !.pos = p]
                              ELSE r.d]
                 /\ ret' = Return(IF r.ok THEN "ok" ELSE "error")
      /\ UNCHANGED call

\* Mutant of RemoveFile: open files are removed, too.
RemoveOpenFile(i) ==
  /\ Idle
  /\ inodes[i].used
  /\ inodes' = [inodes EXCEPT ![i] = NoFile]
  /\ ret' = Return("ok")
  /\ UNCHANGED <<fds, call>>

\* fs_vfs_remove of a regular file, once its path is resolved: the inode must
\* not be open.
RemoveFile(i) ==
  /\ Idle
  /\ inodes[i].used
  /\ OpenOn(i) = {}
  /\ inodes' = [inodes EXCEPT ![i] = NoFile]
  /\ ret' = Return("ok")
  /\ UNCHANGED <<fds, call>>

\* fs_vfs_destroy_context closes what is open, whether or not it can be
\* flushed, and frees the table.
StartDestroy ==
  /\ Idle
  /\ \E f \in Fd : fds[f].open
  /\ "destroy_dirty" \in Careless \/ \A f \in Fd : Dirty(fds[f], Slot) = {}
  /\ call' = [NoCall EXCEPT !.op = "destroy"]
  /\ ret' = Return("none")
  /\ UNCHANGED <<inodes, fds>>

DestroyRound ==
  LET opened == {f \in Fd : fds[f].open}
      f == First(opened)
      d == fds[f]
      i == d.inode
  IN  /\ call.op = "destroy"
      /\ \E r \in FlushAll(d, inodes[i], Budget(i)) :
           inodes' = [inodes EXCEPT ![i] =
                        IF r.ok THEN [r.n EXCEPT !.size = d.size] ELSE r.n]
      /\ \/ /\ opened = {f}
            /\ fds' = [g \in Fd |-> FreshFd]
            /\ call' = NoCall
            /\ ret' = Return("ok")
         \/ /\ opened # {f}
            /\ fds' = [fds EXCEPT ![f] = FreshFd]
            /\ UNCHANGED <<call, ret>>

--------------------------------------------------------------------------
(***************************************************************************)
(* Reading and writing.                                                    *)
(***************************************************************************)
\* fs_vfs_read of at least a word that is there.
StartRead(f, len) ==
  LET there == fds[f].size - fds[f].pos
  IN  /\ Idle
      /\ fds[f].open /\ "read" \in fds[f].flags
      /\ there > 0
      /\ call' = [op |-> "read", fd |-> f, word |-> 0,
                  left |-> IF len > there THEN there ELSE len]
      /\ ret' = Return("none")
      /\ UNCHANGED <<inodes, fds>>

StartWrite(f, len, w) ==
  /\ Idle
  /\ fds[f].open /\ "write" \in fds[f].flags
  /\ fds[f].pos + len <= MaxWords
  /\ w \in WordOf[fds[f].inode]
  /\ call' = [op |-> "write", fd |-> f, left |-> len, word |-> w]
  /\ ret' = Return("none")
  /\ UNCHANGED <<inodes, fds>>

\* Where the descriptor stands in its cluster, and how far a round goes.
Here(d) == d.pos \div ClusterWords
Offset(d) == d.pos % ClusterWords

\* Mutant of Chunk: the room left in a cluster is off by one.
ChunkTooShort(d) ==
  LET room == ClusterWords - Offset(d) - 1
  IN  IF room > call.left THEN call.left ELSE room

Chunk(d) ==
  LET room == ClusterWords - Offset(d)
  IN  IF room > call.left THEN call.left ELSE room

Proceed(c) == IF call.left = c THEN NoCall ELSE [call EXCEPT !.left = @ - c]
Status(c) == IF call.left = c THEN "ok" ELSE "none"

\* A round of fs_vfs_read: a load that fails ends the call with what has been
\* delivered so far, and with success.
ReadRound ==
  LET f == call.fd
      d == fds[f]
      i == d.inode
      c == Chunk(d)
  IN  /\ call.op = "read"
      /\ \E r \in Load(d, inodes[i], Budget(i), Here(d)) :
           /\ inodes' = [inodes EXCEPT ![i] = r.n]
           /\ \/ /\ ~r.ok
                 /\ fds' = [fds EXCEPT ![f] = r.d]
                 /\ call' = NoCall
                 /\ ret' = [Return("ok") EXCEPT !.missing = call.left]
              \/ /\ r.ok
                 /\ \E e \in Prefetch([r.d EXCEPT !.pos = @ + c], r.n, Here(d) + 1) :
                      fds' = [fds EXCEPT ![f] = e]
                 /\ call' = Proceed(c)
                 /\ ret' = [status |-> Status(c), missing |-> 0,
                            data |-> SubSeq(r.d.slot[r.s].words,
                                            Offset(d) + 1, Offset(d) + c)]

\* Mutant of Written: the slot is not marked dirty.
WrittenUnmarked(d, s, c) ==
  LET end == d.pos + c
  IN  [d EXCEPT !.pos = end,
                !.size = IF end > d.size THEN end ELSE d.size,
                !.slot[s].words = [o \in At |->
                   IF Offset(d) < o /\ o <= Offset(d) + c THEN call.word ELSE @[o]]]

\* The descriptor after a round of writing into slot s.
Written(d, s, c) ==
  LET end == d.pos + c
  IN  [d EXCEPT !.pos = end,
                !.size = IF end > d.size THEN end ELSE d.size,
                !.slot[s].dirty = TRUE,
                !.slot[s].words = [o \in At |->
                   IF Offset(d) < o /\ o <= Offset(d) + c THEN call.word ELSE @[o]]]

\* A round of fs_vfs_write.  A file that grows tells the inode its size at
\* once; a cluster that is full goes to disk at once.
WriteRound ==
  LET f == call.fd
      d == fds[f]
      i == d.inode
      c == Chunk(d)
  IN  /\ call.op = "write"
      /\ \E r \in Load(d, inodes[i], Budget(i), Here(d)) :
           \/ /\ ~r.ok
              /\ inodes' = [inodes EXCEPT ![i] = r.n]
              /\ fds' = [fds EXCEPT ![f] = r.d]
              /\ call' = NoCall
              /\ ret' = Return("error")
           \/ /\ r.ok
              /\ LET e == Written(r.d, r.s, c)
                     m == IF e.size > d.size THEN [r.n EXCEPT !.size = e.size] ELSE r.n
                     full == e.pos % ClusterWords = 0
                 IN  \E q \in IF full THEN FlushSlot(e, m, Budget(i), r.s)
                              ELSE {[ok |-> TRUE, d |-> e, n |-> m]} :
                       /\ inodes' = [inodes EXCEPT ![i] = q.n]
                       /\ fds' = [fds EXCEPT ![f] = q.d]
                       /\ call' = IF q.ok THEN Proceed(c) ELSE NoCall
                       /\ ret' = Return(IF q.ok THEN Status(c) ELSE "error")

--------------------------------------------------------------------------
\* fs_vfs_create_context on a disk without files.
Init ==
  /\ inodes = [i \in Inode |-> NoFile]
  /\ fds = [f \in Fd |-> FreshFd]
  /\ call = NoCall
  /\ ret = Return("ok")

Round == ReadRound \/ WriteRound \/ DestroyRound

Next ==
  \/ Round
  \/ StartDestroy
  \/ \E i \in Inode : RemoveFile(i) \/ \E flags \in OpenFlags : Open(i, flags)
  \/ \E f \in Fd :
       \/ Close(f)
       \/ \E p \in 0 .. MaxWords : Seek(f, p)
       \/ \E len \in Length :
            StartRead(f, len) \/ \E w \in WordOf[fds[f].inode] : StartWrite(f, len, w)

Spec == Init /\ [][Next]_vars

\* The program is sequential: a call that has started keeps running.
FairSpec == Spec /\ WF_vars(Round)

--------------------------------------------------------------------------
(***************************************************************************)
(* Properties.                                                             *)
(***************************************************************************)
AllWords == {0} \cup UNION {WordOf[i] : i \in Inode}
Block == [At -> AllWords]

ASSUME HoleAssumption == Hole \notin Block

\* Type correctness of the state: the cache never has more valid slots than
\* there are, and the time stamps order those that were used.
TypeOK ==
  /\ inodes \in [Inode -> [used : BOOLEAN, size : 0 .. MaxWords,
                           blocks : [Logical -> Block \cup {Hole}]]]
  /\ \A f \in Fd :
       /\ fds[f].inode \in Inode
       /\ {fds[f].pos, fds[f].size} \subseteq 0 .. MaxWords
       /\ fds[f].valid \in 0 .. CacheClusters
       /\ fds[f].slot \in [Slot -> [index : Logical, words : Block, dirty : BOOLEAN]]
       /\ ToSet(fds[f].recent) \subseteq 1 .. fds[f].valid
       /\ IsInjective(fds[f].recent)
  /\ call.op \in {"none", "read", "write", "destroy"}
  /\ call.fd \in Fd /\ call.left \in Nat /\ call.word \in AllWords
  /\ ret.status \in {"none", "ok", "error"}

\* An open descriptor refers to an inode that is used and was not removed and
\* taken again since; what a descriptor has not written back yet is in a
\* valid slot, where the next flush finds it.
NothingToFlushAstray ==
  \A f \in Fd :
    /\ fds[f].open => inodes[fds[f].inode].used
    /\ \A s \in Slot :
         fds[f].slot[s].dirty => fds[f].open /\ s <= fds[f].valid

\* Words a write call has accepted leave the cache of their descriptor only
\* for the disk: a seek, an eviction, a close or the end of a call may fail,
\* but never forgets them.  Destroying the table is the one exception.
AcceptedWordsSurvive ==
  [][call.op # "destroy" =>
       \A f \in Fd, s \in Slot :
         fds[f].slot[s].dirty =>
           LET l == fds[f].slot[s].index
               disk == inodes'[fds[f].inode].blocks[l]
           IN  \/ disk = fds[f].slot[s].words
               \/ \E t \in 1 .. fds'[f].valid :
                    /\ fds'[f].slot[t].index = l
                    /\ fds'[f].slot[t].dirty \/ fds'[f].slot[t].words = disk]_vars

\* A descriptor, and the disk, show of a file only words that were written
\* to it: what a test says of a read after a write (tests/vfs/test_vfs.c:
\* 70-72, "read data should match written data").
NoForeignWords ==
  /\ \A i \in Inode, l \in Logical :
       inodes[i].blocks[l] # Hole =>
         \A o \in At : inodes[i].blocks[l][o] \in {0} \cup WordOf[i]
  /\ \A f \in Fd : fds[f].open =>
       \A o \in DOMAIN ret.data : call.op = "read" /\ call.fd = f =>
         ret.data[o] \in {0} \cup WordOf[fds[f].inode]
  /\ \A f \in Fd : fds[f].open =>
       \A s \in 1 .. fds[f].valid, o \in At :
         fds[f].slot[s].words[o] \in {0} \cup WordOf[fds[f].inode]

\* A read, a write or the destruction of the table comes to an end: every
\* round delivers or stores something, closes something, or gives up.
CallEnds == ~Idle ~> Idle
==========================================================================
