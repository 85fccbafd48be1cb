# Formal model of simple-file-system

This directory models a small file system that lives in one host file, and the
command line that works on it, in TLA+.  TLC checks the modules on small
instances.  For every size of disk, cache, file and history TLAPS proves that the
allocator is safe and keeps files apart as an abstract file store does, that
reads through descriptors and caches deliver what was written, that a disk shows
what was promised through unmounts, failed writes and crashes, and that the
shell's line and histories stay whole.

Paths below are relative to the repository; a line such as `alloc.c:517` is in
the file of that name.

## 1. The system

A disk is an array of 4096-byte clusters.  Cluster 0 holds the superblock,
cluster 1 and the following ones the bitmap of used clusters, clusters 2 to 22
the table of 1024 inodes; the rest is data.  Everything runs in one thread.
What interleaves is the sequence of calls, several descriptors and caches on
one inode, and failures: a full disk, an unreadable or unwritable cluster, a
program that is killed between two writes.

| Component | Files | State | Operations | Correct if |
|---|---|---|---|---|
| Disk | `storage/disk.c` | the host file | read, write a cluster, flush | accesses stay on the disk |
| Superblock, format, mount | `storage/superblock.c`, `format.c`, `cli/src/context.c` | superblock; the contexts of a mounted disk | format, mount, unmount | what was finished is there after the next mount |
| Bitmap | `alloc/bitmap.c` | one bit per cluster | first free, mark, count, serialise | agrees with the pointers of the inodes |
| Inode index | `metadata/index.c` | inode array, dirty flag | load, read, write, allocate, free, flush | no change is lost at unmount |
| Allocator | `alloc/alloc.c` | none: an inode copy, the bitmap, the disk | resolve, read, write, truncate | every cluster has one owner; files do not disturb each other |
| Directories | `logical/dir.c` | sorted entries in the clusters of a directory | insert, remove, find, update, create | names lead to inodes in use |
| Descriptors and cache | `vfs/context.c`, `cache.c`, `io.c` | 64 descriptors with position, size and 4 cached clusters | open, read, write, seek, close | reads return what was written |
| Paths | `vfs/path.c`, `cli/src/utils.c` | none | resolve through symlinks; normalise | both agree on what a path means |
| Namespace | `vfs/operations.c` | none of its own | remove, rename, mkdir, rmdir, symlink | the names form a tree and nothing falls out of it |
| Defragmentation | `cli/src/commands/defrag_command.c` | none | move files to contiguous clusters, sync | contents unchanged, no cluster lost |
| File commands | `directory_commands.c`, `file_basic_commands.c`, `file_compress_commands.c` | none | cp, mv, rm, rmdir, mkdir, touch, echo, import, compress | whole trees are copied, moved, removed |
| Compression | `file_compress_commands.c` | none | Huffman compress, decompress | decompressing gives the file back |
| Shell | `cli/src/core/*.c`, `utils.c` | line, two histories, level | edit, recall, tokenise, dispatch | no letter is lost, recall starts at the newest line |

The calls go downwards: commands use paths, descriptors and namespace
operations; those use directories and the cache; both use the allocator, which
uses bitmap and disk.  All of them read and write inodes in the index.  File
and directory contents go to disk at once (or when the cache of a descriptor is
flushed); bitmap and index stay in memory until unmount or defragmentation.

What is hard here, and hard to test:

- an operation is a chain of changes, and a failure in the middle leaves what
  the earlier ones did: allocation, the pointer blocks above a cluster,
  directory clusters, the two entries of a rename, the two flushes of unmount;
- caches and inode copies: a descriptor has its own size and its own clusters,
  and an operation works on a copy of the inode which it may drop;
- the disk is full, the directory needs one more cluster, the bitmap one more
  byte;
- the program is killed while memory is ahead of the disk;
- a command is many calls, looks at the tree again before each of them, and
  changes the tree that it walks.

`PROJECT.json` lists these hazards at the lines where they bite, each with the
properties that would notice, or with the reason why none does.

## 2. The modules

| Module | Models | Abstract specification |
|---|---|---|
| `Alloc` | allocator, bitmap, index | `FileStore`, through `AllocFiles` |
| `AllocProofs` | proofs about `Alloc`: its safety, that nothing is lost, its refinement of `FileStore` | |
| `Defrag` | defragmentation, over `Alloc` | `FileStore` |
| `DefragProofs` | proofs about `Defrag`: the same three | |
| `VfsIo` | descriptor table and cache | `WordFiles`, through `VfsFiles` |
| `VfsProofs` | proofs about `VfsIo`: its safety, its refinement of `WordFiles` | |
| `Directories`, `Paths` | operators: directories over the inode table; paths | |
| `Namespace` | the calls that change the tree | `NameTree`, through `NameTrees` |
| `NamespaceProofs` | proofs about `Namespace` | |
| `Commands` | commands of several calls, over `Namespace` | `NameTree` |
| `CommandsProofs` | proofs about `Commands`, `Paths` and `NameTrees` | |
| `Volume` | format, mount, unmount, defragmentation, crashes | |
| `VolumeProofs` | proofs about `Volume` | |
| `Huffman` | operators: the compression | |
| `Shell` | line editor, histories, tokenizer, dispatch | |
| `ShellProofs` | proofs about `Shell` | |
| `Extremes` | lemmas on the least and greatest of a set of numbers | |
| `MCAlloc`, `MCDefrag`, `MCVfsIo`, `MCNamespace`, `MCVolume`, `MCTexts` | instances for TLC | |

Each layer abstracts the one below it to what it promises: `Alloc` is shown to
implement `FileStore`, and `VfsIo` has that promise as its allocator; `Namespace`
sees of a cluster only that it is one; `Volume` has files of one cluster.
`Defrag` and `Commands` extend the module whose state they change and add their
actions to its own.

### Alloc

State: `used` (the bitmap), `disk`, `index` (kind and pointers of every inode),
`call` and `at` (a write in progress: its inode copy, and the cursor of its
walk), `ret`.  `level` is a history variable: the height (0 for data, 1 to 3 for
pointer blocks) a cluster was last allocated for.

`fs_alloc_resolve_cluster` has four copies of one loop, for direct, single,
double and triple indirect clusters.  Here they are one walk: `AllocateRoot` and
`AllocateInBlock` take, zero and link a missing target, `Descend` follows a
present one, `WriteChunk` merges and stores the data, `Commit` writes the inode
copy to the index, `NoSpace`, `IoError` and `LosePointer` are the exits.
`Truncate`, `Remove`, `RemoveDirectory`, `Create` and `BeginSymlink` are what the
layers above do with it.  `free_indirect_blocks` is `Freed`, with a set of blocks
that cannot be read; what lies below them is skipped as in the code.

### Defrag

Adds to `Alloc` the `size` and `cluster_count` of the inodes (`size`, `count`),
which only defragmentation relies on, and `todo`, the files it has yet to visit.
`BeginWrite` and `CommitWrite` are the steps of `Alloc` with what `io.c` and
`alloc.c:557` do to the two numbers.

Processing one inode is one step, as nothing else runs, and has one action for
each way it ends: `Leave` (nothing to do, no run, a block cannot be read),
`StopCopying` (a cluster cannot be copied, the run is given back), `LoseBlocks`
(the pointer blocks cannot be completed, the run is given back and they are not)
and `Move`.  The four loops that fill the pointer blocks
(`defrag_command.c:60-236`) are one function from a block, named by its height
and the first cluster below it, to its words; `Place` is the order in which the
code allocates the blocks, each at the lowest free cluster.  When the old file
is truncated some of its blocks may be unreadable (`bad`), as in `Alloc`.

### VfsIo

State: `inodes` (size and clusters), `fds`, `call`, `ret`.  A descriptor has its
flags, position, size, and slots with index, words and dirty bit; `recent` is the
order of the time stamps.  A slot keeps its content when it becomes invalid, as
the buffers of the code do, and a load that fails counts its slot as valid
first (`cache.c:134-138`).  The counter of the stamps starts again at open
(`context.c:173`) and the stamps stay, so that such a slot may count as the oldest
or the newest for as long as it is not used: `recent` does not list it, and
`LeastRecentlyUsed` may choose it at any time.  Every round of `fs_vfs_read`, `fs_vfs_write` and
`fs_vfs_destroy_context` is a step; flushing is an operator that returns every
outcome, a failure at any of the dirty slots included.

What programs may do is a parameter, `Careless`: to open an inode twice
("share"), to seek past the end, to destroy the table while something is
dirty.

### Directories, Paths, Namespace

`fs` is a record of the inode table and the number of free clusters.  Operators
return sets of outcomes, one for each place where the code may stop.  Saving a
directory (`dir.c:137-190`) writes the new list over the old one cluster by
cluster, so that `StopsAt` says after how many clusters it stopped and
`Overwritten` what a reader then finds.  Entries have one length, which divides
a cluster into `PerCluster`; names are numbers in the order of `strcmp`, "."
and ".." being the smallest.  Contents of files are left out.

`Paths` has both readings of a path: `vfs_resolve_path`, with its treatment of
".." in the text and its substitution of links, which drops what follows the
link; and the normalisation of the command line.  `Namespace` has one action per
call; `Careless` names what programs do not refrain from: moving a directory
into itself, moving onto a name that is taken, making a directory that is there.
The command line tests for the first and the last
(`file_basic_commands.c:742`, `directory_commands.c:317`), but not for the second.

### Commands

Adds `work`, the list of tasks of the command that runs.  A command puts its
first tasks there, and each task is one change at most: make a directory, store
a file, link, move, drop an entry.  A `copy` finds out what its source is and
puts the tasks for it in front, a `list` one `copy` for each entry the
directory has at that moment, so that a copy that grows below its own source
meets itself as in `recursive_copy_entry`.  A task that fails ends the command
as `GiveUp`, in whatever state that is, except where the code ignores the status:
rmdir goes on after each failure, and a close that cannot write the last
clusters (`file_basic_commands.c:292`) leaves a file that is too short.

Of the content only the number of clusters is kept: import stores two, or finds
no file on the host; compress and decompress store one or two.  `MayCopy` and
`MayMove` are what users refrain from unless `Careless` says otherwise: to copy
below something that is no directory, and to move onto a name that is taken.

### Volume

State: `disk` (typed clusters), `mem` (what the mounted contexts hold), `task`
and `todo` (the cluster writes of a format, an unmount or a defragmentation that
are still to come), `left` (the names that a defragmentation has yet to visit),
`failed`.  `promise`, `touched` and `shaken` are history: what
the last completed call made of each name; the names changed since memory and
disk last agreed; whether they parted at a crash or failure.

`Format` puts the writes of `fs_format_initialize_disk` into `todo` in their
order, `Unmount` those of the index, if dirty, and of the bitmap.  `Defrag` lists the
root directory; `Visit` leaves a file where it is or moves it with `Relocate`, which
frees the old cluster at once, so that a crash may come between two files; and
`Sync` puts the same writes in the order of `cli_command_defrag`.
`Write` does the next one, `WriteFails` drops what the code then skips, `Crash`
drops everything.  `Mount` reads all, `MountWithoutBitmap` and `MountWithoutIndex`
are its two failures, whose cleanup writes the bitmap back (`context.c:153-155`).
A cluster looked up in the wrong place is read for what it is: bits of a bitmap
are no inodes.

### Huffman

`Compress` and `Decompress` are the two pipelines of `file_compress_commands.c`:
frequencies, the tree by repeated `FindMinimum`, the depth of each leaf as the
length of its code, codes made from the lengths, whole bytes; and back from the
lengths and bytes alone, bit by bit, as `DecodeSymbol` does.  A symbol below
`MaxCodeLength` gets no code and is left out, as in the code.

### Shell

State: the `line` with its `cursor`, the line `saved` when the history was first
looked at, the `history` of each level (manager, disk) with its browse index, the
`level`, `running`.  There is one action for each key that changes the line, for
pastes, and for the three ways a line ends: Enter, Ctrl-D on an empty line, which
runs "exit" without resetting the index, and Ctrl-C, which leaves the shell with
the disk still mounted (`shell.c:142`).  `TokenizeLine` is `cli_utils_tokenize_line`.
What commands do to files is in the other modules; here they change the level.

`MCTexts` puts `Shell`, `Paths` and `Huffman` side by side: its state is a shell in
use, or a text which is at once a command line, a path and something to
compress.

## 3. What the runs show

Twelve runs.  Deadlock is checked in all but `texts`, where a shell that was left
and a text of full length stop.

| Run | Instance | Shows |
|---|---|---|
| `alloc_faults` | 2 files, 5 clusters, trees of height 1, any access may fail | `PointersSound`, `SingleOwner`, `CursorSound`, `ImplementsFileStore`, `CallReturns` |
| `alloc_deep` | 7 clusters, double and triple indirect trees, no faults | `SingleOwner`, `ImplementsFileStore`, `SuccessLosesNothing` |
| `alloc_defrag` | 1 file of up to 4 clusters and 3 pointer blocks, 14 clusters, any access of defrag may fail | `PointersSound`, `SingleOwner`, `CountCoversFile`, `ImplementsFileStore`, `LossesAccounted` |
| `vfs_two_files` | 2 files through one descriptor, 2 cached clusters, a disk of 3, all modes | `ImplementsWordFiles`, `NoForeignWords` |
| `vfs_shared` | 2 descriptors on 1 file, holes, faults, every carelessness | `NothingToFlushAstray`, `AcceptedWordsSurvive`, `CallEnds` |
| `ns_tree` | 4 inodes and 2 clusters besides the root, 3 paths, nine commands, careful users | `DotDotIsParent`, `NothingLost`, `CopyComplete`, `ImplementsNameTree`, `CommandEnds` |
| `ns_careless` | paths with "..", links, failing writes, careless programs, six commands | `NoDanglingEntries`, `OneName`, `OpenFilesStay`, `SpaceNeverInvented` |
| `volume_life` | 3 sizes of disk, 2 names, reads and writes fail, crashes | `PromisesKept`, `MetadataAgree` |
| `texts` | shells with lines of 2 keys, texts of up to 6 symbols | `LineInBuffer`, `BehindNewest`, `OnlyOldestForgotten`, `WordsArrive`, `NormalFormsAgree`, `Lossless`, `FitsTheBuffer` |
| `ns_moved` | a link to a directory | a violation of `NoCycle` |
| `ns_overflow` | a directory that needs a second cluster on a full disk | a violation of `NoDanglingEntries` |
| `volume_large` | a bitmap of 2 clusters | a violation of `PromisesKept` |

The type invariants of `Alloc`, `VfsIo`, `Namespace` and `Volume` are invariants of
the first run of each; `LineInBuffer` is the one of `Shell`.

**Bounds.**  `DirectPointers = 1` and `PointersPerCluster = 2` put the boundaries
between the four kinds of pointers at logical clusters 1, 3 and 7, so that the
extents of `ShallowRequests` and `DeepRequests` cross them and a second slot in
each block is used; the disks are one or two clusters too small for what is
asked, so that calls fail at every depth.  `OneWordEach` lets a file have any of
the clusters 0 to 3, the last below a double indirect block; 14 clusters hold
such a file twice, so that it can be moved, and still can run out when some are
lost.  `FewLost` ends the search where three clusters are lost, and `InUse` leaves
out of the state what free clusters hold, since whoever allocates one writes
all of it first.  One file is enough for defragmentation: it looks at one file at
a time, and other files are to it clusters that are not free.

The caches have fewer slots than the files have clusters, so that every access
may evict; a cluster of two words tells a partial write from a whole one.  A
directory with two entries besides "." and ".." fills its cluster, or overflows
it.  In `ns_tree` the tree has at most the root and four objects, so that a copy
of a directory with something in it fits, and a copy into itself runs out of
inodes or, with 2 clusters, of space.  `ShortEnough` bounds the length of the
target of a link, which grows when the link is moved.  In `Volume` one table
cluster holds the root and the other the files, the disks have room for no file
cluster, one or two, and a session has no bound on its length.

In `texts` a line has room for two keys and the zero, a history for two lines of
one key, and a paste is longer than the rest of the line.  Texts of six symbols
over an alphabet of four have all shapes of trees up to depth 3; `Cut2` cuts codes
at two bits, where the code cuts at 16.  A tokenizer of at most three words meets
more.

**Fairness.**  Safety runs need none.  `CallReturns`, `CallEnds` and `CommandEnds`
assume that a call or command in progress goes on, and nothing else: the program
is sequential, and what has started is the only thing that runs.  In `Alloc` and
`VfsIo` this is weak fairness of the steps of a call.  In `Commands` it is `GoesOn`,
the meaning of weak fairness of `Continue` written out, which TLC evaluates faster,
as `Continue` is enabled exactly while there is work; deadlock checking shows that
it is.  No fairness says that a caller calls.

**Carefulness.**  `ns_tree` and `vfs_two_files` assume a careful user, since the
tree does fall apart otherwise (a directory moved into itself, a file moved onto
a name that is taken) and two descriptors of one file see each other's words only
by chance.  The other two runs check what holds whatever programs do.  `ns_tree`
also has no write faults and directories of one cluster: a rename whose insertion
fails has lost its old name (`operations.c:343`), and a mkdir whose insertion
fails keeps its inode (`operations.c:398`).  `ns_careless` leaves out rmdir, which
through a link frees a directory that keeps its name (see below).

**After a crash.**  The code has no recovery, and states no promise.  What
`PromisesKept` says is what can be relied on all the same: the next mount shows
every name that was not changed since memory and disk last agreed, at a clean
unmount or at the end of a defragmentation, as it was.  A file that is being
moved by defragmentation is such a change, as its old cluster may already belong
to another.  Work after such a mount may hit clusters the bitmap wrongly calls
free, so nothing is promised after it until the disk is formatted again; the
model stops there (guard `Working`).  A crash is that of the program: writes it
has made are on the disk, in order.  Ctrl-C in the shell is such a crash.

### Disagreements between the code and what it says of itself

Each of these was also seen by running the code.

- `volume_large`: the inode table starts at cluster 2 whatever the size of the
  bitmap (`superblock.c:15`).  Above 32768 clusters (128 MiB) the second cluster
  of the bitmap lies on the first one of the table, and a fresh disk has no root.
- `ns_moved`: mv compares texts (`file_basic_commands.c:742`), so that a
  directory can be moved into itself through a link, and is lost with all below.
- `ns_overflow`: when a directory cannot get the cluster it needs, its first
  clusters are already rewritten (`dir.c:168`): the new name stays and leads to a
  freed inode, and the last old one is gone.

### Where a property stops short of what one may expect

The following was met while modelling.  The models behave like this, or are kept
away from it by a condition that the property or the instance names.

- `NoForeignWords` holds while an inode is open once.  With two descriptors on a
  new file a failed load leaves a slot valid with the cluster of another file
  (`cache.c:138`), and the read delivers it.
- `OpenFilesStay` holds in `ns_careless`, whose links have no ".." to begin with, and
  in general while no write fails (`OpenFilesAlwaysStay`).  With failing writes it
  does not: mkdir /a and /b, a link /c to /a/.., and a move of /a to /b/a that
  fails to take the old entry out leave /a with /b as its ".."
  (`operations.c:220`); after rmdir /b, which is empty, opening /c opens the freed
  inode of /b.  TLC finds this in six steps with three names and four inodes.
- `DotDotIsParent` is for paths that end in a name, on a disk that writes: rename of
  "/a/." changes ".." of what "." leads to, before it fails.
- `NormalFormsAgree` excludes ".." directly after "." or "..": in "/a/./.." and
  "/a/b/../.." the last ".." takes back an empty component (`path.c:67`), while cd
  shows the normal form.
- `NothingLost` is for users that do not move onto a name that is taken.  mv does
  not look (`file_basic_commands.c:759`): the rename removes the old entry, cannot
  insert the new one, and the object has no name any more (`operations.c:343`).
  `MayCopy` is similar: cp to a place below a regular file leaves the inode and
  the cluster of a directory it could not enter (`operations.c:398`).
- `CopyComplete` is about names.  cp, echo and import ignore the status of close
  (`file_basic_commands.c:292`), so that on a full disk a file is too short although
  success is reported; cp of a file onto itself leaves a file of the same length
  full of zeros, as the destination is truncated when the source is open already.
- `Lossless` excludes codes that are too long.  Codes below 16 levels are dropped
  (`file_compress_commands.c:161`): a text of 18 symbols and 5777 bytes whose
  frequencies are Fibonacci numbers is compressed with success and cannot be
  decompressed.
- rmdir of a link to an empty directory frees that directory and removes the entry
  of the link: the name of the directory then leads to a free inode
  (`directory_commands.c:435-465`).
- A write that fails keeps the clusters it took (`alloc.c:517`); rmdir frees the
  inode without its cluster (`operations.c:459`); a link in the middle of a path
  drops the rest of it (`path.c:222`); open truncates before it finds that no
  descriptor is free (`context.c:158`); seek cuts a position at 2^32
  (`context.c:304`); a mount that cannot read the bitmap writes an empty one.

## 4. What is proved

The theorems hold for every value of the constants that the named assumptions
allow.  Each rests on an inductive invariant: the property together with what
it takes to carry it over a step.  TLC checked each of these invariants on small
instances before it was proved.  A proof has a lemma for each action, and under
it one for each part of the invariant that the action may disturb.

| Module | Theorems |
|---|---|
| `AllocProofs` | `InvariantHolds`, `TypeCorrect`, `PointersAlwaysSound`, `ClustersHaveOneOwner`, `CursorAlwaysSound`; `SuccessIsLossless`; `ImplementsAbstraction` |
| `DefragProofs` | `DefragInvariant`, `DefragPointersSound`, `DefragSingleOwner`; `DefragCountCovers`, `DefragImplementsFileStore`; `DefragAccounted` |
| `VfsProofs` | `VfsInvariant`, `VfsTypes`, `NothingAstray`, `WordsSurvive`; `OnlyOwnWords`, `FilesAreWords` |
| `NamespaceProofs` | `NamespaceInvariant`, `NamespaceTypes`, `SpaceAlwaysAccounted`; `NamesStayTidy`, `NamesLeadToUsed`, `NamesStayApart`; `TreeStaysUpright`, `DotDotLeadsToParent`, `OpenFilesAlwaysStay` |
| `CommandsProofs` | `CommandsInvariant`, `CommandsTypes`, `CommandsAccounted`; `CommandsStayTidy`, `CommandsLeadToUsed`, `CommandsKeepNamesApart`; `CommandsStayUpright`, `CommandsKeepDotDot`, `CommandsKeepOpenFiles`; `NormalFormsMeet`; `NamesStayConnected`, `NothingIsLost`, `ImplementsTree`; `CommandsStayConnected`, `CommandsLoseNothing`, `CommandsKeepTree`, `CommandsImplementTree` |
| `VolumeProofs` | `VolumeInvariant`, `VolumeTypes`, `PromisesAlwaysKept`, `MetadataAlwaysAgree` |
| `ShellProofs` | `ShellInvariant`, `LineAlwaysInBuffer`, `AlwaysBehindNewest`, `OnlyTheOldestIsForgotten` |

`Extremes` has what the others need of minima and maxima.

### The allocator

`IInv` is `TypeOK /\ PointersSound /\ SingleOwner /\ CursorSound`.  None of them is
inductive alone.  `PointersSound` speaks of the heights of clusters, which a
freed and reused cluster keeps only because `SingleOwner` says that no second
pointer leads to it; `SingleOwner` survives an allocation because the new
cluster is not `used` while every pointer leads to a used one
(`PointersSound`); and both need `CursorSound`, since the walk writes a pointer
into the block where its cursor stands, which must still be a live block of the
right height.  `Freed1Owned` and its successors say that everything truncation
frees was owned by something freed with it, so that no pointer is left to it.

`ImplementsAbstraction` is the refinement of `FileStore`: `Init` maps to its initial
states, and each step to one of its steps or to none.  The index shows what is
committed, while the walk of a write works on a copy of the inode whose blocks
it shares with the committed one.  `CopySound` is about that copy: the cursor
stands on the way to the cluster that is being written (`CursorOnWay`); what hangs
below the pointers that only the copy has holds zeros and words of the call, in
their places (`NewWordsOwn`); and what was written so far can be read through the
copy (`DoneWordsStored`).  `IInv` then gives that a step changes the words of no
other file, since the two ways to a cluster would be two owners.

`SuccessIsLossless` compares two states: a step that reports success leaves no
cluster behind that is used and that no inode leads to any more.  A walk keeps what it takes
below the pointers of the inode copy, which count while the call runs
(`LiveRoot`).  Truncation is the hard case: `FreedAll` says that it frees everything
`Reachable` from the inode, and `NothingLeft` that nothing else is cut off.  Next to `IInv` this needs
`UnusedEmpty`: an inode that is free has no pointers that a new file would drop.

Assumptions: `SizesAssumption` (there is at least one metadata cluster, one
direct pointer and one pointer in a block), `InputAssumption` (callers write
natural numbers, which may look like pointers), `CapacityAssumption` (no
request reaches past the triple indirect block, which a 32-bit size cannot);
`FilesAssumption` (the abstract hole is no content).

### Defragmentation

`DefragNext` is `Next` of `Alloc`, with the sizes and cluster counts of its inodes,
and the move of one file.  `DInv` is `IInv` and `SizesSound`: the count that the
code computes from the size (`alloc.c:557`) is one that the tree of the inode can
hold.  The move is one step, so the proof is about the tree that it builds.  Its
blocks are named by their height and the first logical cluster below them;
`PlaceUnique`, `ChildUnique` and `RootUnique` say that two such names are two
clusters of the free run, and `TargetUnique` that no two pointers of the new tree
lead to the same cluster.  What is freed was owned by the file that is moved, what
is taken was free, and the rest of the disk is as it was: `MoveStep` gives
`PointersSound` and `SingleOwner`, for every height and for a file of any size.

`FInv` adds `CopySound` of the refinement, `CoverSound` (what the index shows of a
file lies below its count, or the write in progress put it there) and
`FilesToVisit`.  `NewWalk` says that a reader finds in the new tree, cluster by
cluster, the words it found in the old one; hence `DefragImplementsFileStore`: to
the reader of a file, defragmentation is no step at all.  Both are proved under
`OneClusterWrites`: the disk does not fail a write to a file, and none crosses a
cluster, as the cache writes (`cache.c:70`); TLC evaluates this on the run's constants
as `SmallWrites`.  The accesses of the command itself may fail, and it may stop at
any file.  Without it they are false.  A write of several clusters that runs out
of space has linked blocks for clusters behind the size, which is not raised then;
the move leaves these out, and frees the blocks.

`LInv` is `DInv` and `UnusedEmpty`.  It gives `DefragAccounted`, again for a disk that
does not fail a write to a file: the old place of a file is freed whole (`FreedAll`),
and what is taken for the new one can be reached from the inode (`NewReached`), so
that clusters get lost only in the ways the property names, and when a move is given
up for want of space, no more than the blocks of that file.

Assumptions: those of `Alloc`, and `DefragAssumption`.

### Descriptors and cache

`IInv` of `VfsProofs` says that the time stamps of a cache give a valid slot at
most one place, that a dirty slot is valid and comes before any other slot of its
cluster, that the inode of an open descriptor is in use, that a closed
descriptor has nothing dirty, and that a call in progress has an open
descriptor and room for the rest.  The order of the slots matters: a load that
fails leaves its slot valid with whatever index it had (`cache.c:134-138`), so that
a cluster may be in two slots, of which a lookup finds the first.  These theorems
ask nothing of programs and disk.

`OnlyOwnWords` and `FilesAreWords` are about programs that open a file once and
seek inside it, and about a disk that may be full but does not fail (`Careful`).
Otherwise they are false: see section 3.  They rest on `Tidy`, on top of `IInv`.  Its
part `Cached` says that descriptor and inode agree on the size, that a cluster is
in one slot at most, that a clean slot shows what is on the disk, and that a
cluster that is not on the disk is in a dirty slot.  `FilesAreWords` needs two
further parts.  On a full disk a dirty slot cannot be written back, so that a
read that has to evict it would fail; `Readily` says that this does not happen,
because either every dirty slot has its cluster on the disk already, or all the
clusters that the descriptor may still read are in the cache.  And
`WithinCapacity` says that clusters that are counted as taken are those the
inodes have, so that a disk which is full for one file is full for all.

Assumptions: `SizesAssumption`, `FlagsAssumption`, `HoleAssumption` and
`AbsentAssumption` (the marks for a hole and for no file are no contents).

### The tree of names

`NamespaceProofs` has three layers, each with its hypothesis.

1. `IInv`, without any: the table has its form, no name but "." and ".." leads to
   the root, and the free clusters and those of the inodes add up to no more than
   there were.  The sum of a function over the inodes (`Held`) is shown to change
   with one of its values by the difference.
2. `Tidy`, under `OneClusterDirectories` (all names fit in one cluster of entries):
   no list has a name twice, every name leads to an inode in use, and no two names
   lead to the same.  The hypothesis makes a save all or nothing
   (`AllOrNothing`); with directories of several clusters the statement is false,
   as `ns_overflow` shows.  Programs may do what they like and writes may fail.
   Insertion and removal are shown to keep the other entries (`DistinctInserted`,
   `DistinctRemoved`), and `Reachable`, which is defined by recursion, to be the least
   set with the root in it that no name leads out of (`ReachableLeast`).
3. `Kept`, under `Undisturbed` (moreover no write fails, and programs give paths
   that end in a name): `Form` says that only directories have entries, and have a
   cluster for them; `Parents`, that "." and ".." of whatever has a name lead to it and
   to where the name is; and `OpenFilesStay`.  `Parents(f, x)` leaves out the one
   directory that is being moved, whose ".." is ahead of its name.  A move may still
   fail, for a full disk or a taken name: then the directory has no name at all.  The
   two properties need each other: an open finds an inode in use because the walk
   of a path, which may go through the ".." of links, never leaves `Reachable`
   (`ReachableClosed`, `WalkStays`), and a write keeps directories as they are
   because what is open is a file.

The theorems of this module are about `Spec`, the calls in any order.  Sums, walks and
`Reachable` are functions defined by recursion; what is said of them is proved by
minimal counterexample, with the least element of a set of numbers
(`Extremes!LeastNatural`).

Assumptions: `DirectoriesAssumption`, `PathsAssumption`, `NamespaceAssumption`.

### Commands

A command is a list of tasks, each of which is one call with what surrounds it,
and looks at the tree anew.  `CInv` adds to `IInv` that the list is one of tasks
whose paths are proper: they end in a name, or as one of the given paths does
(`ProperPath`), and their inodes are not the root.  Tasks make tasks: cp lists a
directory and goes into every entry, mkdir -p makes the parents first.  The paths
of these come from the ones given by normal forms and by appending a name that
was read from a directory, and both keep a path proper.  The empty path is not, but
a copy or move to it ends below it, as the root is a directory (`Destined`,
`RootResolved`).  From there on
each task is one of the steps that `NamespaceProofs` treats, on a file system that
is `Tidy` and `Kept` before it, and so after it, no matter what the other tasks of
the list are about: nothing that was resolved is carried from one task to the next.

These theorems on names are about commands without rmdir.  rmdir frees the inode
that the path leads to before it removes the entry, does not look at whether the
removal failed, and removes the name it was given even where that is one of a
link (`directory_commands.c:381`, a hazard of `PROJECT.json`), so that with links and
failing writes they are false of it.  `CommandsTypes` and `CommandsAccounted` include it,
and so do the theorems of the next section, where there are no links.

Normal forms, and the lists that cp and rmdir read, are folds over sequences.
What a fold is is shown once (`FoldThere`, `FoldFollowed`, `FoldAppend`): the value at
a set of places is a step away from that at the set without its last place, and
there is one function that is.

`NormalFormsMeet` is about the two ways to take the dots out of a path.  utils.c
takes back the component kept last; path.c copies text and takes back the text
from the last slash but one.  They agree on every path not deeper than the stack of
utils.c unless a ".." stands directly behind a "." or "..": by induction on the
path (`Agree`), where a ".." behind a name undoes the two steps before it.

Assumptions: those of the tree of names.

### The names as a tree

`NothingIsLost` and `ImplementsTree` say of `Spec`, the calls in any order, that every
inode in use can be reached and that the names implement `NameTree`.  They hold of
the programs that `ns_tree` runs (`Orderly`): on top of `Undisturbed`, nobody makes
links, a path is a list of names, and a program does not move onto what is there
or make what was made before.  With links the statement would have to be about
other walks; a careless program does lose objects (section 3).

- Without links a path of names leads along one chain of names from the root
  (`WayThere`), so that two texts lead to the same place only if one is the other
  (`PathsDiffer`, which needs `Tidy`).  The walk is a function defined by recursion; its
  states after each component are followed from the front (`StepByStep`).
- What a call makes of the names is one of four things (`TreeStep`): they stay
  (`Same`), one name is added for an inode that had none (`Added`), one is taken from an
  inode that leads nowhere (`Emptied`), or a name moves, to a place that is not below
  the inode it leads to (`Shifted`).  That holds of every call, wherever it fails half
  way (`CreateFileTree`, `MakeDirectoryTree`, `RemoveTree`, `RenameTree`, `OpenTree`,
  `WriteFileTree`).
- That a move does not go below itself is where the text is related to the tree: mv
  tests whether the one path begins with the other (`file_basic_commands.c:742`; the
  call itself does not, so that other programs have to), and by `PathsDiffer` what
  is not below in the text is not below in the tree (`NotInside`).
- Each of the four keeps `AllReached`, that every set of inodes with the root in it
  that no name leads out of has all inodes in use (`StepReaches`).  `Connected` is this,
  `Tidy`, `Kept`, and `Simple`: there are no links, and a free inode has no entries,
  without which one that is taken again could bring old names along.
- `NameTree` speaks of the place of each object.  In a `Connected` tree it is the one
  name that leads to it (`TreeMeans`), each of the four changes the places in the one
  way (`SameWhere`, `AddedWhere`, `EmptiedWhere`, `ShiftedWhere`), and what is outside of an
  object by names is not `Below` it by places (`BelowStays`).

`CommandsLoseNothing` and `CommandsImplementTree` say the same of `CommandsSpec`, and
`CommandsKeepTree` what the two sections before say of calls, with all commands.
A task is a call, but a call may rely on what programs keep to (it does not make
what was made before, it does not move onto what is there, it removes a
directory that is empty), and whether a task does is a matter of the list it is in.

- `Building` says of each task of the list that it is `Settled`, what it needs is
  there, or `Leading`: what it needs is made by the tasks at the head of the list.  A
  mkdir goes into a directory that is there or that the mkdir before it makes; a
  copied directory and a moved object find their place free, now and after these
  mkdirs; the list of what is in a directory waits for its copy.
- A task that is done, or fails, leaves a list of that kind (`ContinueBuilds`): a tree
  to which names were only added has all directories that it had (`SettledStays`),
  and one added name leaves the places of the others free.
- A command begins with such a list: mkdir -p makes one directory after the other
  (`MakesBuild`), and for cp and mv (`CpBuilds`, `MvBuilds`) this is where `MayCopy` and
  `MayMove` are used.
- `Dropping` is the same for rmdir, which tests nothing: each task names an inode
  and the place of its name, no two the same inode; of all that is in a directory
  whose task is to free it there are tasks before that one; and what a task takes
  a name out of is freed later in the list, the last task apart, whose parent is
  found by its path.  A directory unfolds to such a list (`DropUnfolds`): the names
  that are listed are all of its names (`ListedRight`), and no task of the list can
  be about one of them already, as names do not go in a ring (`NoRing`).  So what is
  freed has nothing in it, though no code looks (`DropTakes`), and the path of
  the last task leads where it led, the inode on it being cleared or not
  (`PathCleared`, `PathKept`).
- rmdir does not ask what is open.  A command starts when nothing is, and none opens
  across its tasks, the last conjunct of `CommandsConnected`.

Assumptions: those of the tree of names, and `NowhereAssumption`, that the mark of what
has no place is not a place.

### The life of a disk

`IInv` of `VolumeProofs` speaks of the disk, of memory, and of the list of writes
between them.  `WillHold` is what a cluster will hold once the writes that are left
are done.  `Whole` says, of a disk that no failure has touched, that there are a
bitmap and an index, those in memory if it is mounted, such that

- `Current`: they agree with each other and with the directory on the disk, every
  name leads to the cluster with its promised content, names that were not
  touched have the same inode in the table on the disk, and with none touched
  both are on the disk;
- `Flushing`: every write that is left is one of that bitmap or of that index, and
  if some of the index are left they complete it;
- with no failed write among them, the writes complete both.

`Promised` says what remains after a crash or a failed flush (`shaken`): the table on
the disk, which a mount reads, leads every name with a promise to its content
(`Recoverable`).  This follows from `Current` at the moment of the crash.  In between
some clusters of the table may be new and others old, and either serves for the
names that were not touched, as they have the same inode in both.  `Formatting` says
that the writes of a format will make an empty disk.

The theorems assume `OneBitmapCluster`: no disk has more clusters than a cluster has
bits.  They are false without it, as `volume_large` shows; it is the condition
under which `superblock.c:15` is right.  `LayoutAssumption` says that sizes are
positive, that there is an inode besides those the format sets aside, and that
the sizes of disks have a greatest one.

### The shell

`ShellIInv` says that a line and every line of a history are shorter than the buffer,
that indices are in range, and that of all histories only that of the current
level is being looked at.  That last part is what `BehindNewest` lacks.
`ShellAssumption` asks that a line of a history has room for a letter and its zero.

### Only model-checked

- Liveness (`CallReturns`, `CallEnds`, `CommandEnds`) is beyond the prover.
- `Lossless` and `FitsTheBuffer` are about sums over all symbols of powers of two: a
  proof would first need the theory of prefix codes.  `WordsArrive`
  compares two folds over a line: a proof would need induction over its length.
- `CopyComplete`, which relates the list that cp read to what it has made since.  It
  would not hold of all trees and paths: a copy into the tree that is copied adds
  names to the source after it was listed.

## 5. What is not modelled

- The host file: its growth, stdio buffers, the order in which unsynced writes
  survive a power failure.
- An inode of 84 bytes may lie in two clusters of the table, and a directory
  record in two of the directory; here none does.
- Positions and sizes are not cut at 2^32, time stamps of the cache do not wrap.
- The place of a bit in its byte, and the magic numbers and lengths that tell a
  damaged superblock or compressed file.
- The content of files in `Commands`, and the files of the host.
- Names of 255 bytes and paths of 1024; the prefix of the current directory, which
  is a text before a path that the model has as a whole.
- Running out of memory for the program itself.
- `fs_format_mount_disk`, which nothing calls, and `fs_dir_rename_entry`, which
  tests alone call.
- Terminal modes, decoding of keys, drawing; ls, tree, df, info, find, cat and
  export, which change nothing; tests and build.  `PROJECT.json` has the status of
  every part.

## 6. Plan

Done, in this order, the most important behaviour first: `Alloc`, `VfsIo`,
`Directories`/`Paths`/`Namespace`, `Volume`; then `Defrag`, `Commands`, `Huffman` and
`Shell`.  Proved: the safety of `Alloc`, `Defrag`, `VfsIo`, `Namespace`, `Commands`, `Volume`
and `Shell`; the refinements of `FileStore`, by `Alloc` and by `Defrag`, of `WordFiles`,
and of `NameTree` by calls and by the tasks of all commands.

Left, by what it would show:

1. `Commands`: `CopyComplete`.
2. `Huffman`: the canonical codes of lengths that satisfy Kraft's inequality are a
   prefix code, hence `Lossless`.
