---------------------------- MODULE AllocFiles ----------------------------
(***************************************************************************)
(* The allocator implements FileStore: the files a reader of the index     *)
(* finds on the disk, through fs_alloc_resolve_cluster without allocation. *)
(***************************************************************************)
EXTENDS Alloc

CONSTANTS
  Logical,  \* the logical cluster indices observed
  Hole      \* fs_alloc_resolve_cluster returns FS_STATUS_ERROR_OUT_OF_BOUNDS

\* No file is longer than the pointers of its inode reach, and what is said
\* of a missing cluster is no content of a cluster.
ASSUME FilesAssumption ==
  /\ Logical \subseteq 0 .. Capacity - 1
  /\ Hole \notin [Slot -> Nat]

\* One level of the walk: 0 stays 0, which is the end of the walk.
Follow(c, l, h) == IF c = 0 THEN 0 ELSE disk[c][SlotOf(l, h)]

Resolve(root, l) ==
  LET c == root[RootOf(l)]
  IN  CASE HeightOf(l) = 0 -> c
        [] HeightOf(l) = 1 -> Follow(c, l, 0)
        [] HeightOf(l) = 2 -> Follow(Follow(c, l, 1), l, 0)
        [] OTHER -> Follow(Follow(Follow(c, l, 2), l, 1), l, 0)

ReadCluster(root, l) ==
  LET c == Resolve(root, l) IN IF c = 0 THEN Hole ELSE disk[c]

Files == [i \in Inode |-> [l \in Logical |-> ReadCluster(index[i].root, l)]]

Writer == [inode |-> call.inode, off |-> call.off,
           len |-> call.len, word |-> call.word]

Abstract == INSTANCE FileStore WITH files <- Files, writer <- Writer

\* The allocator keeps the promise of FileStore: a write changes words of its
\* own extent of its own file only, also when it fails half-way; when it
\* reports success every word is stored; truncating, creating or removing
\* one file leaves the words of every other file alone.
ImplementsFileStore == Abstract!Spec
==========================================================================
