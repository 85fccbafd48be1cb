---------------------------- MODULE FileStore ----------------------------
(***************************************************************************)
(* What the cluster allocator promises its callers, with clusters, pointer *)
(* blocks and the bitmap left out: every inode has an array of logical     *)
(* clusters, each a Hole or an array of words.  A write call may take      *)
(* effect piece by piece, but only on the inode it was made for, only on   *)
(* the words of its extent, and only by storing its own word; a call that  *)
(* returns "ok" has stored all of them.                                    *)
(***************************************************************************)
EXTENDS Naturals

CONSTANTS
  InodeCount,          \* inodes are 0 .. InodeCount - 1
  PointersPerCluster,  \* words in a cluster
  Logical,             \* the logical cluster indices under observation
  Hole                 \* a logical cluster with no cluster behind it

VARIABLES
  files,   \* files[i][l]: the words of logical cluster l of inode i, or Hole
  writer,  \* [inode, off, len, word] of the call in progress
  ret      \* how the last call ended, "none" while one is in progress

vars == <<files, writer, ret>>

Inode == 0 .. InodeCount - 1
NoInode == InodeCount
Slot == 0 .. PointersPerCluster - 1
Nothing == [l \in Logical |-> Hole]

InExtent(l, s) ==
  LET o == l * PointersPerCluster + s
  IN  writer.off <= o /\ o < writer.off + writer.len

Touched(l) == \E s \in Slot : InExtent(l, s)

\* A logical cluster after some, all or none of the call's effect on it: a
\* hole is filled with zeros first, and words outside the extent stay.
Partial(old, l, new) ==
  \/ new = old
  \/ /\ Touched(l)
     /\ new # Hole
     /\ \A s \in Slot :
          \/ new[s] = (IF old = Hole THEN 0 ELSE old[s])
          \/ InExtent(l, s) /\ new[s] = writer.word

Complete(l, new) ==
  Touched(l) =>
    new # Hole /\ \A s \in Slot : InExtent(l, s) => new[s] = writer.word

Init ==
  /\ files = [i \in Inode |-> Nothing]
  /\ writer = [inode |-> NoInode, off |-> 0, len |-> 0, word |-> 0]
  /\ ret = "ok"

\* A write call begins; it may first take an unused inode over.
Begin ==
  /\ writer.inode = NoInode
  /\ writer'.inode \in Inode
  /\ ret' = "none"
  /\ \/ files' = files
     \/ files' = [files EXCEPT ![writer'.inode] = Nothing]

Progress ==
  /\ writer.inode # NoInode
  /\ \A i \in Inode \ {writer.inode} : files'[i] = files[i]
  /\ \A l \in Logical :
       Partial(files[writer.inode][l], l, files'[writer.inode][l])
  /\ UNCHANGED <<writer, ret>>

\* The call returns.  A failed call may leave any part of its effect.
End ==
  /\ writer.inode # NoInode
  /\ writer'.inode = NoInode
  /\ ret' \in {"ok", "no_space", "io_error"}
  /\ \A i \in Inode \ {writer.inode} : files'[i] = files[i]
  /\ \/ /\ ret' # "ok"
        /\ files'[writer.inode] = Nothing
     \/ \A l \in Logical :
          /\ Partial(files[writer.inode][l], l, files'[writer.inode][l])
          /\ ret' = "ok" => Complete(l, files'[writer.inode][l])

\* Truncation and the creation or removal of an inode, one inode at a time.
Reset ==
  /\ writer.inode = NoInode
  /\ \E i \in Inode : files' = [files EXCEPT ![i] = Nothing]
  /\ UNCHANGED writer
  /\ ret' = "ok"

Next == Begin \/ Progress \/ End \/ Reset

Spec == Init /\ [][Next]_vars
==========================================================================
