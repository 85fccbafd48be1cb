----------------------------- MODULE MCDefrag -----------------------------
(***************************************************************************)
(* A small disk for TLC.                                                   *)
(***************************************************************************)
EXTENDS Defrag

\* With DirectPointers = 1 and PointersPerCluster = 2: one word in each of the
\* logical clusters 0 to 3, of which 1 and 2 hang below the single and 3 below
\* the double indirect block.  A file of all four has three pointer blocks.
OneWordEach == {[off |-> 0, len |-> 1], [off |-> 3, len |-> 1],
                [off |-> 4, len |-> 1], [off |-> 7, len |-> 1]}

\* What the theorems about the files of DefragSpec assume.
ASSUME SmallWrites == OneClusterWrites

\* A cluster that is free is zeroed or overwritten before anything reads it.
InUse == <<used, [c \in used |-> disk[c]], [c \in used |-> level[c]],
           index, call, at, ret, size, count, todo>>

\* Bound: the search stops where three clusters or more are lost.
FewLost == Cardinality(Leaked) <= 2
===========================================================================
