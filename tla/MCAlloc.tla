----------------------------- MODULE MCAlloc -----------------------------
(***************************************************************************)
(* Small disks for TLC.                                                    *)
(***************************************************************************)
EXTENDS AllocFiles

\* With DirectPointers = 1 and PointersPerCluster = 2 the logical clusters
\* are 0 (direct), 1-2 (single), 3-6 (double) and 7-14 (triple indirect), and
\* word w of a file lies in logical cluster w \div 2.

\* The direct cluster and the first word of cluster 1, the first single
\* indirect one; the other word of cluster 1 and the first of cluster 2.
ShallowRequests == {[off |-> 0, len |-> 3], [off |-> 3, len |-> 2]}

\* A word of logical cluster 4, under the double indirect block, and one of
\* cluster 7, the first under the triple indirect block.
DeepRequests == {[off |-> 9, len |-> 1], [off |-> 14, len |-> 1]}
==========================================================================
