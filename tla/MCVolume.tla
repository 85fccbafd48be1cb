----------------------------- MODULE MCVolume -----------------------------
(***************************************************************************)
(* Small disks for TLC.                                                    *)
(***************************************************************************)
EXTENDS Volume

\* Six inodes, three to a cluster, make a table of two clusters; with the
\* superblock and one cluster of bitmap the metadata are clusters 0 to 3, and
\* a disk of Small clusters cannot hold them.
Small == 3

\* The root and one cluster for files; the root and three, so that of two files
\* each can be moved, the second to where the first one was.
Tight == 6
Roomy == 8

SmallToRoomy == {Small, Tight, Roomy}
OnlyRoomy == {Roomy}
===========================================================================
