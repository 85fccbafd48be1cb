----------------------------- MODULE VfsFiles -----------------------------
(***************************************************************************)
(* Open files, each opened once, are sequences of words: VfsIo implements  *)
(* WordFiles.                                                              *)
(***************************************************************************)
EXTENDS VfsIo

CONSTANTS
  Absent,  \* no such file
  Lost     \* a word that neither the cache nor the disk holds

\* No file of words is taken for one that is not there.
ASSUME AbsentAssumption ==
  \A size \in 0 .. MaxWords : Absent \notin [1 .. size -> AllWords \cup {Lost}]

\* The word at position p (from 0) of inode i, as its descriptor d sees it.
CachedWord(d, n, p) ==
  LET l == p \div ClusterWords
      o == (p % ClusterWords) + 1
  IN  IF Holding(d, l) # {} THEN d.slot[First(Holding(d, l))].words[o]
      ELSE IF n.blocks[l] # Hole THEN n.blocks[l][o]
      ELSE Lost

Content(i) ==
  LET d == IF OpenOn(i) = {} THEN FreshFd ELSE fds[First(OpenOn(i))]
      size == IF OpenOn(i) = {} THEN inodes[i].size ELSE d.size
  IN  IF ~inodes[i].used THEN Absent
      ELSE [k \in 1 .. size |-> CachedWord(d, inodes[i], k - 1)]

Contents == [i \in Inode |-> Content(i)]

Opened == [f \in Fd |->
  IF fds[f].open THEN [open |-> TRUE, inode |-> fds[f].inode, pos |-> fds[f].pos]
  ELSE [open |-> FALSE, inode |-> FreshFd.inode, pos |-> 0]]

Abstract == INSTANCE WordFiles WITH content <- Contents, opened <- Opened

\* A program that opens each file once and does not seek past its end reads
\* exactly the words it wrote, through evictions, prefetches, flushes,
\* reopening and a full disk.
ImplementsWordFiles == Abstract!Spec
==========================================================================
