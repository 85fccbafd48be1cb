------------------------------ MODULE Directories ------------------------------
(***************************************************************************)
(* The inode table and the directories kept in it: src/metadata/index.c    *)
(* and src/logical/dir.c as operators on a record                          *)
(*                                                                         *)
(*     fs = [node |-> the inode table, space |-> free clusters].           *)
(*                                                                         *)
(* A directory is rewritten as a whole, cluster after cluster, over its    *)
(* old content, and its size reaches the inode only when every cluster was *)
(* written.  An operation that can fail half way is therefore a set of     *)
(* outcomes [ok, fs], one for each place where it can stop.                *)
(*                                                                         *)
(* Names are numbers ordered as strcmp orders the names, "." and ".."      *)
(* first.  Entries have one length that divides a cluster; a file's data   *)
(* is only the number of its clusters, so that looking for a name in       *)
(* something that is no directory finds nothing.                           *)
(***************************************************************************)
EXTENDS Naturals, FiniteSets, Sequences, SequencesExt

CONSTANTS
    LastInode,      \* the inodes below 2 hold the bitmap and the table
    Names,          \* names a program gives, 2 and above
    PerCluster,     \* entries in a cluster
    WriteFaults     \* may the disk refuse a write?

ASSUME DirectoriesAssumption ==
    /\ LastInode \in Nat /\ LastInode >= 2
    /\ Names \subseteq Nat \ {0, 1}
    /\ PerCluster \in Nat /\ PerCluster >= 2
    /\ WriteFaults \in BOOLEAN

Dot == 0
DotDot == 1
Components == {Dot, DotDot} \cup Names

Root == 2
Inodes == Root .. LastInode
NoInode == 0
NoTarget == [absolute |-> FALSE, path |-> << >>]

Entry == [name : Components, inode : Inodes]
Node == [used : BOOLEAN, type : {"regular", "directory", "symlink"},
         entries : Seq(Entry), clusters : Nat,
         target : [absolute : BOOLEAN, path : Seq(Components)]]

\* A cleared inode is, read through a stale entry, an empty regular file.
FreeNode == [used |-> FALSE, type |-> "regular", entries |-> << >>,
             clusters |-> 0, target |-> NoTarget]

Ok(f) == [ok |-> TRUE, fs |-> f]
Failed(f) == [ok |-> FALSE, fs |-> f]

--------------------------------------------------------------------------------
(* The inode table. *)

Unused(fs) == {i \in Inodes : ~fs.node[i].used}

\* The first unused inode, or NoInode.
AllocateInode(fs) ==
    IF Unused(fs) = {} THEN NoInode
    ELSE CHOOSE i \in Unused(fs) : \A j \in Unused(fs) : i <= j

WithNode(fs, i, type) ==
    [fs EXCEPT !.node[i] = [FreeNode EXCEPT !.used = TRUE, !.type = type]]

\* The clusters of the inode are forgotten, not given back.
FreeInode(fs, i) == [fs EXCEPT !.node[i] = FreeNode]

\* Mutant of Truncate: the inode keeps what it gave back.
TruncateKeepingPointers(fs, i) ==
    [fs EXCEPT !.space = @ + fs.node[i].clusters]

\* Gives back every cluster and empties the file.
Truncate(fs, i) ==
    [fs EXCEPT !.space = @ + fs.node[i].clusters, !.node[i].clusters = 0]

TruncateAndFree(fs, i) == FreeInode(Truncate(fs, i), i)

--------------------------------------------------------------------------------
(* Directory content. *)

Clusters(entries) == (Len(entries) + PerCluster - 1) \div PerCluster

Position(entries, name) ==
    {k \in DOMAIN entries : entries[k].name = name}

Holds(fs, dir, name) ==
    dir # NoInode /\ Position(fs.node[dir].entries, name) # {}

\* The first entry of that name; NoInode when there is none.
FindEntry(fs, dir, name) ==
    IF Holds(fs, dir, name)
    THEN fs.node[dir].entries[CHOOSE k \in Position(fs.node[dir].entries, name) :
             \A l \in Position(fs.node[dir].entries, name) : k <= l].inode
    ELSE NoInode

IsEmpty(fs, dir) == Len(fs.node[dir].entries) <= 2

\* What the directory's size lets a reader see once the clusters before
\* the j-th hold the new content and the others the old one.
Overwritten(old, new, j) ==
    [k \in 1 .. Len(old) |->
        IF k <= (j - 1) * PerCluster THEN new[k] ELSE old[k]]

\* Writing cluster j fails: clusters that were added for this write are lost.
StopsAt(fs, dir, new, j) ==
    LET held == fs.node[dir].clusters
        added == IF j > held THEN j - 1 - held ELSE 0
        noSpace == j > held /\ added = fs.space
        lost == IF noSpace \/ j <= held THEN {added} ELSE {added, added + 1}
    IN  IF WriteFaults \/ noSpace
        THEN {Failed([fs EXCEPT
                 !.node[dir].entries = Overwritten(@, new, j),
                 !.space = @ - l]) : l \in lost}
        ELSE {}

SaveEntries(fs, dir, new) ==
    LET held == fs.node[dir].clusters
        grown == IF Clusters(new) > held THEN Clusters(new) - held ELSE 0
    IN  (UNION {StopsAt(fs, dir, new, j) :
                   j \in 1 .. (IF grown > fs.space THEN held + fs.space + 1
                               ELSE Clusters(new))})
        \cup IF grown > fs.space THEN {}
             ELSE {Ok([fs EXCEPT !.node[dir].entries = new,
                                 !.node[dir].clusters = held + grown,
                                 !.space = @ - grown])}

\* The code appends the entry and sorts; all but the new one are in order.
Insert(entries, name, i) ==
    InsertAt(entries,
             1 + Cardinality({k \in DOMAIN entries : entries[k].name < name}),
             [name |-> name, inode |-> i])

InsertEntry(fs, dir, name, i) ==
    IF \/ name \in {Dot, DotDot}
       \/ fs.node[dir].type # "directory"
       \/ Holds(fs, dir, name)
    THEN {Failed(fs)}
    ELSE SaveEntries(fs, dir, Insert(fs.node[dir].entries, name, i))

RemoveEntry(fs, dir, name) ==
    IF name \in {Dot, DotDot} \/ ~Holds(fs, dir, name)
    THEN {Failed(fs)}
    ELSE LET old == fs.node[dir].entries
             k == CHOOSE k \in Position(old, name) :
                      \A l \in Position(old, name) : k <= l
         IN  SaveEntries(fs, dir, RemoveAt(old, k))

UpdateEntry(fs, dir, name, i) ==
    IF ~Holds(fs, dir, name) THEN {Failed(fs)}
    ELSE LET old == fs.node[dir].entries
             k == CHOOSE k \in Position(old, name) :
                      \A l \in Position(old, name) : k <= l
         IN  SaveEntries(fs, dir, [old EXCEPT ![k].inode = i])

\* The first cluster of a new directory.
CreateNew(fs, i, parent) ==
    LET dots == << [name |-> Dot, inode |-> i],
                   [name |-> DotDot, inode |-> parent] >>
    IN  SaveEntries(fs, i, dots)
================================================================================
