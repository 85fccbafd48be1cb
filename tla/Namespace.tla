------------------------------- MODULE Namespace -------------------------------
(***************************************************************************)
(* The operations that change the tree of names: src/vfs/operations.c and  *)
(* the part of fs_vfs_open that creates or truncates a file.               *)
(*                                                                         *)
(* A call runs alone, so it is one step, but most calls change several     *)
(* things one after the other and may stop after any of them.  What was    *)
(* done by then stays, except where the code takes it back.                *)
(***************************************************************************)
EXTENDS Paths, FiniteSetsExt

CONSTANTS
    PathsGiven,     \* paths that programs give, none of them empty
    LinkTargets,    \* targets that programs give to symbolic links
    Descriptors,    \* 64 in the code
    Space,          \* free clusters of the formatted disk
    Careless        \* what programs do not refrain from

ASSUME NamespaceAssumption ==
    /\ PathsGiven \subseteq Seq(Components) \ {<< >>}
    /\ LinkTargets \subseteq [absolute : BOOLEAN, path : Seq(Components)]
    /\ \A t \in LinkTargets : Len(t.path) <= MaxTarget
    /\ Descriptors \subseteq Nat
    /\ Space \in Nat
    /\ Careless \subseteq
           {"into_itself", "taken_place", "made_before"}

VARIABLES
    fs,             \* inode table and free clusters, see Directories
    opened          \* the inode each descriptor has open, or NoInode

vars == <<fs, opened>>

IsInodeOpen(i) == \E d \in Descriptors : opened[d] = i

--------------------------------------------------------------------------------
(* Opening a file. *)

\* Mutant of CreateFile: the inode is not freed when its entry cannot be made.
CreateFileKeepingInode(path) ==
    LET parent == ParentOf(fs, path)
        i == AllocateInode(fs)
    IN  IF parent = NoInode \/ i = NoInode
        THEN {[ok |-> FALSE, fs |-> fs, inode |-> NoInode]}
        ELSE {[ok |-> r.ok, inode |-> i, fs |-> r.fs] :
              r \in InsertEntry(WithNode(fs, i, "regular"),
                                parent, Last(path), i)}

\* Parent and name of the path, a new inode, an entry for it.
CreateFile(path) ==
    LET parent == ParentOf(fs, path)
        i == AllocateInode(fs)
    IN  IF parent = NoInode \/ i = NoInode
        THEN {[ok |-> FALSE, fs |-> fs, inode |-> NoInode]}
        ELSE {[ok |-> r.ok, inode |-> i,
               fs |-> IF r.ok THEN r.fs ELSE FreeInode(r.fs, i)] :
              r \in InsertEntry(WithNode(fs, i, "regular"),
                                parent, Last(path), i)}

\* The file is cut before a descriptor is looked for.
OpenInode(f, i, truncate) ==
    LET free == {d \in Descriptors : opened[d] = NoInode}
    IN  IF f.node[i].type # "regular"
        THEN fs' = f /\ UNCHANGED opened
        ELSE /\ fs' = IF truncate THEN Truncate(f, i) ELSE f
             /\ IF free = {} THEN UNCHANGED opened
                ELSE opened' = [opened EXCEPT ![CHOOSE d \in free :
                                    \A e \in free : d <= e] = i]

Open(path, create, truncate) ==
    LET i == ResolvePath(fs, path)
    IN  IF i # NoInode THEN OpenInode(fs, i, truncate)
        ELSE /\ create
             /\ \E r \in CreateFile(path) :
                   IF r.ok THEN OpenInode(r.fs, r.inode, truncate)
                   ELSE fs' = r.fs /\ UNCHANGED opened

Close(d) ==
    /\ opened[d] # NoInode
    /\ opened' = [opened EXCEPT ![d] = NoInode]
    /\ UNCHANGED fs

\* An open file grows by a cluster.
WriteFile(d) ==
    /\ opened[d] # NoInode
    /\ fs.space > 0
    /\ fs' = [fs EXCEPT !.space = @ - 1, !.node[opened[d]].clusters = @ + 1]
    /\ UNCHANGED opened

--------------------------------------------------------------------------------
(* Removing. *)

\* Mutant of RemoveFile: the inode is freed even if its entry stays.
RemoveFileAnyway(path) ==
    LET parent == ParentOf(fs, path)
        target == FindEntry(fs, parent, Last(path))
    IN  /\ parent # NoInode
        /\ target # NoInode
        /\ ~IsInodeOpen(target)
        /\ fs.node[target].type # "directory"
        /\ \E r \in RemoveEntry(fs, parent, Last(path)) :
              fs' = TruncateAndFree(r.fs, target)
        /\ UNCHANGED opened

RemoveFile(path) ==
    LET parent == ParentOf(fs, path)
        target == FindEntry(fs, parent, Last(path))
    IN  /\ parent # NoInode
        /\ target # NoInode
        /\ ~IsInodeOpen(target)
        /\ fs.node[target].type # "directory"
        /\ \E r \in RemoveEntry(fs, parent, Last(path)) :
              fs' = IF r.ok THEN TruncateAndFree(r.fs, target) ELSE r.fs
        /\ UNCHANGED opened

\* Mutant of RemoveDirectory: open descriptors are not looked at.
RemoveOpenDirectory(path) ==
    LET parent == ParentOf(fs, path)
        target == FindEntry(fs, parent, Last(path))
    IN  /\ parent # NoInode
        /\ target # NoInode
        /\ IsEmpty(fs, target)
        /\ \E r \in RemoveEntry(fs, parent, Last(path)) :
              fs' = IF r.ok THEN FreeInode(r.fs, target) ELSE r.fs
        /\ UNCHANGED opened

\* Any inode without entries counts as an empty directory, and its
\* clusters are not given back.
RemoveDirectory(path) ==
    LET parent == ParentOf(fs, path)
        target == FindEntry(fs, parent, Last(path))
    IN  /\ parent # NoInode
        /\ target # NoInode
        /\ ~IsInodeOpen(target)
        /\ IsEmpty(fs, target)
        /\ \E r \in RemoveEntry(fs, parent, Last(path)) :
              fs' = IF r.ok THEN FreeInode(r.fs, target) ELSE r.fs
        /\ UNCHANGED opened

--------------------------------------------------------------------------------
(* Creating. *)

\* An inode whose entry could not be inserted stays in use.
MakeDirectory(f, path) ==
    LET parent == ParentOf(f, path)
        i == AllocateInode(f)
    IN  IF parent = NoInode \/ i = NoInode THEN {Failed(f)}
        ELSE UNION {IF r.ok THEN InsertEntry(r.fs, parent, Last(path), i)
                    ELSE {Failed(FreeInode(r.fs, i))} :
                    r \in CreateNew(WithNode(f, i, "directory"), i, parent)}

CreateDirectory(path) ==
    /\ \E r \in MakeDirectory(fs, path) : fs' = r.fs
    /\ UNCHANGED opened

\* The text of a link fills one cluster, which is lost when writing fails.
WriteTarget(f, i, target) ==
    (IF f.space = 0 THEN {Failed(f)}
     ELSE {Ok([f EXCEPT !.space = @ - 1, !.node[i].clusters = 1,
                        !.node[i].target = target])})
    \cup (IF WriteFaults /\ f.space > 0
          THEN {Failed(f), Failed([f EXCEPT !.space = @ - 1])} ELSE {})

MakeSymlink(f, target, path) ==
    LET parent == ParentOf(f, path)
        i == AllocateInode(f)
        entered(r) ==
            {IF s.ok THEN s ELSE Failed(TruncateAndFree(s.fs, i)) :
             s \in InsertEntry(r.fs, parent, Last(path), i)}
    IN  IF parent = NoInode \/ Holds(f, parent, Last(path)) \/ i = NoInode
        THEN {Failed(f)}
        ELSE UNION {IF r.ok THEN entered(r) ELSE {Failed(FreeInode(r.fs, i))} :
                    r \in WriteTarget(WithNode(f, i, "symlink"), i, target)}

CreateSymlink(target, path) ==
    /\ \E r \in MakeSymlink(fs, target, path) : fs' = r.fs
    /\ UNCHANGED opened

--------------------------------------------------------------------------------
(* Moving. *)

\* Mutant of Reparent: ".." keeps the old parent.
ReparentNothing(f, i, parent) == {Ok(f)}

\* A moved directory gets its new parent.
Reparent(f, i, parent) ==
    IF f.node[i].type = "directory" THEN UpdateEntry(f, i, DotDot, parent)
    ELSE {Ok(f)}

\* A relative link that changes its directory gets "../" in front.  The
\* code compares the first bytes of the two directories, their numbers.
PrefixTarget(f, i) ==
    LET target == f.node[i].target
        empty == [Truncate(f, i) EXCEPT !.node[i].target = NoTarget]
    IN  WriteTarget(empty, i, [target EXCEPT !.path = <<DotDot>> \o @])

Relink(f, i, from, to) ==
    IF /\ f.node[i].type = "symlink"
       /\ from # to
       /\ ~f.node[i].target.absolute
    THEN PrefixTarget(f, i)
    ELSE {Ok(f)}

\* Mutant of MoveEntry: the old entry stays.
MoveEntryCopying(f, from, old, to, new, i) == InsertEntry(f, to, new, i)

\* The old entry goes before the new one is tried, and does not come back.
MoveEntry(f, from, old, to, new, i) ==
    UNION {IF r.ok THEN InsertEntry(r.fs, to, new, i) ELSE {r} :
           r \in RemoveEntry(f, from, old)}

Renamed(f, old, new) ==
    LET from == ParentOf(f, old)
        to == ParentOf(f, new)
        i == FindEntry(f, from, Last(old))
        linked(r) ==
            UNION {IF s.ok THEN MoveEntry(s.fs, from, Last(old), to, Last(new), i)
                   ELSE {s} : s \in Relink(r.fs, i, from, to)}
    IN  IF from = NoInode \/ to = NoInode \/ i = NoInode THEN {Failed(f)}
        ELSE UNION {IF r.ok THEN linked(r) ELSE {r} : r \in Reparent(f, i, to)}

\* Bound: a link is not moved once its target has grown to MaxTarget.
ShortEnough(path) ==
    Len(fs.node[FindEntry(fs, ParentOf(fs, path), Last(path))].target.path)
        < MaxTarget

Rename(old, new) ==
    /\ FindEntry(fs, ParentOf(fs, old), Last(old)) # NoInode
    /\ ShortEnough(old)
    /\ \E r \in Renamed(fs, old, new) : fs' = r.fs
    /\ UNCHANGED opened

--------------------------------------------------------------------------------
(* Programs refrain from what Careless does not name: the command line     *)
(* tests what mv would move (file_basic_commands.c:742) and whether what   *)
(* mkdir is to make is there (directory_commands.c:317).                   *)

InDirectory(path) ==
    ParentOf(fs, path) # NoInode
        => fs.node[ParentOf(fs, path)].type = "directory"

\* The texts are compared, not what they lead to.
IntoItself(old, new) == IsPrefix(old, new)

MayRename(old, new) ==
    /\ "into_itself" \in Careless \/ ~IntoItself(old, new)
    /\ \/ "taken_place" \in Careless
       \/ InDirectory(new) /\ ~Holds(fs, ParentOf(fs, new), Last(new))

MayMake(path) ==
    \/ "made_before" \in Careless
    \/ ResolvePath(fs, path) = NoInode /\ InDirectory(path)

--------------------------------------------------------------------------------

Init ==
    /\ fs = [node |-> [i \in Inodes |->
                IF i = Root
                THEN [used |-> TRUE, type |-> "directory",
                      entries |-> << [name |-> Dot, inode |-> Root],
                                     [name |-> DotDot, inode |-> Root] >>,
                      clusters |-> 1, target |-> NoTarget]
                ELSE FreeNode],
             space |-> Space]
    /\ opened = [d \in Descriptors |-> NoInode]

Next ==
    \/ \E path \in PathsGiven :
          \/ \E create, truncate \in BOOLEAN : Open(path, create, truncate)
          \/ RemoveFile(path)
          \/ RemoveDirectory(path)
          \/ MayMake(path) /\ CreateDirectory(path)
          \/ \E target \in LinkTargets : CreateSymlink(target, path)
    \/ \E d \in Descriptors : Close(d) \/ WriteFile(d)
    \/ \E old, new \in PathsGiven :
          MayRename(old, new) /\ Rename(old, new)

Spec == Init /\ [][Next]_vars

--------------------------------------------------------------------------------
(* What makes the tree correct. *)

\* Entries other than "." and "..".
Named(dir) == {fs.node[dir].entries[k] :
                  k \in {k \in DOMAIN fs.node[dir].entries :
                            fs.node[dir].entries[k].name > DotDot}}

\* Every inode that a chain of names leads to.
Reachable ==
    LET from[inodes \in SUBSET Inodes] ==
            LET deeper == inodes \cup UNION {{e.inode : e \in Named(dir)} :
                                                 dir \in inodes}
            IN  IF deeper = inodes THEN inodes ELSE from[deeper]
    IN  from[{Root}]

\* The places where an inode is entered.
Places(i) ==
    UNION {{[dir |-> dir, name |-> e.name] :
                e \in {e \in Named(dir) : e.inode = i}} : dir \in Reachable}

\* The table, the free clusters and the descriptors have their types.
TypeOK ==
    /\ fs.node \in [Inodes -> Node]
    /\ fs.space \in 0 .. Space
    /\ opened \in [Descriptors -> Inodes \cup {NoInode}]

\* Whatever calls fail and wherever they stop, a name that can be reached
\* names an inode in use (insert, remove and free of operations.c are
\* separate changes), so that no later file shows up under an old name.
NoDanglingEntries ==
    \A dir \in Reachable : \A e \in Named(dir) : fs.node[e.inode].used

\* No inode has two names: there are no hard links, and removing one name
\* frees the inode (operations.c:141).
OneName == \A i \in Inodes : Cardinality(Places(i)) <= 1

\* The ".." of a directory that can be reached is the directory it is
\* entered in, also after moves (operations.c:220-230).
DotDotIsParent ==
    \A dir \in Reachable : \A e \in Named(dir) :
        fs.node[e.inode].type = "directory" =>
            /\ FindEntry(fs, e.inode, DotDot) = dir
            /\ FindEntry(fs, e.inode, Dot) = e.inode

\* A file that some descriptor has open is not freed, nor is its inode
\* given to something else (the checks of is_inode_open in remove and
\* remove_directory).
OpenFilesStay ==
    \A d \in Descriptors :
        opened[d] # NoInode => fs.node[opened[d]].used
                               /\ fs.node[opened[d]].type = "regular"

\* No cluster is given back twice: the free clusters and those of the
\* inodes in use are never more than the disk has.
SpaceNeverInvented ==
    fs.space + MapThenSumSet(LAMBDA i : fs.node[i].clusters, Inodes) <= Space + 1

\* From every directory in use ".." leads to the root: none is inside of
\* itself.
NoCycle ==
    \A i \in Inodes :
        fs.node[i].used /\ fs.node[i].type = "directory" =>
            LET up[n \in 0 .. Cardinality(Inodes)] ==
                    IF n = 0 THEN i ELSE FindEntry(fs, up[n - 1], DotDot)
            IN  up[Cardinality(Inodes)] = Root

\* Every inode in use can be reached: nothing is lost by a call that fails
\* or by a move.
NothingLost == \A i \in Inodes : fs.node[i].used => i \in Reachable
================================================================================
