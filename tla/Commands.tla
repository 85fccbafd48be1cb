------------------------------- MODULE Commands -------------------------------
(***************************************************************************)
(* The commands that are many calls: mkdir, touch, echo, import, compress, *)
(* decompress, cp, mv and rmdir of cli/src/commands, over the namespace.   *)
(*                                                                         *)
(* A command makes its list of tasks as it goes, as the code descends into *)
(* directories, and each task is one change of the names at most.  A task  *)
(* that fails ends the command, in whatever state that is, but for rmdir   *)
(* and the close of a file, whose failures nobody looks at.                *)
(***************************************************************************)
EXTENDS NameTrees

CONSTANTS
    Commands,       \* the commands that are used
    CommandPaths,   \* the paths they are given
    Packed          \* the name with ".sz" behind it, of names that may get it

ASSUME CommandsAssumption ==
    /\ Commands \subseteq {"mkdir", "touch", "echo", "import", "compress",
                           "decompress", "cp", "mv", "rmdir"}
    /\ CommandPaths \subseteq PathsGiven
    /\ DOMAIN Packed \subseteq Names
    /\ \A name \in DOMAIN Packed : Packed[name] \in Names

VARIABLE work       \* the tasks of the running command

commandVars == <<fs, opened, work>>

\* Nothing is open between two commands.
Prompt == work = << >> /\ \A d \in Descriptors : opened[d] = NoInode

Then(tasks) == work' = tasks \o Tail(work)
Done == Then(<< >>)
GiveUp == work' = << >>

Keep == UNCHANGED <<fs, opened>>

--------------------------------------------------------------------------------
(* Making directories. *)

\* One after the other, from the top.
Makes(path) == [k \in 1 .. Len(path) |-> [do |-> "make", path |-> SubSeq(path, 1, k)]]

\* Whatever the parent is, nothing is made if it is there.
EnsureParents(path) ==
    LET parent == NormalizeFsPath(Front(path))
    IN  IF parent = << >> \/ ResolvePath(fs, parent) # NoInode THEN << >>
        ELSE Makes(parent)

\* What is there must be a directory; but a copied directory is just made.
Make(task) ==
    LET i == ResolvePath(fs, task.path)
    IN  /\ task.do \in {"make", "create"}
        /\ IF i # NoInode /\ task.do = "make"
           THEN /\ IF fs.node[i].type = "directory" THEN Done ELSE GiveUp
                /\ UNCHANGED fs
           ELSE \E r \in MakeDirectory(fs, task.path) :
                   /\ fs' = r.fs
                   /\ IF r.ok THEN Done ELSE GiveUp
        /\ UNCHANGED opened

Mkdir(path) ==
    /\ work' = Makes(NormalizeFsPath(path))
    /\ Keep

--------------------------------------------------------------------------------
(* Files. *)

\* Opened with CREATE, and for writing with TRUNCATE, written, closed.  The
\* clusters may be written by the close, whose status is not looked at: the
\* command then goes on with a file that is too short.
Store(path, asked, truncate) ==
    LET i == ResolvePath(fs, path)
        found == [ok |-> TRUE, fs |-> fs, inode |-> i]
    IN  \E r \in IF i # NoInode THEN {found} ELSE CreateFile(path) :
           IF ~r.ok \/ r.fs.node[r.inode].type # "regular"
           THEN fs' = r.fs /\ GiveUp
           ELSE LET f == IF truncate THEN Truncate(r.fs, r.inode) ELSE r.fs
                    given == IF asked > f.space THEN f.space ELSE asked
                IN  /\ fs' = [f EXCEPT !.space = @ - given,
                                       !.node[r.inode].clusters = @ + given]
                    /\ Done \/ (given < asked /\ GiveUp)

Touch(path) ==
    /\ work' = Append(EnsureParents(path), [do |-> "touch", path |-> path])
    /\ Keep

Echo(path) ==
    /\ work' = Append(EnsureParents(path), [do |-> "echo", path |-> path])
    /\ Keep

\* A file of the host that has two clusters, or is not there, which shows
\* when its directories have been made.
Import(path) ==
    /\ work' = Append(EnsureParents(path), [do |-> "import", path |-> path])
    /\ Keep

HasText(path) ==
    LET i == ResolvePath(fs, path)
    IN  i # NoInode /\ fs.node[i].type = "regular" /\ fs.node[i].clusters > 0

\* A file beside the given one gets the text, which Huffman has made of it;
\* decompress writes over the file that was compressed.
Compress(path) ==
    /\ Last(path) \in DOMAIN Packed /\ HasText(path)
    /\ work' = << [do |-> "pack", path |-> Append(Front(path), Packed[Last(path)])] >>
    /\ Keep

Decompress(path) ==
    /\ HasText(path)
    /\ \E name \in DOMAIN Packed :
          /\ Packed[name] = Last(path)
          /\ work' = << [do |-> "pack", path |-> Append(Front(path), name)] >>
    /\ Keep

\* A text that was packed or unpacked fills one cluster or two.
Write(task) ==
    /\ \/ task.do = "touch" /\ Store(task.path, 0, FALSE)
       \/ task.do = "echo" /\ Store(task.path, 1, TRUE)
       \/ /\ task.do = "import"
          /\ \/ Store(task.path, 2, TRUE)
             \/ GiveUp /\ UNCHANGED fs
       \/ task.do = "pack" /\ \E n \in 1 .. 2 : Store(task.path, n, TRUE)
    /\ UNCHANGED opened

--------------------------------------------------------------------------------
(* Copying. *)

IsDirectory(i) == i # NoInode /\ fs.node[i].type = "directory"

\* Into a directory that is there, else to that name.
Destination(from, to) ==
    IF IsDirectory(ResolvePath(fs, to)) THEN Append(to, Last(from)) ELSE to

Cp(from, to) ==
    LET final == Destination(from, to)
    IN  /\ ResolvePath(fs, from) # NoInode
        /\ work' = << [do |-> "copy", from |-> from, to |-> final],
                      [do |-> "report", from |-> from, to |-> final] >>
        /\ Keep

EntryAt(path) == FindEntry(fs, ParentOf(fs, path), Last(path))

WithoutDots(entries) ==
    FoldLeft(LAMBDA list, e : IF e.name > DotDot THEN Append(list, e) ELSE list,
             << >>, entries)

\* What fs_dir_list_entries gives of a directory, without "." and "..".
Listed(dir) == WithoutDots(fs.node[dir].entries)

\* recursive_copy_entry.  A directory that is there takes the copy; the target
\* of a link is read before the parents of the copy are made.
Copy(task) ==
    LET i == EntryAt(task.from)
        there == ResolvePath(fs, task.to)
        how == IF i = NoInode THEN "none" ELSE fs.node[i].type
        list == [task EXCEPT !.do = "list"]
    IN  /\ task.do = "copy"
        /\ \/ how = "none" /\ GiveUp
           \/ how = "regular" /\ Then(Append(EnsureParents(task.to),
                                             [task EXCEPT !.do = "fill"]))
           \/ how = "symlink"
                /\ Then(Append(EnsureParents(task.to),
                               [do |-> "link", target |-> fs.node[i].target,
                                to |-> task.to]))
           \/ how = "directory" /\ there = NoInode
                /\ Then(EnsureParents(task.to)
                        \o << [do |-> "create", path |-> task.to], list >>)
           \/ how = "directory" /\ IsDirectory(there) /\ Then(<<list>>)
           \/ how = "directory" /\ there # NoInode /\ ~IsDirectory(there) /\ GiveUp
        /\ Keep

\* Mutant of List: the directory is read again after its first entry.
ListAgain(task) ==
    LET i == ResolvePath(fs, task.from)
    IN  /\ task.do = "list"
        /\ IF i = NoInode THEN GiveUp
           ELSE Then(IF Listed(i) = << >> THEN << >>
                     ELSE << [do |-> "copy",
                              from |-> Append(task.from, Listed(i)[1].name),
                              to |-> Append(task.to, Listed(i)[1].name)], task >>)
        /\ Keep

Copies(task, list) ==
    [k \in DOMAIN list |-> [do |-> "copy",
                            from |-> Append(task.from, list[k].name),
                            to |-> Append(task.to, list[k].name)]]

\* Mutant of List: the last entry is not seen.
ListButLast(task) ==
    LET i == ResolvePath(fs, task.from)
    IN  /\ task.do = "list"
        /\ IF i = NoInode \/ Listed(i) = << >> THEN Done
           ELSE Then(Copies(task, Front(Listed(i))))
        /\ Keep

\* The entries that are there now, as they are stored.
List(task) ==
    LET i == ResolvePath(fs, task.from)
    IN  /\ task.do = "list"
        /\ IF i = NoInode THEN GiveUp ELSE Then(Copies(task, Listed(i)))
        /\ Keep

\* The source is opened first, so that it is still as long as it was when it
\* is cut as the destination.
Fill(task) ==
    LET i == ResolvePath(fs, task.from)
    IN  /\ task.do = "fill"
        /\ IF i # NoInode /\ fs.node[i].type = "regular"
           THEN Store(task.to, fs.node[i].clusters, TRUE)
           ELSE GiveUp /\ UNCHANGED fs
        /\ UNCHANGED opened

Link(task) ==
    /\ task.do = "link"
    /\ \E r \in MakeSymlink(fs, task.target, task.to) :
          /\ fs' = r.fs
          /\ IF r.ok THEN Done ELSE GiveUp
    /\ UNCHANGED opened

\* "Copied"
Report(task) == task.do = "report" /\ Done /\ Keep

--------------------------------------------------------------------------------
(* Moving. *)

Mv(from, to) ==
    LET final == Destination(from, to)
        i == ResolvePath(fs, from)
        move == [do |-> "move", from |-> from, to |-> final,
                 directory |-> IsDirectory(i)]
    IN  /\ i # NoInode
        /\ work' = IF final # to THEN <<move>>
                   ELSE Append(EnsureParents(to), move)
        /\ Keep

\* Whether the new name is taken is not tested.
Move(task) ==
    /\ task.do = "move"
    /\ IF task.directory /\ IntoItself(task.from, task.to)
       THEN UNCHANGED fs
       ELSE \E r \in Renamed(fs, task.from, task.to) : fs' = r.fs
    /\ UNCHANGED opened
    /\ Done

--------------------------------------------------------------------------------
(* Removing directories. *)

Drops(dir) ==
    [k \in DOMAIN Listed(dir) |->
        [do |-> "drop", dir |-> dir, name |-> Listed(dir)[k].name,
         inode |-> Listed(dir)[k].inode, path |-> << >>]]

\* An empty directory, also one at the end of a link, is not truncated.
Rmdir(path) ==
    LET dir == ParentOf(fs, path)
        target == ResolvePath(fs, path)
        top == [do |-> "drop", dir |-> NoInode, name |-> Last(path),
                inode |-> target, path |-> path]
    IN  /\ IsDirectory(target) /\ target # Root
        /\ IF IsEmpty(fs, target)
           THEN /\ \E r \in IF dir = NoInode THEN {Failed(fs)}
                            ELSE RemoveEntry(fs, dir, Last(path)) :
                      fs' = IF r.ok THEN FreeInode(r.fs, target) ELSE r.fs
                /\ UNCHANGED <<opened, work>>
           ELSE work' = <<top>> /\ Keep

\* The object is freed and its entry removed, whether or not that can be done.
\* The parent of the top is looked up when all below it is gone.
Dropped(task) ==
    LET f == TruncateAndFree(fs, task.inode)
        dir == IF task.path = << >> THEN task.dir ELSE ParentOf(f, task.path)
    IN  IF dir = NoInode THEN {Failed(f)} ELSE RemoveEntry(f, dir, task.name)

\* Mutant of Drop: a directory goes before what is in it.
DropTopFirst(task) ==
    /\ task.do \in {"drop", "free"}
    /\ IF task.do = "drop" /\ IsDirectory(task.inode)
       THEN Then(<< [task EXCEPT !.do = "free"] >> \o Drops(task.inode)) /\ Keep
       ELSE /\ \E r \in Dropped(task) : fs' = r.fs
            /\ Done
            /\ UNCHANGED opened

\* recursive_remove_directory: what is in a directory, then the directory.
Drop(task) ==
    /\ task.do \in {"drop", "free"}
    /\ IF task.do = "drop" /\ IsDirectory(task.inode)
       THEN Then(Append(Drops(task.inode), [task EXCEPT !.do = "free"])) /\ Keep
       ELSE /\ \E r \in Dropped(task) : fs' = r.fs
            /\ Done
            /\ UNCHANGED opened

--------------------------------------------------------------------------------

\* Users refrain from what Careless does not name: to copy into a file, and
\* to move to a name that is taken, see MayMake and MayRename.
MayCopy(from, to) ==
    "made_before" \in Careless \/ InDirectory(Destination(from, to))

MayMove(from, to) ==
    LET final == Destination(from, to)
    IN  /\ EntryAt(from) # NoInode
        /\ ShortEnough(from)
        /\ \/ "taken_place" \in Careless
           \/ InDirectory(final) /\ EntryAt(final) = NoInode

Start ==
    \E path \in CommandPaths :
       \/ "mkdir" \in Commands /\ Mkdir(path)
       \/ "touch" \in Commands /\ Touch(path)
       \/ "echo" \in Commands /\ Echo(path)
       \/ "import" \in Commands /\ Import(path)
       \/ "compress" \in Commands /\ Compress(path)
       \/ "decompress" \in Commands /\ Decompress(path)
       \/ "rmdir" \in Commands /\ Rmdir(path)
       \/ \E to \in CommandPaths \cup {<< >>} :
             \/ "cp" \in Commands /\ MayCopy(path, to) /\ Cp(path, to)
             \/ "mv" \in Commands /\ MayMove(path, to) /\ Mv(path, to)

Continue ==
    /\ work # << >>
    /\ LET task == Head(work)
       IN  \/ Make(task) \/ Write(task)
           \/ Copy(task) \/ List(task) \/ Fill(task) \/ Link(task) \/ Report(task)
           \/ Move(task) \/ Drop(task)

CommandsInit == Init /\ work = << >>

CommandsNext ==
    \/ Prompt /\ Start
    \/ Continue
    \/ work = << >> /\ Next /\ UNCHANGED work

\* A command that was started goes on: WF_commandVars(Continue), as Continue
\* is enabled while there is work, written without ENABLED.
GoesOn == []<>(work = << >>) \/ []<><<work # << >> >>_work

CommandsSpec == CommandsInit /\ [][CommandsNext]_commandVars /\ GoesOn

--------------------------------------------------------------------------------

\* The object i, and what is below it, is also j's, with the same types.
CopiedBelow(i, j) ==
    LET same[depth \in 0 .. Cardinality(Inodes), a \in Inodes, b \in Inodes] ==
            /\ fs.node[a].type = fs.node[b].type
            /\ depth > 0 => \A e \in Named(a) :
                  /\ Holds(fs, b, e.name)
                  /\ same[depth - 1, e.inode, FindEntry(fs, b, e.name)]
    IN  same[Cardinality(Inodes), i, j]

\* When cp says that it has copied something, every name below the source is
\* there below the destination, of the same type.
CopyComplete ==
    work # << >> /\ Head(work).do = "report" =>
        LET i == EntryAt(Head(work).from)
            j == EntryAt(Head(work).to)
        IN  i # NoInode /\ j # NoInode /\ CopiedBelow(i, j)

\* Every command comes to its end, also a copy of a directory into itself,
\* which meets its own copy: it goes on until inodes or clusters run out.
CommandEnds == work # << >> ~> work = << >>
================================================================================
