--------------------------------- MODULE Paths ---------------------------------
(***************************************************************************)
(* From a path to an inode: src/vfs/path.c, and the command line's own     *)
(* normal form of a path, cli/src/utils.c.                                 *)
(*                                                                         *)
(* A path is a sequence of components and starts at the root, with or      *)
(* without a leading slash.  The components "." and ".." are first removed *)
(* from the text, then the rest is walked from the root; a symbolic link   *)
(* replaces whatever is left of the walk by its own target, in which "."   *)
(* and ".." are looked up as they come.                                    *)
(***************************************************************************)
EXTENDS Integers, Directories

CONSTANTS
    MaxLinks,       \* links after which a walk is given up (8 in the code)
    MaxTarget,      \* components of the longest link target
    MaxDepth        \* components the command line keeps (64 in the code)

ASSUME PathsAssumption ==
    MaxLinks \in Nat \ {0} /\ MaxTarget \in Nat /\ MaxDepth \in Nat

Slash == -1             \* in the text of a path, no component

\* The text "/c1/c2/..." with every run of slashes made one.
TextOf(path) == FoldLeft(LAMBDA text, c : text \o <<Slash, c>>, << >>, path)

\* One component of the text is copied, dropped, or takes back what was
\* copied last: always a slash, and the name before it if there is one.
CopyComponent(text, c) ==
    CASE c = Dot -> text
      [] c = DotDot /\ Len(text) > 1 ->
            LET shorter == Front(text)
            IN  IF shorter # << >> /\ Last(shorter) # Slash
                THEN Front(shorter) ELSE shorter
      [] c = DotDot /\ Len(text) <= 1 -> text
      [] OTHER -> Append(text, c)

\* What lies between the slashes.
WordsOf(text) ==
    FoldLeft(LAMBDA words, c : IF c = Slash THEN words ELSE Append(words, c),
             << >>, text)

RelativeComponents(path) ==
    WordsOf(FoldLeft(CopyComponent, << >>, TextOf(path)))

\* Mutant of KeepComponent: a ".." at the root is kept as a name.
KeepComponentAboveRoot(kept, c) ==
    CASE c = Dot -> kept
      [] c = DotDot -> IF kept = << >> THEN <<c>> ELSE Front(kept)
      [] OTHER -> IF Len(kept) < MaxDepth THEN Append(kept, c) ELSE kept

\* Where "cd" says it is, and what mkdir makes: components beyond MaxDepth
\* are dropped.
KeepComponent(kept, c) ==
    CASE c = Dot -> kept
      [] c = DotDot -> IF kept = << >> THEN kept ELSE Front(kept)
      [] OTHER -> IF Len(kept) < MaxDepth THEN Append(kept, c) ELSE kept

NormalizeFsPath(path) == FoldLeft(KeepComponent, << >>, path)

--------------------------------------------------------------------------------
(* The walk: [at, rest, links, ok]. *)

FollowLink(w, target) ==
    [w EXCEPT !.at = IF target.absolute THEN Root ELSE @,
              !.rest = target.path,
              !.links = @ + 1]

Enter(fs, w, name) ==
    LET next == FindEntry(fs, w.at, name)
        left == [w EXCEPT !.rest = Tail(@)]
    IN  IF next = NoInode THEN [left EXCEPT !.ok = FALSE]
        ELSE IF fs.node[next].type = "symlink" /\ name # DotDot
        THEN FollowLink(left, fs.node[next].target)
        ELSE [left EXCEPT !.at = next]

Advance(fs, w) ==
    IF w.rest = << >> \/ ~w.ok \/ w.links >= MaxLinks THEN w
    ELSE IF Head(w.rest) = Dot THEN [w EXCEPT !.rest = Tail(@)]
    ELSE Enter(fs, w, Head(w.rest))

\* The inode a path leads to, or NoInode.
ResolvePath(fs, path) ==
    LET start == [at |-> Root, rest |-> RelativeComponents(path),
                  links |-> 0, ok |-> TRUE]
        steps == Len(path) + MaxLinks * MaxTarget
        walk[n \in 0 .. steps] ==
            IF n = 0 THEN start ELSE Advance(fs, walk[n - 1])
        end == walk[steps]
    IN  IF end.ok /\ end.links < MaxLinks THEN end.at ELSE NoInode

\* The directory part is resolved, the last component is not looked at.
ParentOf(fs, path) ==
    IF Len(path) = 1 THEN Root ELSE ResolvePath(fs, Front(path))

--------------------------------------------------------------------------------
(* The two normal forms. *)

\* A ".." directly after "." or "..", where path.c goes wrong: /a/./.. is /a.
DotsTogether(path) ==
    \E k \in 2 .. Len(path) : path[k] = DotDot /\ path[k - 1] \in {Dot, DotDot}

\* For all other paths the normal form of path.c and that of utils.c are the
\* same.
FormsAgree(path) ==
    ~DotsTogether(path) => RelativeComponents(path) = NormalizeFsPath(path)
================================================================================
