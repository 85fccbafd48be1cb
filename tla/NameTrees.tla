------------------------------ MODULE NameTrees ------------------------------
(***************************************************************************)
(* The names that can be reached from the root make a tree: Namespace      *)
(* implements NameTree.                                                    *)
(***************************************************************************)
EXTENDS Namespace

CONSTANT Nowhere

ASSUME NowhereAssumption == Nowhere \notin [dir : Inodes, name : Names]

\* Where each inode is entered; in a tree that is one place.
PlaceOf ==
    LET entered == UNION {{[inode |-> e.inode,
                            place |-> [dir |-> dir, name |-> e.name]] :
                              e \in Named(dir)} : dir \in Reachable}
    IN  [i \in Inodes |->
            IF \E p \in entered : p.inode = i /\ i # Root
            THEN (CHOOSE p \in entered : p.inode = i).place
            ELSE Nowhere]

KindOf ==
    LET within == Reachable
    IN  [i \in Inodes |-> IF i \in within THEN fs.node[i].type ELSE "none"]

HeldOf == {opened[d] : d \in Descriptors} \ {NoInode}

Tree == INSTANCE NameTree WITH
    Objects <- Inodes,
    Top <- Root,
    NameSet <- Names,
    place <- PlaceOf,
    kind <- KindOf,
    held <- HeldOf

\* Whatever paths lead to a file or directory, and whichever calls fail, a
\* call changes the place of one object at most, only to a free place, never
\* below itself, and takes out none that is open or has something inside.
ImplementsNameTree == Tree!Spec
================================================================================
