------------------------------- MODULE NameTree -------------------------------
(***************************************************************************)
(* What the namespace promises programs: a tree.  Every object but the top *)
(* is nowhere or in one place, a name in a directory; a call puts one      *)
(* object in a free place, moves one, with what is below it, to a free     *)
(* place outside of itself, or takes out one that is empty and not held.   *)
(***************************************************************************)
EXTENDS Naturals, FiniteSets

CONSTANTS Objects, Top, NameSet, Nowhere

VARIABLES
    place,  \* [dir, name] of every object, or Nowhere
    kind,   \* of every object that is somewhere
    held    \* objects some program has open

vars == <<place, kind, held>>

InTree(o) == o = Top \/ place[o] # Nowhere

\* The places where something can be put.
Free ==
    LET now == place
    IN  [dir : {d \in Objects : kind[d] = "directory"}, name : NameSet]
            \ {now[o] : o \in Objects}

Inside(o) ==
    LET now == place
    IN  {c \in Objects : now[c] # Nowhere /\ now[c].dir = o}

\* Everything below o, o included.
Below(o) ==
    LET now == place
        from[objects \in SUBSET Objects] ==
            LET deeper == objects \cup
                              {c \in Objects : now[c] # Nowhere
                                               /\ now[c].dir \in objects}
            IN  IF deeper = objects THEN objects ELSE from[deeper]
    IN  from[{o}]

Init ==
    /\ place = [o \in Objects |-> Nowhere]
    /\ kind = [o \in Objects |-> IF o = Top THEN "directory" ELSE "none"]
    /\ held = {}

\* Only o goes to another place.
Replaced(o) == place' = [place EXCEPT ![o] = place'[o]]

\* A new object; a file may be opened by the same call.
Add(o) ==
    /\ ~InTree(o)
    /\ Replaced(o)
    /\ place'[o] \in Free
    /\ kind'[o] \in {"regular", "directory", "symlink"}
    /\ kind' = [kind EXCEPT ![o] = kind'[o]]
    /\ \/ held' = held
       \/ kind'[o] = "regular" /\ held' = held \cup {o}

Drop(o) ==
    /\ place[o] # Nowhere
    /\ o \notin held
    /\ Replaced(o)
    /\ place'[o] = Nowhere
    /\ Inside(o) = {}
    /\ kind' = [kind EXCEPT ![o] = "none"]
    /\ UNCHANGED held

Move(o) ==
    /\ place[o] # Nowhere
    /\ Replaced(o)
    /\ place'[o] \in Free
    /\ place'[o].dir \notin Below(o)
    /\ UNCHANGED <<kind, held>>

Hold(o) ==
    /\ InTree(o) /\ kind[o] = "regular"
    /\ held' = held \cup {o}
    /\ UNCHANGED <<place, kind>>

Release(o) ==
    /\ held' = held \ {o}
    /\ UNCHANGED <<place, kind>>

\* A call that fails.
Nothing == UNCHANGED vars

Next ==
    \/ Nothing
    \/ \E o \in Objects \ {Top} :
          Hold(o) \/ Release(o) \/ Add(o) \/ Move(o) \/ Drop(o)

Spec == Init /\ [][Next]_vars
================================================================================
