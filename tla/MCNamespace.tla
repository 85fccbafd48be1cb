----------------------------- MODULE MCNamespace -----------------------------
(* Instances of Namespace for TLC. *)
EXTENDS Commands

\* "a" is 2, "b" is 3.
PlainPaths == {<<2>>, <<3>>, <<2, 2>>, <<2, 3>>, <<3, 2>>, <<2, 2, 3>>}
TreePaths == {<<2>>, <<3>>, <<2, 3>>}
DottedPaths == {<<2>>, <<3>>, <<2, 3>>, <<3, 2>>, <<2, DotDot, 3>>}
LinkedPaths == {<<2>>, <<3>>, <<3, 3>>}
CmdPaths == {<<2>>, <<3>>, <<2, 3>>}
CopyPaths == {<<2>>, <<3>>}
NoTargets == {}
\* "b" is "a.sz".
ZippedNames == [name \in {2} |-> 3]
\* A link to a sibling "b", and one to "/a".
Links == {[absolute |-> FALSE, path |-> <<3>>],
          [absolute |-> TRUE, path |-> <<2>>]}
================================================================================
