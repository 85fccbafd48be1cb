------------------------------ MODULE MCVfsIo ------------------------------
(***************************************************************************)
(* Small descriptor tables for TLC.                                        *)
(***************************************************************************)
EXTENDS VfsFiles

CONSTANTS f1, f2

\* One file of one word, or two files with a word of their own each.
OneWord == f1 :> {1}
OwnWords == f1 :> {1} @@ f2 :> {2}

Truncating == {{"read", "write", "create", "truncate"}}
TruncateToo == {{"read", "write", "create"}, {"write", "create", "truncate"}}
EveryMode == {{"read"}, {"read", "write", "create"}, {"read", "write", "append"},
              {"write", "create", "truncate"}}
==========================================================================
