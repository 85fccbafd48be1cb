----------------------------- MODULE WordFiles -----------------------------
(***************************************************************************)
(* What open files promise a program that opens each file once and does    *)
(* not seek past its end, on a disk that works but may be full: a file is  *)
(* a sequence of words, a read delivers the words at the position, a write *)
(* replaces or appends words there.  No cache, no clusters.                *)
(***************************************************************************)
EXTENDS Naturals, Sequences

CONSTANTS
  Inode,
  Fd,
  Absent     \* the content of a file that does not exist

VARIABLES
  content,   \* content[i]: the words of file i, or Absent
  opened,    \* opened[f]: [open, inode, pos] of descriptor f
  call,      \* [op, fd, left, word] of the call in progress
  ret        \* [status, data, missing] of the last call or round

vars == <<content, opened, call, ret>>

Idle == call.op = "none"
Returned(status) == ret'.status = status /\ ret'.data = <<>> /\ ret'.missing = 0

Init ==
  /\ content = [i \in Inode |-> Absent]
  /\ \A f \in Fd : ~opened[f].open
  /\ call.op = "none"
  /\ ret = [status |-> "ok", data |-> <<>>, missing |-> 0]

OthersKept(f) == \A g \in Fd \ {f} : opened'[g] = opened[g]

\* Opening creates the file, empties it or leaves it alone, also when there
\* is no descriptor left.
Open ==
  /\ Idle /\ UNCHANGED call
  /\ \E i \in Inode :
       /\ \A f \in Fd : opened[f].open => opened[f].inode # i
       /\ content' \in {[content EXCEPT ![i] = <<>>]}
                       \cup (IF content[i] = Absent THEN {} ELSE {content})
       /\ \/ \E f \in Fd :
               /\ ~opened[f].open
               /\ \E pos \in {0, Len(content'[i])} :
                    opened'[f] = [open |-> TRUE, inode |-> i, pos |-> pos]
               /\ OthersKept(f)
               /\ Returned("ok")
          \/ /\ \A f \in Fd : opened[f].open
             /\ UNCHANGED opened
             /\ Returned("error")

Remove ==
  /\ Idle /\ UNCHANGED <<opened, call>>
  /\ \E i \in Inode :
       /\ content[i] # Absent
       /\ \A f \in Fd : opened[f].open => opened[f].inode # i
       /\ content' = [content EXCEPT ![i] = Absent]
  /\ Returned("ok")

Close ==
  /\ Idle /\ UNCHANGED <<content, call>>
  /\ \E f \in Fd :
       /\ opened[f].open
       /\ OthersKept(f)
       /\ \/ Returned("ok") /\ ~opened'[f].open
          \/ Returned("error") /\ opened'[f] = opened[f]

Seek ==
  /\ Idle /\ UNCHANGED <<content, call>>
  /\ \E f \in Fd :
       /\ opened[f].open
       /\ OthersKept(f)
       /\ \/ /\ \E p \in 0 .. Len(content[opened[f].inode]) :
                  opened'[f] = [opened[f] EXCEPT !.pos = p]
             /\ Returned("ok")
          \/ Returned("error") /\ UNCHANGED opened

\* A read call delivers all that was asked for and is there.
Start ==
  /\ Idle /\ UNCHANGED <<content, opened>>
  /\ Returned("none")
  /\ \/ call'.op = "destroy"
     \/ /\ call'.op \in {"read", "write"}
        /\ call'.left > 0
        /\ opened[call'.fd].open
        /\ LET d == opened[call'.fd]
           IN  call'.op = "read" => d.pos + call'.left <= Len(content[d.inode])

Advance(n) ==
  /\ opened' = [opened EXCEPT ![call.fd].pos = @ + n]
  /\ \/ n = call.left /\ call'.op = "none" /\ ret'.status = "ok"
     \/ n < call.left /\ call' = [call EXCEPT !.left = @ - n] /\ ret'.status = "none"

Read ==
  /\ call.op = "read"
  /\ UNCHANGED content
  /\ \E n \in 1 .. call.left :
       LET d == opened[call.fd]
       IN  /\ Advance(n)
           /\ ret'.data = SubSeq(content[d.inode], d.pos + 1, d.pos + n)
           /\ ret'.missing = 0

\* A write call may give up, after or before a piece of its words.
Overlay(words, pos, n, word) ==
  [k \in 1 .. (IF pos + n > Len(words) THEN pos + n ELSE Len(words)) |->
     IF pos < k /\ k <= pos + n THEN word ELSE words[k]]

GiveUp == call'.op = "none" /\ Returned("error")

Write ==
  /\ call.op = "write"
  /\ \/ GiveUp /\ UNCHANGED <<content, opened>>
     \/ \E n \in 1 .. call.left :
          LET d == opened[call.fd]
          IN  /\ content' = [content EXCEPT ![d.inode] = Overlay(@, d.pos, n, call.word)]
              /\ \/ Advance(n) /\ ret'.data = <<>> /\ ret'.missing = 0
                 \/ GiveUp /\ opened' = [opened EXCEPT ![call.fd].pos = @ + n]

\* The table goes away: what a full disk kept in the caches is lost.
Destroy ==
  /\ call.op = "destroy"
  /\ \E f \in Fd :
       /\ opened[f].open /\ ~opened'[f].open
       /\ OthersKept(f)
       /\ \A i \in Inode \ {opened[f].inode} : content'[i] = content[i]
  /\ call'.op \in {"none", "destroy"}

Next == \/ Open \/ Remove \/ Close \/ Seek \/ Start \/ Read \/ Write \/ Destroy

Spec == Init /\ [][Next]_vars
==========================================================================
