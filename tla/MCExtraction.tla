---------------------------- MODULE MCExtraction ----------------------------
(* Instances of Extraction for TLC: a path is the sequence of its names.   *)
EXTENDS Extraction, TLC

A == <<"a">>
B == <<"a", "b">>
C == <<"c">>

ThreePaths == {A, B, C}
ProperPrefixes == [p \in ThreePaths |-> {SubSeq(p, 1, n) : n \in 1..(Len(p) - 1)}]

File(p, size, data) == [name |-> p, kind |-> "file", size |-> size, data |-> data]
Dir(p) == [name |-> p, kind |-> "dir", size |-> 0, data |-> 0]
Link(p) == [name |-> p, kind |-> "link", size |-> 0, data |-> 0]
Bare == [name |-> A, kind |-> "nameless", size |-> 0, data |-> 0]

\* Honest archives, one past the limits, archives whose sizes lie, names that clash, a directory
\* before and after its file, a link, and a record without a name.
SomeArchives ==
  {<<Dir(A), File(B, 1, 1), File(C, 2, 2)>>,
   <<File(B, 2, 2), Dir(A)>>,
   <<File(C, 1, 2), Link(A)>>,
   <<File(C, 2, 1)>>,
   <<File(C, 2, 2), File(B, 1, 1)>>,
   <<File(A, 1, 1), File(B, 1, 1)>>,
   <<File(B, 1, 1), Dir(B)>>,
   <<File(B, 1, 1), File(A, 1, 1)>>,
   <<File(C, -1, 2), Bare, File(B, -1, 2)>>,
   <<File(C, -1, 1), File(B, 1, 1)>>,
   <<File(C, 4, 4)>>}
=============================================================================
