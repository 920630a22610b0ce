-------------------------- MODULE MCArchiveRewrite --------------------------
EXTENDS ArchiveRewrite

CONSTANTS a, ab, wild

\* "a" lies above "a/b".
Ancestors == [p \in Paths |-> IF p = ab THEN {a} ELSE {}]

Of(p, type, n) == [path |-> p, type |-> type, data |-> 10 + n, odd |-> FALSE]
Odd(p, type, n) == [Of(p, type, n) EXCEPT !.odd = TRUE]

\* Any listing of up to two entries over two paths, one above the other, and
\* a few that a gate should refuse.
FewEntries ==
  {<< >>} \cup {<<Of(p, s, 1)>> : p \in {a, ab}, s \in Types}
  \cup {<<Of(p, s, 1), Of(q, t, 2)>> : p, q \in {a, ab}, s, t \in Types}
  \cup {<<Of(a, s, 1), Odd(ab, t, 2)>> :
          s \in {"dir", "link"}, t \in {"file", "link"}}
  \cup {<<Of(a, "dir", 1), Of(wild, t, 2)>> : t \in {"file", "link"}}

LongListings ==
  {<<Of(ab, "dir", 1), Of(a, "dir", 2)>>,
   <<Of(ab, "file", 1), Of(ab, "file", 2)>>,
   <<Of(a, "dir", 1), Of(ab, "link", 2), Of(a, "dir", 3)>>}

\* Any few entries in the last session, the others in all of them.
From(listings, n, left) ==
  {[listing |-> l, sessions |-> n, live |-> left] : l \in listings}
MCStarts == From(FewEntries, 2, 1) \cup From(LongListings, 1, 0)
LongStarts == From(LongListings, 2, 1)
=============================================================================
