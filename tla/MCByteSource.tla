---------------------------- MODULE MCByteSource ----------------------------
(* Handles over a plain file, with and without a stub before the archive,   *)
(* and over numbered sets: whole, with an empty volume, with a gap, with    *)
(* two spellings of one number, alone, and beside another set.              *)
EXTENDS ByteSource

Name(base, tag, value, width) ==
  [base |-> base, tag |-> tag, value |-> value, width |-> width]
Plain == Name(1, "none", 0, 0)
V1 == Name(1, "digit", 1, 3)
V2 == Name(1, "digit", 2, 3)
V3 == Name(1, "digit", 3, 3)
Short2 == Name(1, "digit", 2, 1)
Other1 == Name(2, "digit", 1, 3)

\* The names of the directory in order, the file of the i-th being i.
Start(path, offset, names, sizes) ==
  [path |-> path, payload_offset |-> offset,
   disk |-> [n \in {names[i] : i \in DOMAIN names} |->
               LET i == CHOOSE i \in DOMAIN names : names[i] = n
               IN IF sizes[i] < 0 THEN 0 ELSE i],
   size |-> [f \in 1..(FirstFresh + Meddles) |->
               IF f \in DOMAIN sizes /\ sizes[f] > 0 THEN sizes[f] ELSE 0]]

MCStarts ==
  {Start(Plain, 0, <<Plain>>, <<3>>),
   Start(Plain, 1, <<Plain>>, <<3>>),
   Start(Plain, 2, <<Plain>>, <<1>>),
   Start(V1, 0, <<V1, V2>>, <<2, 2>>),
   Start(V2, 0, <<V1, V2, V3>>, <<2, 0, 2>>),
   Start(V1, 0, <<V1, V2, V3, Other1>>, <<1, -1, 1, 1>>),
   Start(V1, 0, <<V1, V2, Short2>>, <<1, 1, 1>>),
   Start(V1, 0, <<V1, V2>>, <<2, -1>>),
   Start(V1, 0, <<V1, V2>>, <<4, 3>>)}
MCSetStarts == {Start(V1, 0, <<V1, V2>>, <<2, 2>>)}

\* Directories of old-style, numbered and strange names: a main volume, three
\* continuations, two of another base, a rejected run and a plain file.
Beside ==
  <<Name(1, "rar", 0, 0), Name(1, "r", 0, 2), Name(1, "r", 1, 2),
    Name(1, "s", 0, 2), Name(2, "part", 1, 1), Name(2, "part", 2, 2),
    Name(2, "part", 0, 1), Plain>>
Directory(present) == SelectSeq(Beside, LAMBDA n : n \in present)
ReportFrom(opened, present) ==
  volume_set_report(opened, Directory(present), TRUE)

\* The report does not depend on which member was opened, holds the opened
\* one, and calls a set complete exactly when it is numbered from 1 without
\* a gap or a repeat.  (Archive::volume_set_report; OI-0001-006)
ASSUME ReportOfAnyMember ==
  \A present \in SUBSET ToSet(Beside) :
    \A opened \in present :
      LET r == ReportFrom(opened, present) IN
      r.kind # "Unvolumed" =>
        /\ opened \in ToSet(PathsOf(r.set))
        /\ \A member \in ToSet(PathsOf(r.set)) :
             LET s == ReportFrom(member, present)
             IN  <<s.kind, s.defects, s.unrelated, ToSet(s.set.volumes)>> =
                 <<r.kind, r.defects, r.unrelated, ToSet(r.set.volumes)>>
        /\ (r.kind = "Complete") <=>
             [i \in DOMAIN r.set.volumes |-> r.set.volumes[i].number]
               = [i \in DOMAIN r.set.volumes |-> i]

\* A layout of several volumes is the same whichever of them was opened, and
\* a single one is the opened file.
ASSUME LayoutOfAnyMember ==
  \A present \in SUBSET ToSet(Beside) :
    \A opened \in present :
      LET LayoutFrom(n) == multipart_layout(n, ReportFrom(n, present))
          l == LayoutFrom(opened)
      IN IF l.kind = "Single" THEN l.parts = <<opened>>
         ELSE \A member \in ToSet(l.parts) :
                LayoutFrom(member).kind = "Multi"
                  /\ ToSet(LayoutFrom(member).parts) = ToSet(l.parts)

\* The set found without an opened member is the one a member of it would
\* report, and no other set of the directory has more volumes.
ASSUME DominantIsLargest ==
  \A present \in SUBSET ToSet(Beside) :
    LET found == parse_volume_set(Directory(present)) IN
    found.kind # "Unvolumed" =>
      /\ \E member \in present :
           found = parse_volume_set_for(member, Directory(present))
      /\ \A member \in present :
           LET other == ReportFrom(member, present) IN
           other.kind # "Unvolumed" =>
             Len(other.set.volumes) <= Len(found.set.volumes)

MCDeltas == {-3, -1, 0, 2}
=============================================================================
