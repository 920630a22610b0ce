----------------------------- MODULE VolumeSet -----------------------------
(***************************************************************************)
(* Volume names and the sets they form (format/multipart.rs): which set a  *)
(* name belongs to, which group of candidates is the set, and what is      *)
(* missing from it.  Only names decide: nothing here opens a file.         *)
(*                                                                         *)
(* A file name is a record: base, the tag its suffix starts with, and the  *)
(* value and width of its digit run.  Base names are numbers, so that      *)
(* they have the order the tie-breaks use.                                 *)
(***************************************************************************)
EXTENDS NumberSets, SequencesExt

MAX_VOL_DIGITS == 9

Schemes == <<"RarPart", "RarOldStyle", "ZipSplit", "Numeric">>
Rank(scheme) == CHOOSE i \in DOMAIN Schemes : Schemes[i] = scheme

HasRun(name) == name.width \in 1..MAX_VOL_DIGITS
HasNumber(name) == HasRun(name) /\ name.value # 0

\* A rejected .partN run stays in the base name of the old-style main volume.
Swallowed(name) == name.base * 1000 + name.width * 10 + name.value

NoVolume == [scheme |-> "none"]
VolumeName(name, scheme, number) ==
  [scheme |-> scheme, base |-> name.base, number |-> number,
   numbered |-> TRUE, width |-> name.width, file |-> name]
MainVolume(name, scheme, base) ==
  [scheme |-> scheme, base |-> base, number |-> 1,
   numbered |-> FALSE, width |-> 0, file |-> name]

parse_volume_name(name) ==
  CASE name.tag = "part" /\ HasNumber(name)
         -> VolumeName(name, "RarPart", name.value)
    [] name.tag = "part" /\ ~HasNumber(name)
         -> MainVolume(name, "RarOldStyle", Swallowed(name))
    [] name.tag = "rar" -> MainVolume(name, "RarOldStyle", name.base)
    [] name.tag = "zip" -> MainVolume(name, "ZipSplit", name.base)
    [] name.tag = "z" /\ HasNumber(name)
         -> VolumeName(name, "ZipSplit", name.value + 1)
    [] name.tag = "r" /\ name.width = 2
         -> VolumeName(name, "RarOldStyle", name.value + 2)
    [] name.tag = "s" /\ name.width = 2
         -> VolumeName(name, "RarOldStyle", name.value + 102)
    [] name.tag = "digit" /\ HasNumber(name)
         -> VolumeName(name, "Numeric", name.value)
    [] OTHER -> NoVolume

DigitsOf(n) == IF n < 10 THEN 1 ELSE IF n < 100 THEN 2 ELSE 3
Larger(m, n) == IF m >= n THEN m ELSE n

\* The name volume `number` would carry: zero padding never cuts digits off.
expected_name(set, number) ==
  LET default == CASE set.scheme = "RarPart" -> 1
                   [] set.scheme = "Numeric" -> 3
                   [] OTHER -> 2
      padded == IF set.width = 0 THEN default ELSE set.width
      Run(tag, n, w) == [base |-> set.base, tag |-> tag, value |-> n,
                         width |-> Larger(w, DigitsOf(n))]
      Main(tag) == [base |-> set.base, tag |-> tag, value |-> 0, width |-> 0]
  IN CASE set.scheme = "RarPart" -> Run("part", number, padded)
       [] set.scheme = "RarOldStyle" /\ number <= 1 -> Main("rar")
       [] set.scheme = "RarOldStyle" /\ number \in 2..101
            -> Run("r", number - 2, 2)
       [] set.scheme = "RarOldStyle" /\ number > 101
            -> Run("s", number - 102, 2)
       [] set.scheme = "ZipSplit" /\ number <= 1 -> Main("zip")
       [] set.scheme = "ZipSplit" /\ number > 1
            -> Run("z", number - 1, padded)
       [] set.scheme = "Numeric" -> Run("digit", number, padded)

\* The names that are a volume's, each at its place in the caller's order.
Candidates(names) ==
  LET parsed == [i \in DOMAIN names |-> parse_volume_name(names[i])]
  IN Restrict(parsed, {i \in DOMAIN names : parsed[i] # NoVolume})

KeyOf(c) == <<c.scheme, c.base>>
Numbered(cands) == Restrict(cands, {i \in DOMAIN cands : cands[i].numbered})
InGroup(cands, key) ==
  Restrict(cands, {i \in DOMAIN cands : KeyOf(cands[i]) = key})
Count(cands) == Cardinality(DOMAIN cands)

\* The larger group: numbered members, then members, then scheme, then base.
Outranks(cands, k, l) ==
  LET nk == Count(Numbered(InGroup(cands, k)))
      nl == Count(Numbered(InGroup(cands, l)))
      tk == Count(InGroup(cands, k))
      tl == Count(InGroup(cands, l))
  IN \/ nk > nl
     \/ nk = nl /\ tk > tl
     \/ nk = nl /\ tk = tl /\ Rank(k[1]) < Rank(l[1])
     \/ nk = nl /\ tk = tl /\ k[1] = l[1] /\ k[2] < l[2]

NoKey == <<>>
dominant_key(cands) ==
  LET keys == {KeyOf(cands[i]) : i \in DOMAIN cands}
  IN IF keys = {} THEN NoKey
     ELSE CHOOSE k \in keys : \A l \in keys \ {k} : Outranks(cands, k, l)

\* The digit width, and the base, of the lowest member: the first in the
\* caller's order when two claim the same number.
FirstLowest(cands) ==
  LET low == CHOOSE i \in DOMAIN cands :
               \A j \in DOMAIN cands :
                 \/ cands[i].number < cands[j].number
                 \/ cands[i].number = cands[j].number /\ i <= j
  IN cands[low]

\* By number, then by path: of two spellings of a number the padded one comes
\* first.  A repeated number stays in the list.
SortKey(c) == c.number * (MAX_VOL_DIGITS + 1) + (MAX_VOL_DIGITS - c.width)
Sorted(members) ==
  LET cands == {members[i] : i \in DOMAIN members}
      keys == Ascending({SortKey(c) : c \in cands})
  IN [k \in DOMAIN keys |-> CHOOSE c \in cands : SortKey(c) = keys[k]]

assemble_set(key, members) ==
  LET marks == Numbered(members)
  IN [scheme |-> key[1], base |-> key[2],
      width |-> IF Count(marks) = 0 THEN 0 ELSE FirstLowest(marks).width,
      volumes |-> Sorted(members)]

NumbersOf(set) == {set.volumes[i].number : i \in DOMAIN set.volumes}

LeadingGap(set) ==
  {[kind |-> "first", first |-> 1, last |-> n - 1,
    expected |-> expected_name(set, 1)] :
     n \in {n \in NumbersOf(set) : n > 1 /\ \A k \in NumbersOf(set) : n <= k}}
InteriorGaps(set) ==
  {[kind |-> "missing", first |-> pair[1] + 1, last |-> pair[2] - 1,
    expected |-> expected_name(set, pair[1] + 1)] :
     pair \in {pair \in NumbersOf(set) \X NumbersOf(set) :
                 /\ pair[2] > pair[1] + 1
                 /\ \A k \in NumbersOf(set) : k <= pair[1] \/ k >= pair[2]}}
Repeats(set) ==
  {[kind |-> "duplicate", number |-> n] :
     n \in {n \in NumbersOf(set) :
              \E i, j \in DOMAIN set.volumes :
                 /\ i # j
                 /\ set.volumes[i].number = n
                 /\ set.volumes[j].number = n}}
continuity_defects(set) ==
  LeadingGap(set) \union InteriorGaps(set) \union Repeats(set)

\* What shares the directory without being a member; never a defect.
Unrelated(cands, key) ==
  {[kind |-> IF cands[i].scheme # key[1] THEN "scheme" ELSE "base",
    file |-> cands[i].file] :
     i \in {i \in DOMAIN cands : KeyOf(cands[i]) # key}}

Unvolumed(unrelated) ==
  [kind |-> "Unvolumed", defects |-> {}, unrelated |-> unrelated]

build_report(names, anchor) ==
  LET cands == Candidates(names)
      key == IF anchor # NoKey THEN anchor ELSE dominant_key(cands)
      members == InGroup(cands, key)
      unrelated == Unrelated(cands, key)
      set == assemble_set(key, members)
      defects == continuity_defects(set)
  IN IF key = NoKey THEN Unvolumed({})
     ELSE IF Count(Numbered(members)) = 0 THEN Unvolumed(unrelated)
     ELSE [kind |-> IF defects = {} THEN "Complete" ELSE "Incomplete",
           set |-> set, defects |-> defects, unrelated |-> unrelated]

parse_volume_set(names) == build_report(names, NoKey)
parse_volume_set_for(source, names) ==
  LET parsed == parse_volume_name(source)
  IN build_report(names, IF parsed = NoVolume THEN NoKey ELSE KeyOf(parsed))

\* What a handle over `source` says of its directory; `multipart` is whether
\* its format comes in volumes.  A source that is no volume is never bound to
\* the largest set beside it.
volume_set_report(source, names, multipart) ==
  IF ~multipart \/ parse_volume_name(source) = NoVolume THEN Unvolumed({})
  ELSE parse_volume_set_for(source,
         <<source>> \o SelectSeq(names, LAMBDA n : n # source))

PathsOf(set) == [i \in DOMAIN set.volumes |-> set.volumes[i].file]

\* The older answers, which keep the paths and drop what is wrong with them.
detect_multipart(source, report) ==
  IF report.kind = "Unvolumed" THEN <<source>> ELSE PathsOf(report.set)

multipart_layout(source, report) ==
  LET parts == detect_multipart(source, report) IN
  [kind |-> IF Len(parts) > 1 THEN "Multi" ELSE "Single", parts |-> parts]
=============================================================================
