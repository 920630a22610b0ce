--------------------------- MODULE MCReadHandle ---------------------------
(* Worlds for ReadHandle: one or two files of at most three entries, of one *)
(* or two units, behind reads of two units.                                 *)
EXTENDS ReadHandle

Plain == [kind |-> "file", crc |-> TRUE, declared |-> {2}, makes |-> 2,
          then |-> "eof", sum |-> TRUE, rest |-> 0, last |-> "eof",
          block |-> 0]

With(r, f) == f @@ r

Unsummed == With(Plain, [crc |-> FALSE])
Dir == With(Plain, [kind |-> "dir", declared |-> {}, makes |-> 0])
Unseen == With(Dir, [kind |-> "unseen"])
Short1 == With(Plain, [makes |-> 1])
BadSum == With(Plain, [sum |-> FALSE])
Corrupt(rest, end) ==
    With(Plain, [makes |-> 1, then |-> "corrupt", rest |-> rest,
                 last |-> end])
Misread == With(Plain, [makes |-> 1, then |-> "io"])
Locked == With(Plain, [makes |-> 0, then |-> "locked"])
Endless == With(Plain, [makes |-> 0, then |-> "endless"])
Unsized == With(Unsummed, [declared |-> {}, makes |-> 1])

Named(r, raw, name) == With(r, [raw |-> raw, name |-> name, path |-> name])

File(recs) == [recs |-> recs, toc |-> Len(recs), sound |-> TRUE,
               tail |-> "ends", blocks |-> <<>>, cut |-> FALSE]
Nothing == File(<<>>)
Names == <<"a", "b", "c">>
Distinct(es) ==
    File([k \in DOMAIN es |-> Named(es[k], Names[k], Names[k])])
Solid(es, blocks, block) ==
    With(File([k \in DOMAIN es |->
                 With(Named(es[k], Names[k], Names[k]),
                      [block |-> block[k]])]),
         [blocks |-> blocks])
OneBlock(es) ==
    Solid(es, <<[first |-> 1, count |-> Len(es)]>>, [k \in DOMAIN es |-> 1])
Then(f, g) == With(f, g)

-----------------------------------------------------------------------------
\* ZIP files by what is in their directories.
Twins == File(<<Named(Plain, "a", "a"), Named(Short1, "a", "a"),
                Named(Unsummed, "b", "b")>>)
\* Two spellings of one name.
Decoded == File(<<Named(Plain, "x", "n"), Named(Plain, "y", "n"),
                  Named(Unsummed, "b", "b")>>)
\* Such a collision beside an ordinary duplicate.
Masked == File(<<Named(Plain, "x", "n"), Named(Plain, "y", "n"),
                 Named(Plain, "a", "a"), Named(Plain, "a", "a")>>)
\* A record the end record does not count.
Uncounted == Then(File(<<Named(Plain, "a", "a"), Named(Plain, "b", "b"),
                         Named(Plain, "a", "a")>>), [toc |-> 2])
\* One spelling read two ways, and another of one of them.
Mixed == File(<<Named(Plain, "r", "m"), Named(Plain, "r", "n"),
                Named(Plain, "s", "n")>>)

Partial == Then(Distinct(<<Plain>>), [sound |-> FALSE])

Good == Distinct(<<Unsummed, Dir, Plain>>)
Other == Distinct(<<Plain, Unsummed, Unsummed>>)

World(b, fs) == [backend |-> b, files |-> fs]

ZipWorlds ==
    {World("zip", fs) : fs \in
       {<<f, Other>> : f \in {Good, Partial, Nothing, Twins, Decoded, Masked,
                              Uncounted}}
       \union {<<Distinct(es)>> : es \in
                 {<<e1, e2>> : e1, e2 \in
                    {Plain, Short1, BadSum, Corrupt(0, "eof"), Misread,
                     Locked}}}
       \union {<<Then(Good, [tail |-> "cut"])>>,
               <<Partial, Good, Other>>, <<Good, Nothing, Good>>}}

SevenzWorlds ==
    {World("sevenz", fs) : fs \in
       {<<OneBlock(<<Unsummed, Unsummed, Dir>>),
          OneBlock(<<Unsummed, Unsummed>>)>>,
        <<Then(OneBlock(<<Plain>>), [sound |-> FALSE]),
          OneBlock(<<Plain>>)>>,
        <<Then(OneBlock(<<Plain, Plain>>), [cut |-> TRUE])>>,
        <<Solid(<<Plain, Plain>>, <<[first |-> 1, count |-> 2],
                                    [first |-> 2, count |-> 1]>>, <<1, 1>>)>>,
        <<Solid(<<Plain, Dir, Corrupt(0, "fails")>>,
                <<[first |-> 1, count |-> 1], [first |-> 3, count |-> 1]>>,
                <<1, 0, 2>>)>>}
       \union {<<OneBlock(<<e1, e2, Plain>>)>> : e1, e2 \in
                 {Plain, Dir, Short1, BadSum, Endless, Misread, Locked,
                  Corrupt(0, "eof"), Corrupt(1, "eof"), Corrupt(2, "eof"),
                  Corrupt(0, "fails"), Corrupt(1, "fails")}}}

LibarchiveWorlds ==
    {World("libarchive", fs) : fs \in
       {<<Distinct(<<Unsummed, Unseen, Unsized>>),
          Distinct(<<Unsummed, Unsized, Unsummed>>)>>,
        <<Distinct(<<Unsummed>>), Nothing>>, <<Partial, Good, Other>>}
       \union {<<Distinct(<<e1, e2, Unsized>>)>> : e1, e2 \in
                 {Dir, Unseen, Short1, BadSum, Misread, Locked,
                  Corrupt(2, "eof"), Corrupt(1, "fails")}}}

MCWorlds == ZipWorlds \union SevenzWorlds \union LibarchiveWorlds
MixedWorlds == {World("zip", <<Mixed>>)}

List(budget) == [op |-> "list", budget |-> budget]
MCCalls ==
    {[op |-> o, budget |-> {}] : o \in {"test", "digest"}}
      \union {[op |-> "byname", budget |-> {}, path |-> p] :
                p \in {"a", "b", "n"}}
      \union {List({}), List({1})}
=============================================================================
