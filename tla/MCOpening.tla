----------------------------- MODULE MCOpening -----------------------------
(***************************************************************************)
(* Instances of Opening.  Plain archives, installers with one payload, and *)
(* installers whose stub holds a resource that looks like another archive: *)
(* an earlier ZIP, RAR, gzip or unknown marker, a ZIP signature over noise,*)
(* a payload beyond the scan or beyond UnRAR's reach.                      *)
(***************************************************************************)
EXTENDS Opening

File(marks, zips) == [marks |-> marks, zips |-> zips]

Ordinary ==
    {File(<<"zip", "fill">>, {0}), File(<<"rar", "fill">>, {}),
     File(<<"gzip", "fill">>, {}), File(<<"fill", "fill">>, {})}

Installers ==
    {File(<<"stub", "zip", "fill">>, {1}),
     File(<<"stub", "fill", "rar", "fill">>, {}),
     File(<<"stub", "sevenz", "fill">>, {}),
     File(<<"stub", "gzip", "fill">>, {}),
     File(<<"stub", "gzip", "zip", "fill">>, {2}),
     File(<<"stub", "badzip", "zip", "fill">>, {2})}

Resources ==
    {File(<<"stub", "zip", "zip", "fill">>, {2}),
     File(<<"stub", "rar", "fill", "rar", "fill">>, {}),
     File(<<"stub", "fill", "rar", "rar", "fill">>, {}),
     File(<<"stub", "fill", "future", "rar", "fill">>, {}),
     File(<<"stub", "fill", "fill", "fill", "rar", "fill">>, {})}

MCContents == Ordinary \union Installers \union Resources

Bases(ops, suffixes, offsets, caps) ==
    [op : ops, suffix : suffixes, offset : offsets, cap : caps]

MCCalls ==
    Bases({"open", "open_encrypted", "open_sfx"}, {"exec", "plain"}, {0}, {4})
    \union Bases({"open"}, {"targzip"}, {0}, {4})
    \union Bases({"open_at_offset"}, {"exec", "plain"}, 1..4, {2, 4})
    \union Bases({"open_at_offset"}, {"exec"}, {0}, {4})
    \union Bases({"extract_stub"}, {"exec"}, 1..2, {4})

\* An installer inside an installer, and two payloads behind one stub.
NestedContents ==
    {File(<<"stub", "fill", "stub", "gzip", "fill">>, {}),
     File(<<"stub", "sevenz", "zip", "fill">>, {2})}

NestedCalls == Bases({"open_at_offset"}, {"exec"}, {2}, {4})
=============================================================================
