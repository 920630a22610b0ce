--------------------------- MODULE MCExternalRar ---------------------------
(***************************************************************************)
(* Two directories, a search list that starts with a relative entry, an    *)
(* rar of either side of the minimum, an unrar and a program that does not *)
(* name itself; two sources.                                               *)
(***************************************************************************)
EXTENDS ExternalRar

Program(flavor, major, minor) ==
    [flavor |-> flavor, major |-> major, minor |-> minor]

MCPrograms ==
    {Program("rar", 6, 24), Program("rar", 4, 20), Program("unrar", 6, 24),
     Program("silent", 0, 0)}

MCSearchLists == {<<".", "tools", "winrar">>}
=============================================================================
