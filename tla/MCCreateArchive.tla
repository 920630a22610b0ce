--------------------------- MODULE MCCreateArchive ---------------------------
(* Instances of CreateArchive for TLC: a path is the sequence of its names. *)
EXTENDS CreateArchive, TLC

Top  == <<"t">>
Leaf == <<"t", "f">>
Deep == <<"t", "f", "g">>

ThreePaths == {Top, Leaf, Deep}
ProperPrefixes == [p \in ThreePaths |-> {SubSeq(p, 1, n) : n \in 1..(Len(p) - 1)}]
DeepWalk == <<Top, Leaf, Deep>>
FlatWalk == <<Top, Leaf>>
=============================================================================
