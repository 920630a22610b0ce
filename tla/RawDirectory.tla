---------------------------- MODULE RawDirectory ----------------------------
(* The raw central directory of a ZIP file against the view the `zip` crate *)
(* has of it (src/ffi/zip_wrapper/raw_directory.rs and the scan in          *)
(* zip_wrapper.rs).  The crate keys its records by decoded name, so records *)
(* of one name collapse into the last of them; the scan counts the records  *)
(* by their raw bytes and says which names are ambiguous, and whether the   *)
(* collapse is explained by those.                                          *)
(*                                                                          *)
(* A record has the bytes of its name (`raw`), what they decode to (`name`) *)
(* and the normalized path of that (`path`).  `toc` is how many records the *)
(* end record declares, `tail` how the directory ends on disk.              *)
EXTENDS NumberSets, SequencesExt

\* The records of the crate's view, one per name: in the order the names
\* first appear, the last record of each.
Crate(a) ==
    LET Same(i) == {j \in 1..a.toc : a.recs[j].name = a.recs[i].name}
        Firsts == {i \in 1..a.toc : i = Min(Same(i))}
        order == Ascending(Firsts)
    IN [k \in DOMAIN order |-> Max(Same(order[k]))]

Spelled(a, raw) == {i \in DOMAIN a.recs : a.recs[i].raw = raw}

\* The paths the listing shows for records of these bytes.
ListedFor(a, raw) ==
    {a.recs[i].path : i \in {j \in Range(Crate(a)) : a.recs[j].raw = raw}}

Repeated(a) ==
    {raw \in {a.recs[i].raw : i \in DOMAIN a.recs} :
        /\ Cardinality(Spelled(a, raw)) > 1
        /\ ListedFor(a, raw) # {}}

duplicate_names(a) == UNION {ListedFor(a, raw) : raw \in Repeated(a)}

Attributed(a) ==
    SumOver([raw \in Repeated(a) |->
                Max({0, Cardinality(Spelled(a, raw))
                          - Cardinality(ListedFor(a, raw))})], Repeated(a))

\* Records are missing from the view that no listed name accounts for.
any_undetected(a) ==
    \/ Attributed(a) < Max({0, Len(a.recs) - Len(Crate(a))})
    \/ Len(a.recs) < Len(Crate(a))

is_collapsed(a) == any_undetected(a) \/ duplicate_names(a) # {}

\* Mutant: a name is safe when the counts agree.
AmbiguousByCount(a, path) == any_undetected(a)

Ambiguous(a, path) == any_undetected(a) \/ path \in duplicate_names(a)

\* What the guard on a name stands for: no other record has its path.
IsTheOnlyRecord(a, path) ==
    Cardinality({i \in DOMAIN a.recs : a.recs[i].path = path}) = 1

\* Records of the same bytes decode alike: none of them says that its name
\* is UTF-8 where another does not.
DecodesAlike(a) ==
    \A i, j \in DOMAIN a.recs :
        /\ a.recs[i].raw = a.recs[j].raw => a.recs[i].name = a.recs[j].name
        /\ a.recs[i].name = a.recs[j].name => a.recs[i].path = a.recs[j].path
=============================================================================
