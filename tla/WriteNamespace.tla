--------------------------- MODULE WriteNamespace ---------------------------
(***************************************************************************)
(* NamespaceTracker (src/src/write_namespace.rs) and the undo journal of   *)
(* NamespaceTxn (src/src/creation.rs): which archive-internal paths are    *)
(* claimed as files and which as directories.                              *)
(*                                                                         *)
(* A path is what normalize_dup_check_path makes of it: two spellings of   *)
(* one path are one element of Paths.  ancestor_paths is the function      *)
(* Above; it lists the ancestors from the shallowest down.                 *)
(***************************************************************************)
CONSTANTS Paths,
          Above     \* Above[p]: the proper ancestors of p

ASSUME PathAssumption ==
  /\ Above \in [Paths -> SUBSET Paths]
  /\ \A p \in Paths : p \notin Above[p]
  /\ \A p \in Paths : \A q \in Above[p] : Above[q] \subseteq Above[p]

Kinds == {"file", "dir"}
Namespaces == [files : SUBSET Paths, dirs : SUBSET Paths]
NoPaths == [files |-> {}, dirs |-> {}]

\* The ancestors that the sweep marks before it meets one that is a file.
Swept(ns, p) == {a \in Above[p] : (Above[a] \cup {a}) \cap ns.files = {}}

UnderFile(ns, p) == Above[p] \cap ns.files # {}

FileFits(ns, p) == p \notin ns.files \cup ns.dirs /\ ~UnderFile(ns, p)
DirFits(ns, p) == p \notin ns.files /\ ~UnderFile(ns, p)
Fits(ns, kind, p) == IF kind = "file" THEN FileFits(ns, p) ELSE DirFits(ns, p)

\* What the sets hold afterwards; a rejected record may have added some keys.
RecordFile(ns, p) ==
  IF p \in ns.files \cup ns.dirs THEN ns
  ELSE [files |-> ns.files \cup {p}, dirs |-> ns.dirs \cup Swept(ns, p)]

\* Mutant: the ancestors of a directory are neither checked nor reserved.
RecordDirAlone(ns, p) ==
  IF p \in ns.files THEN ns ELSE [ns EXCEPT !.dirs = @ \cup {p}]

RecordDir(ns, p) ==
  IF p \in ns.files THEN ns
  ELSE [files |-> ns.files,
        dirs  |-> ns.dirs \cup Swept(ns, p) \cup {q \in {p} : ~UnderFile(ns, q)}]

Record(ns, kind, p) ==
  IF kind = "file" THEN RecordFile(ns, p) ELSE RecordDir(ns, p)

\* Mutant: keys of an earlier add are journalled as well.
JournalAll(j, ns, kind, p) ==
  LET dirs == IF kind = "dir" THEN Above[p] \cup {p} ELSE Above[p]
  IN  [files |-> j.files \cup (IF kind = "file" THEN {p} ELSE {}),
       dirs  |-> j.dirs \cup dirs]

\* NamespaceTxn::journal, called before the live tracker is touched: the
\* keys of the same reservation in an empty tracker that ns lacks.
Journal(j, ns, kind, p) ==
  LET dirs == IF kind = "dir" THEN Above[p] \cup {p} ELSE Above[p]
  IN  [files |-> j.files \cup (IF kind = "file" THEN {p} \ ns.files ELSE {}),
       dirs  |-> j.dirs \cup (dirs \ ns.dirs)]

\* NamespaceUndo::apply
Undo(ns, j) == [files |-> ns.files \ j.files, dirs |-> ns.dirs \ j.dirs]

\* No path is both, and whatever lies above a claimed path is a directory.
Consistent(ns) ==
  /\ ns.files \cap ns.dirs = {}
  /\ \A p \in ns.files \cup ns.dirs : Above[p] \subseteq ns.dirs
=============================================================================
