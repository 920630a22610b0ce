--------------------------- MODULE MCModifySession ---------------------------
(* Instances of ModifySession for TLC.                                      *)
EXTENDS ModifySession, TLC

\* Two sessions differ in nothing but their names.
Symmetry == Permutations(Sessions)
=============================================================================
