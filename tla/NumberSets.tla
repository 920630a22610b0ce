----------------------------- MODULE NumberSets -----------------------------
(* Finite sets in an order and in a sum, stated so that the provers can     *)
(* expand them.                                                             *)
EXTENDS Integers, Sequences, FiniteSets, FiniteSetsExt

\* A finite set of numbers in ascending order: the k-th has k of them up to
\* it.
Ascending(S) ==
    [k \in 1..Cardinality(S) |->
        CHOOSE x \in S : Cardinality({y \in S : y <= x}) = k]

\* The sum of a function over a finite set.
SumOver(f, S) == MapThenSumSet(LAMBDA x : f[x], S)
=============================================================================
