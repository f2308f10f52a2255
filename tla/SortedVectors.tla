----------------------------- MODULE SortedVectors -----------------------------
(***************************************************************************)
(* Vectors of different numbers, as the library functions on sorted ranges *)
(* leave and take them.                                                    *)
(***************************************************************************)
EXTENDS SequencesExt

Increasing(l) == \A i, j \in DOMAIN l : i < j => l[i] < l[j]

\* The numbers of S in ascending order: each has its place from the smaller ones.
increasing(S) ==
    [i \in 1..Cardinality(S) |-> CHOOSE x \in S : Cardinality({y \in S : y < x}) = i - 1]

\* std::sort
Sorted(l) == increasing(ToSet(l))

\* std::includes
Includes(l, m) == ToSet(m) \subseteq ToSet(l)
================================================================================
