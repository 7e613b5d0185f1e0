------------------------------ MODULE Sorting ------------------------------
(* The elements of a set of numbers in their order: std::sort of a vector without
   repetition, or what a map with the numbers for keys holds from begin to end. *)
EXTENDS Integers, Sequences, FiniteSets

Sorted(set) ==
  CHOOSE list \in [1..Cardinality(set) -> set] :
    /\ \A x \in set : \E i \in DOMAIN list : list[i] = x
    /\ \A i, j \in DOMAIN list : i < j => list[i] < list[j]
=============================================================================
