------------------------------- MODULE Ranks --------------------------------
(***************************************************************************)
(* Finite sets of integers in their order, and what is left of a list when   *)
(* some of its places are kept: sort and filter of the client's code, by     *)
(* counting instead of recursion.                                            *)
(***************************************************************************)
EXTENDS Integers, FiniteSets

Rank(x, S) == Cardinality({y \in S : y <= x})

(* Object.entries of a map with integer keys: in ascending order. *)
InOrder(S) == [n \in 1..Cardinality(S) |-> CHOOSE x \in S : Rank(x, S) = n]

(* list.filter(...): the elements at these places, in their order. *)
Kept(list, places) ==
    LET order == InOrder(places)
    IN  [n \in 1..Cardinality(places) |-> list[order[n]]]
=============================================================================
