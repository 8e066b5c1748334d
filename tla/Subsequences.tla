---------------------------- MODULE Subsequences ----------------------------
(***************************************************************************)
(* Rows in the order of their keys, and the rows of a list that a filter   *)
(* lets through.  Both go by the place of a number in a set of numbers.    *)
(***************************************************************************)
EXTENDS Integers, Sequences, FiniteSets

\* The j-th least of the numbers I.
Nth(I, j) == CHOOSE i \in I : Cardinality({k \in I : k <= i}) = j

\* The numbers I in ascending order.
Ascending(I) == [j \in 1..Cardinality(I) |-> Nth(I, j)]

\* What a sequence has at the places I, in its order.
Picked(s, I) == [j \in 1..Cardinality(I) |-> s[Nth(I, j)]]
=============================================================================
