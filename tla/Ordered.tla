-------------------------------- MODULE Ordered --------------------------------
(* Finite sets of numbers in ascending order, by counting what is smaller: as  *)
(* sorted() and slices of a sorted list are used, in a form that can be        *)
(* reasoned about without induction.                                           *)
EXTENDS Naturals, FiniteSets

Below(S, x) == {y \in S : y < x}

\* The elements of S, the smallest first.
InOrder(S) == [i \in 1..Cardinality(S) |-> CHOOSE x \in S : Cardinality(Below(S, x)) = i - 1]

\* The n smallest of S, or all of it.
Smallest(S, n) == {x \in S : Cardinality(Below(S, x)) < n}
=============================================================================
