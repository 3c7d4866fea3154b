------------------------------- MODULE Ordered -------------------------------
(***************************************************************************)
(* Sets of integers in order: positions in a list, rows by their number.   *)
(***************************************************************************)
EXTENDS Integers, FiniteSets

\* The greatest element of S.
MaxOf(S) == CHOOSE x \in S : \A y \in S : y <= x

\* The elements of S, ascending.
Ascending(S) == [i \in 1..Cardinality(S) |->
                    CHOOSE x \in S : Cardinality({y \in S : y < x}) = i - 1]
=============================================================================
