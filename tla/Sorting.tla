------------------------------ MODULE Sorting ------------------------------
(* The sequence of a finite set in a given strict total order.              *)
EXTENDS Integers, FiniteSets, Sequences

SortedBy(S, Before(_, _)) ==
  LET order == [i \in 1..Cardinality(S) |->
                  CHOOSE x \in S : Cardinality({y \in S : Before(y, x)}) = i - 1]
  IN  SubSeq(order, 1, Cardinality(S))

Ascending(S) == SortedBy(S, LAMBDA a, b : a < b)
=============================================================================
