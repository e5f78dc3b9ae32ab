----------------------------- MODULE Ascending -----------------------------
(* The members of a finite set of numbers as a sequence, the smallest first. *)
EXTENDS Integers, FiniteSets

Ascends(q) == \A i, j \in DOMAIN q : i < j => q[i] < q[j]
InOrder(S) ==
  CHOOSE q \in [1..Cardinality(S) -> S] : \A i, j \in 1..Cardinality(S) : i < j => q[i] < q[j]
=============================================================================
