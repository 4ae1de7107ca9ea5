------------------------------- MODULE Orders --------------------------------
(***************************************************************************)
(* A finite set listed in an order, given as the set of its pairs: each    *)
(* member stands where the number of those up to it says.                  *)
(***************************************************************************)
EXTENDS Integers, FiniteSets

\* Of two members of S one is before the other.
Orders(order, S) ==
  /\ \A x, y \in S : <<x, y>> \in order => <<y, x>> \notin order
  /\ \A x, y, z \in S : <<x, y>> \in order /\ <<y, z>> \in order => <<x, z>> \in order
  /\ \A x, y \in S : x = y \/ <<x, y>> \in order \/ <<y, x>> \in order

Upto(x, S, order) == {y \in S : y = x \/ <<y, x>> \in order}

InOrder(S, order) ==
  [i \in 1 .. Cardinality(S) |-> CHOOSE x \in S : Cardinality(Upto(x, S, order)) = i]
=============================================================================
