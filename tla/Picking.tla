------------------------------ MODULE Picking ------------------------------
(* The elements of a sequence at some of its places, in their order, which *)
(* is what filtering keeps; and a set listed in an order, which is what     *)
(* sorting gives. The facts about both are in ListFacts.                    *)
EXTENDS Naturals, FiniteSets, Sequences

Rank(I, i) == Cardinality({j \in I : j <= i})
Nth(I, k) == CHOOSE i \in I : Rank(I, i) = k
Picked(seq, I) == [k \in 1 .. Cardinality(I) |-> seq[Nth(I, k)]]

InOrder(S, Before(_, _)) ==
  CHOOSE list \in [1 .. Cardinality(S) -> S] :
    \A i, j \in DOMAIN list : i < j => Before(list[i], list[j])
=============================================================================
