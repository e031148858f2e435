------------------------------- MODULE Ranking -------------------------------
(***************************************************************************)
(* Choosing and reordering the elements of a sequence by their indices.    *)
(***************************************************************************)
EXTENDS Naturals, FiniteSets, Sequences

\* The elements of the finite set I in the order of the strict total order R
\* (a set of pairs): element k is the one with k - 1 predecessors.
Ranked(I, R) ==
  [k \in 1 .. Cardinality(I) |->
     CHOOSE i \in I : Cardinality({j \in I : <<j, i>> \in R}) = k - 1]

\* The elements of s at the indices that the sequence `order' lists.
Arrange(s, order) == [k \in DOMAIN order |-> s[order[k]]]

\* The elements of s whose index is in I, in their order in s.
Keep(s, I) == Arrange(s, Ranked(I, {p \in I \X I : p[1] < p[2]}))
=============================================================================
