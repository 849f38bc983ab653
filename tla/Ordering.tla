------------------------------ MODULE Ordering ------------------------------
(***************************************************************************)
(* Sequences in closed form: what the filters, removals and sorted lists of *)
(* the code yield, said by the rank each element has, so that facts about   *)
(* them follow from facts about finite sets.                               *)
(***************************************************************************)
EXTENDS Naturals, Sequences, FiniteSets

\* The place of x among the elements of S, in the strict order R.
RankIn(x, S, R) == Cardinality({y \in S : y = x \/ <<y, x>> \in R})

\* The elements of S in that order.
Nth(j, S, R) == CHOOSE x \in S : RankIn(x, S, R) = j
Listed(S, R) == [j \in 1..Cardinality(S) |-> Nth(j, S, R)]

\* Positions in their order.
Before(I) == {p \in I \X I : p[1] < p[2]}

\* The elements of the sequence s at the positions I, in their order.
Sifted(s, I) == [j \in 1..Cardinality(I) |-> s[Nth(j, I, Before(I))]]

\* The sequence s without any x.
Without(s, x) == Sifted(s, {i \in DOMAIN s : s[i] # x})
=============================================================================
