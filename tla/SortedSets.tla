----------------------------- MODULE SortedSets -----------------------------
(***************************************************************************)
(* A finite set as a sequence, written so that it can be reasoned about:   *)
(* SortSeq, on which SetToSortSeq rests, has no definition that the prover *)
(* can expand.                                                             *)
(***************************************************************************)
EXTENDS Naturals, FiniteSets

\* The place of x among the elements of S.
Rank(S, x) == Cardinality({y \in S : y <= x})

\* The elements of S, each once and from the least on.
Ascending(S) == [k \in 1 .. Cardinality(S) |-> CHOOSE x \in S : Rank(S, x) = k]

\* The elements of S, each once and in the order of the pairs of E.
InOrder(S, E) ==
    [k \in 1 .. Cardinality(S) |->
        CHOOSE x \in S : Cardinality({y \in S : y = x \/ <<y, x>> \in E}) = k]
=============================================================================
