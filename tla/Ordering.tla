------------------------------ MODULE Ordering ------------------------------
(***************************************************************************)
(* The members of a finite set, one after the other.                       *)
(***************************************************************************)
EXTENDS Naturals, FiniteSets

\* In the order that the set of pairs "before" puts them in.
InOrder(S, before) ==
    CHOOSE f \in [1..Cardinality(S) -> S] :
        \A i, j \in 1..Cardinality(S) : i < j => <<f[i], f[j]>> \in before

\* Numbers as they come.
Ascending(S) == {pair \in S \X S : pair[1] < pair[2]}
=============================================================================
