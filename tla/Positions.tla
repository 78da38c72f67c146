----------------------------- MODULE Positions -----------------------------
(* What a filter leaves of a sequence, in its order.                         *)
EXTENDS Integers, Sequences, FiniteSets

\* The k-th of a set of positions, and the elements of a sequence at them.
Nth(S, k) == CHOOSE i \in S : Cardinality({j \in S : j <= i}) = k
At(s, S) == [k \in 1..Cardinality(S) |-> s[Nth(S, k)]]
=============================================================================
