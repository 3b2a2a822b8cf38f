----------------------------- MODULE Selections -----------------------------
(* Array.prototype.filter by the places it keeps, in their order, and the  *)
(* sum that a reduce over a list or a map adds up.                         *)
EXTENDS Integers, FiniteSets, Functions

Rank(S, i) == Cardinality({j \in S : j < i})

Nth(S, k) == CHOOSE i \in S : Rank(S, i) = k - 1

SelectAt(seq, S) == [k \in 1 .. Cardinality(S) |-> seq[Nth(S, k)]]

Where(seq, Test(_)) == SelectAt(seq, {k \in DOMAIN seq : Test(seq[k])})

Sum(f(_), S) == SumFunction([x \in S |-> f(x)])
=============================================================================
