------------------------------ MODULE Ordering ------------------------------
(***************************************************************************)
(* The machines sort sets and take the first few of them in many places.   *)
(* before is a strict order that is total on the set.                      *)
(***************************************************************************)
EXTENDS SequencesExt

\* How many members of S come before x.
Rank(x, S, before(_, _)) == Cardinality({y \in S : before(y, x)})

\* The first k members of S.
FirstOf(S, k, before(_, _)) == {x \in S : Rank(x, S, before) < k}

\* The members of S as a sequence.
InOrder(S, before(_, _)) ==
    [i \in 1 .. Cardinality(S) |-> CHOOSE x \in S : Rank(x, S, before) = i - 1]

\* The order of the natural numbers.
Below(a, b) == a < b

\* The subsequence of s at the indices in I.
Picked(s, I) == [k \in 1 .. Cardinality(I) |-> s[InOrder(I, Below)[k]]]

\* The sum of a function to the naturals: f[x] cells for each x, counted.
Cells(f) == UNION {{<<x, k>> : k \in 1 .. f[x]} : x \in DOMAIN f}
Total(f) == Cardinality(Cells(f))

\* The bag of the values f takes on the members of S.
BagOf(f(_), S) == [v \in {f(x) : x \in S} |-> Cardinality({x \in S : f(x) = v})]
=============================================================================
