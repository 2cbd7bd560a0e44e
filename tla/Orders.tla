------------------------------- MODULE Orders -------------------------------
(***************************************************************************)
(* Lists in order, as Python sorts and filters them: what ties keeps the    *)
(* order it came in.                                                        *)
(***************************************************************************)
EXTENDS Integers, Sequences, FiniteSets

\* The members of S one after another, each where as many are Ahead of it as
\* stand before it.  Ahead is a strict total order of S.
Ordered(S, Ahead(_, _)) ==
    [k \in 1..Cardinality(S) |->
        CHOOSE x \in S : Cardinality({y \in S : Ahead(y, x)}) = k - 1]
Ascending(S) == Ordered(S, LAMBDA i, j : i < j)

\* sorted(places, key=...) by two keys, each a function of the place.
ByKeys(a, b, i, j) ==
    \/ a[i] < a[j] \/ (a[i] = a[j] /\ b[i] < b[j])
    \/ a[i] = a[j] /\ b[i] = b[j] /\ i < j
InKeyOrder(S, a, b) == Ordered(S, LAMBDA i, j : ByKeys(a, b, i, j))

\* sorted(seq, key=...), where key gives each place's.
SortBy(seq, key) ==
    LET order == InKeyOrder(DOMAIN seq, key, key)
    IN  [k \in DOMAIN order |-> seq[order[k]]]

\* [x for x in seq if Keeps(x)]
Where(seq, Keeps(_)) ==
    LET kept == Ascending({i \in DOMAIN seq : Keeps(seq[i])})
    IN  [k \in DOMAIN kept |-> seq[kept[k]]]
============================================================================
