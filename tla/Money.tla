------------------------------- MODULE Money -------------------------------
(***************************************************************************)
(* Decimal money, in whole cents.  An amount that has not been rounded yet  *)
(* is a fraction: a numerator and a positive denominator (money.py).        *)
(***************************************************************************)
EXTENDS Integers, SequencesExt

Smaller(m, n) == IF m <= n THEN m ELSE n
Larger(m, n) == IF m >= n THEN m ELSE n
ClampMinZero(m) == Larger(m, 0)

\* Half away from zero (ROUND_HALF_UP), and toward zero (ROUND_DOWN).
RoundHalfUp(n, d) ==
    IF n >= 0 THEN (2 * n + d) \div (2 * d) ELSE -((d - 2 * n) \div (2 * d))
RoundDown(n, d) == IF n >= 0 THEN n \div d ELSE -((-n) \div d)

SumOf(amounts) == FoldLeft(LAMBDA s, m : s + m, 0, amounts)

\* Whole cents first, then the cents that are left, one each, to the largest
\* fractions; ties go to the earliest place.  A negative remainder hands out
\* nothing, and n cents are n / d dollars of a total that may be unrounded.
Allocate(n, d, weights) ==
    LET whole == SumOf(weights)
        Raw(i) == n * weights[i]
        floored == [i \in DOMAIN weights |-> RoundDown(Raw(i), d * whole)]
        Fraction(i) == Raw(i) - floored[i] * d * whole
        left == RoundHalfUp(n, d) - SumOf(floored)
        Before(i, j) == \/ Fraction(i) > Fraction(j)
                        \/ Fraction(i) = Fraction(j) /\ i < j
        Rank(i) == Cardinality({j \in DOMAIN weights : Before(j, i)})
        places == Len(weights)
        Extra(i) == IF left > Rank(i) THEN 1 + (left - Rank(i) - 1) \div places ELSE 0
    IN  IF whole = 0 THEN [i \in DOMAIN weights |-> 0]
        ELSE [i \in DOMAIN weights |-> floored[i] + Extra(i)]
============================================================================
