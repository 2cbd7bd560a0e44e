------------------------------- MODULE Taxes -------------------------------
(***************************************************************************)
(* Keeping cash against paying debt with it, after tax (engine/tax.py).     *)
(* Rates are in whole percents; a horizon is in days.                          *)
(***************************************************************************)
EXTENDS Money, Orders

RateOnInterest(profile, treasury) ==
    profile.federal + (IF treasury THEN 0 ELSE profile.state)
                    + (IF profile.niitApplies THEN profile.niit ELSE 0)
CombinedMarginal(profile) == RateOnInterest(profile, FALSE)

SimpleInterest(amount, rate, days) == RoundHalfUp(amount * rate * days, 36500)
AfterTaxInterest(gross, rate) == RoundHalfUp(gross * (100 - rate), 100)

\* A debt is given what it still amounts to, and the rest stays where it is.
Payoff(amount, apy, d, profile, days, taxRate, kept, allDebt) ==
    LET applied == Smaller(amount, d.balance)
        retained == amount - applied
        avoided == SimpleInterest(applied, d.rate, days)
        lost == IF d.deductible /\ profile.itemizes
                THEN RoundHalfUp(avoided * profile.federal, 100) ELSE 0
        interest == AfterTaxInterest(SimpleInterest(retained, apy, days), taxRate)
        benefit == avoided - lost
    IN  [applied |-> applied, retained |-> retained, debtBenefit |-> benefit,
         benefit |-> benefit + interest, versusBaseline |-> benefit + interest - kept,
         residualDebt |-> ClampMinZero(allDebt - applied), left |-> d.balance - applied,
         breaksEven |-> applied > 0 /\ days > 0 /\ taxRate < 100]

CompareSavingsVsDebt(amount, apy, debts, profile, days, treasury) ==
    LET live == Where(debts, LAMBDA d : d.balance > 0)
        allDebt == SumOf([k \in DOMAIN live |-> live[k].balance])
        taxRate == RateOnInterest(profile, treasury)
        kept == AfterTaxInterest(SimpleInterest(amount, apy, days), taxRate)
    IN  [baseline |-> kept, exact |-> profile.verified,
         rows |-> [k \in DOMAIN live |->
                     Payoff(amount, apy, live[k], profile, days, taxRate, kept, allDebt)]]

\* The yield at which keeping the cash would earn as much, over the debts: a
\* yield y reaches a row's when y * (100 - taxRate) * applied * days does.
AtOrAbove(y, r, taxRate, days) ==
    r.debtBenefit * 36500 * 100 <= y * (100 - taxRate) * r.applied * days
\* Mutant: the lowest of the rates instead of the highest.
AboveAny(y, rows, taxRate, days) ==
    \E k \in DOMAIN rows : rows[k].breaksEven /\ AtOrAbove(y, rows[k], taxRate, days)
AboveBreakEven(y, rows, taxRate, days) ==
    \A k \in DOMAIN rows : rows[k].breaksEven => AtOrAbove(y, rows[k], taxRate, days)

DeductionRules == [mortgage |-> "conditional", student_loan |-> "conditional",
                   credit_card |-> "no", auto_loan |-> "conditional",
                   investment |-> "conditional"]
InterestDeduction(loan) ==
    IF loan \in DOMAIN DeductionRules THEN DeductionRules[loan] ELSE "unknown"

(***************************************************************************)
(* Property, of a comparison over its yields.                               *)
(***************************************************************************)
\* Both sides of a row hold the same cash, and the break-even yield that is
\* shown decides the comparison: below it some debt beats the deposit, above
\* it none does, to the cents that rounding moves.
BreakEvenDecides(amount, apy, debts, profile, days) ==
    LET c == CompareSavingsVsDebt(amount, apy, debts, profile, days, FALSE)
        taxRate == RateOnInterest(profile, FALSE)
    IN  (\A k \in DOMAIN c.rows : c.rows[k].breaksEven) =>
          /\ \A k \in DOMAIN c.rows : /\ c.rows[k].applied + c.rows[k].retained = amount
                                      /\ c.rows[k].left >= 0
          /\ IF AboveBreakEven(apy, c.rows, taxRate, days)
             THEN \A k \in DOMAIN c.rows : c.rows[k].versusBaseline <= 2
             ELSE \E k \in DOMAIN c.rows : c.rows[k].versusBaseline >= -2
============================================================================
