------------------------------- MODULE Debts -------------------------------
(***************************************************************************)
(* The debt simulator (engine/debt.py): one step per month of one plan.     *)
(* Rates are whole percents a year.                                         *)
(***************************************************************************)
EXTENDS Money, Orders

CONSTANTS DebtPlans,    \* the plans that a run simulates
          MaxMonths     \* MAX_MONTHS

\* Amounts are whole cents, and only debts with known terms are simulated.
DebtOf == [balance : Nat, apr : Nat, minimum : Nat, rateType : STRING, promo : Int]
ASSUME DebtAssumption ==
    /\ MaxMonths \in Nat
    /\ \A pl \in DebtPlans :
          /\ pl.debts \in Seq(DebtOf) /\ pl.custom \in Seq(DOMAIN pl.debts)
          /\ pl.budget \in Nat /\ pl.horizon \in Nat
          /\ pl.reserved \in Nat /\ pl.reservedFor \in DOMAIN pl.debts

VARIABLES debtPlan,     \* the debts in order, the budget and the strategy
          owed,         \* what each debt still amounts to
          month,        \* the months simulated
          interest,     \* total_interest
          payments,     \* total_paid
          rows,         \* the rows of the last month
          payoffs       \* the debts cleared, in order, each with its month

debtVars == <<debtPlan, owed, month, interest, payments, rows, payoffs>>

Live(balances) == {i \in DOMAIN balances : balances[i] > 0}
Opening(pl) == [i \in DOMAIN pl.debts |-> pl.debts[i].balance]
Limit(pl) == IF pl.horizon = 0 THEN MaxMonths ELSE pl.horizon

MonthlyInterest(d, balance) ==
    IF d.rateType = "promotional_zero" THEN 0 ELSE RoundHalfUp(balance * d.apr, 1200)
Accrued(pl, balances) ==
    [i \in DOMAIN balances |-> balances[i] + MonthlyInterest(pl.debts[i], balances[i])]

(***************************************************************************)
(* A month in progress: balances, what is left of the budget, and payments. *)
(***************************************************************************)
\* Mutant: a payment is not bounded by what is left of the budget.
PayUncapped(m, i, amount) ==
    LET give == Smaller(amount, m.owed[i])
    IN  [m EXCEPT !.owed[i] = @ - give, !.paid[i] = @ + give,
                  !.budget = ClampMinZero(@ - give)]
Pay(m, i, amount) ==
    LET give == Smaller(Smaller(amount, m.owed[i]), m.budget)
    IN  [m EXCEPT !.owed[i] = @ - give, !.paid[i] = @ + give,
                  !.budget = @ - give]
PayAll(m, order, amounts) ==
    FoldLeft(LAMBDA n, k : Pay(n, order[k], amounts[k]), m, [k \in DOMAIN order |-> k])
PayMinimums(pl, m) ==
    LET order == Ascending(Live(m.owed))
    IN  PayAll(m, order, [k \in DOMAIN order |-> pl.debts[order[k]].minimum])

\* The hybrid: a named debt is given a reserved amount before the strategy.
PayReserved(pl, m) ==
    IF pl.reserved > 0 /\ m.owed[pl.reservedFor] > 0 THEN Pay(m, pl.reservedFor, pl.reserved) ELSE m

\* Mutant: the highest rate goes last.
BeforeReversed(strategy, pl, owing, i, j) ==
    pl.debts[i].apr < pl.debts[j].apr \/ (pl.debts[i].apr = pl.debts[j].apr /\ i < j)
\* The order of the debts under a strategy; ties keep the debts' own order.
\* A promotional debt keeps the place that its contractual rate gives it.
Before(strategy, pl, owing, i, j) ==
    LET d == pl.debts[i] e == pl.debts[j] bi == owing[i] bj == owing[j]
        First(less, tie) == less \/ (tie /\ i < j)
    IN  CASE strategy = "highest_rate" ->
                First(d.apr > e.apr \/ (d.apr = e.apr /\ bi < bj), d.apr = e.apr /\ bi = bj)
          [] strategy = "cash_flow_relief" ->
                LET x == d.minimum * bj y == e.minimum * bi
                IN  First(x > y \/ (x = y /\ bi < bj), x = y /\ bi = bj)
          [] strategy = "promo_deadline_first" ->
                First(d.promo < e.promo \/ (d.promo = e.promo /\ d.apr > e.apr),
                      d.promo = e.promo /\ d.apr = e.apr)
          [] strategy = "balance_only" -> First(bi < bj, bi = bj)
          [] OTHER -> First(bi < bj \/ (bi = bj /\ d.apr > e.apr), bi = bj /\ d.apr = e.apr)

InOrderOf(strategy, pl, owing, debts) ==
    Ordered(debts, LAMBDA i, j : Before(strategy, pl, owing, i, j))

\* A custom order sorts the debts it leaves out by their opening terms.
CustomOrder(pl, m) ==
    LET named == Where(pl.custom, LAMBDA i : m.owed[i] > 0)
    IN  named \o InOrderOf("highest_rate", pl, Opening(pl), Live(m.owed) \ ToSet(named))

\* Each takes what it is owed, until the budget is spent.
PayInOrder(m, order) == PayAll(m, order, [k \in DOMAIN order |-> m.budget])

\* A share larger than its debt spills over, to the smallest balance first.
PayShares(pl, m) ==
    LET targets == Ascending(Live(m.owed))
        shares == Allocate(m.budget, 1, [k \in DOMAIN targets |-> 1])
        shared == PayAll(m, targets, shares)
    IN  PayInOrder(shared, InOrderOf("balance_only", pl, shared.owed, Live(m.owed)))

PayExtra(pl, m) ==
    CASE pl.strategy = "preserve_liquidity" -> m
      [] pl.strategy = "equal_shares" -> IF Live(m.owed) = {} THEN m ELSE PayShares(pl, m)
      [] pl.strategy = "custom" /\ pl.custom # <<>> -> PayInOrder(m, CustomOrder(pl, m))
      [] OTHER -> PayInOrder(m, InOrderOf(pl.strategy, pl, m.owed, Live(m.owed)))

MonthOf(pl, balances) ==
    LET opened == [owed |-> Accrued(pl, balances), paid |-> [i \in DOMAIN balances |-> 0],
                   budget |-> pl.budget]
    IN  PayExtra(pl, PayReserved(pl, PayMinimums(pl, opened)))
Charged(pl, balances) == SumOf(Accrued(pl, balances)) - SumOf(balances)

SimulateMonth ==
    LET closed == MonthOf(debtPlan, owed)
        charge == Accrued(debtPlan, owed)
        cleared == Ascending({i \in Live(owed) : closed.owed[i] <= 0})
    IN  /\ Live(owed) # {}
        /\ month < Limit(debtPlan)
        /\ month' = month + 1
        /\ owed' = closed.owed
        /\ interest' = interest + Charged(debtPlan, owed)
        /\ payments' = payments + SumOf(closed.paid)
        /\ rows' = [i \in DOMAIN owed |-> [opening |-> owed[i], interest |-> charge[i] - owed[i],
                                           payment |-> closed.paid[i], closing |-> closed.owed[i]]]
        /\ payoffs' = payoffs \o [k \in DOMAIN cleared |-> [debt |-> cleared[k], month |-> month + 1]]
        /\ UNCHANGED debtPlan

\* The same debts and budget under another strategy, run to the end.
TotalInterest(pl) ==
    LET After(s) == [owed |-> MonthOf(pl, s.owed).owed,
                     interest |-> s.interest + Charged(pl, s.owed)]
        \* A comprehension and a CHOOSE, so that TLC computes a month once.
        OneMonth(s, k) == CHOOSE r \in {After(t) : t \in {s}} : r = r
    IN  FoldLeft(OneMonth, [owed |-> Opening(pl), interest |-> 0],
                 [k \in 1..Limit(pl) |-> k]).interest
Compare(pl, strategies) == [s \in strategies |-> TotalInterest([pl EXCEPT !.strategy = s])]

DebtsInit ==
    /\ debtPlan \in DebtPlans
    /\ owed = Opening(debtPlan)
    /\ month = 0 /\ interest = 0 /\ payments = 0 /\ rows = <<>> /\ payoffs = <<>>
DebtsOff ==
    /\ debtPlan = "none" /\ owed = <<>>
    /\ month = 0 /\ interest = 0 /\ payments = 0 /\ rows = <<>> /\ payoffs = <<>>
DebtsSpec == DebtsInit /\ [][SimulateMonth]_debtVars
Finished == owed # <<>> /\ (Live(owed) = {} \/ month >= Limit(debtPlan))

(***************************************************************************)
(* One loan paid off by a level payment, at a monthly rate of p / q.        *)
(***************************************************************************)
RunOff(principal, p, q, payment) ==
    LET Charge(b) == RoundHalfUp(b * p, q)
        After(s) == [left |-> ClampMinZero(s.left + Charge(s.left) - payment),
                     months |-> s.months + 1, interest |-> s.interest + Charge(s.left)]
    IN  FoldLeft(LAMBDA s, k : IF s.left > 0 THEN After(s) ELSE s,
                 [left |-> principal, months |-> 0, interest |-> 0], [k \in 1..MaxMonths |-> k])

AmortizedPayment(principal, p, q, months) ==
    IF p = 0 THEN RoundHalfUp(principal, months)
    ELSE RoundHalfUp(principal * p * (p + q) ^ months, q * ((p + q) ^ months - q ^ months))

\* What a lump sum saves when the installment stays, and when it is recast.
Mortgage(l) ==
    LET reduced == ClampMinZero(l.principal - l.lump)
        recast == AmortizedPayment(reduced, l.p, l.q, l.term)
    IN  [baseline |-> RunOff(l.principal, l.p, l.q, l.payment),
         extra |-> RunOff(l.principal, l.p, l.q, l.payment + l.extra),
         kept |-> RunOff(reduced, l.p, l.q, l.payment),
         recast |-> RunOff(reduced, l.p, l.q, recast),
         installment |-> recast,
         cashKept |-> ClampMinZero(l.cash - l.lump - l.fee)]

\* 26 half payments a year against the same money spread over 12 months.
Biweekly(l) ==
    LET half == RoundHalfUp(l.payment, 2)
        more == 26 * half - 12 * l.payment
    IN  [more |-> more, monthly |-> RunOff(l.principal, l.p, l.q, l.payment),
         equal |-> RunOff(l.principal, l.p, l.q, l.payment + RoundHalfUp(more, 12))]

PromoReserve(balance, other, paychecks) == RoundHalfUp(ClampMinZero(balance - other), paychecks)

(***************************************************************************)
(* Properties.                                                              *)
(***************************************************************************)
\* A plan that is not truncated has one payoff for each debt that it started
\* with, in the order of the months, and nothing is owed after the last one.
PayoffsComplete ==
    /\ \A j, k \in DOMAIN payoffs : j < k => /\ payoffs[j].debt # payoffs[k].debt
                                             /\ payoffs[j].month <= payoffs[k].month
    /\ owed # <<>> => {payoffs[k].debt : k \in DOMAIN payoffs}
                        = {i \in DOMAIN owed : owed[i] = 0 /\ debtPlan.debts[i].balance > 0}

\* Section 8's conventions over a whole plan: a debt's rows follow from one
\* another to the cent, a month pays the whole budget while anything is owed
\* (only the minimums when liquidity is preserved) and no minimum gives way to
\* an extra payment, what was borrowed and charged is paid or still owed, and
\* every debt that is cleared has its payoff.
MonthsClose ==
    owed # <<>> =>
      /\ PayoffsComplete
      /\ SumOf(Opening(debtPlan)) + interest = payments + SumOf(owed)
      /\ \A i \in DOMAIN rows :
            /\ rows[i].opening + rows[i].interest = rows[i].payment + rows[i].closing
            /\ rows[i].closing = owed[i] /\ owed[i] >= 0
      /\ rows # <<>> =>
            LET charged == [i \in DOMAIN rows |-> rows[i].opening + rows[i].interest]
                paid == [i \in DOMAIN rows |-> rows[i].payment]
                due == [i \in DOMAIN rows |-> Smaller(debtPlan.debts[i].minimum, charged[i])]
            IN  /\ SumOf(paid) <= debtPlan.budget
                /\ debtPlan.strategy # "preserve_liquidity" =>
                      SumOf(paid) = Smaller(debtPlan.budget, SumOf(charged))
                /\ SumOf(due) <= debtPlan.budget => \A i \in DOMAIN rows : paid[i] >= due[i]

\* Section 7 compares strategies with highest-rate-first, the lowest borrowing
\* cost: no other order of the same payments costs less interest, but for what
\* rounding moves each month, and but for a promotional debt, which keeps the
\* place its contractual rate gives it.
BenchmarkCheapest ==
    (/\ Finished /\ debtPlan.strategy = "highest_rate" /\ debtPlan.reserved = 0
     /\ \A i \in DOMAIN debtPlan.debts : debtPlan.debts[i].rateType # "promotional_zero") =>
        \A s \in {"smallest_balance", "equal_shares"} :
            interest <= Compare(debtPlan, {s})[s] + month

\* Section 18: a lump sum never costs interest or months while the installment
\* is kept, a recast is over within a month of the term it was cut for, and a
\* plan that pays as much as the biweekly one is no slower than the monthly one.
ScenariosOrdered(l) ==
    LET m == Mortgage(l) b == Biweekly(l)
    IN  /\ m.kept.interest <= m.baseline.interest /\ m.kept.months <= m.baseline.months
        /\ m.extra.interest <= m.baseline.interest /\ m.extra.months <= m.baseline.months
        /\ m.recast.left = 0 /\ m.recast.months <= l.term + 1
        /\ m.installment <= l.payment => m.kept.months <= m.recast.months
        /\ b.equal.months <= b.monthly.months
============================================================================
