----------------------------- MODULE MCPlanning -----------------------------
(* One planner per behaviour: the paycheck allocator, the debt simulator or *)
(* the dated ledger of an account; or a figure, a case that the pure         *)
(* comparisons (cards, coverage, taxes) are read of.                         *)
EXTENDS Paychecks, Debts, Forecasts, Figures, TLC

(***************************************************************************)
(* Paychecks: September 2026, amounts small enough to run short.            *)
(***************************************************************************)
MCMonth == 12 * 2026 + 8
Sep(d) == Day(2026, 9, d)
Rule(id, purpose, method, amount, percent, priority) ==
    [id |-> id, purpose |-> purpose, method |-> method, amount |-> amount, percent |-> percent,
     base |-> "net_paycheck", priority |-> priority, paused |-> FALSE, billDay |-> 0,
     loanDay |-> 0, ownDay |-> 0, dayRule |-> "last_day_of_month", scheduled |-> FALSE,
     skipped |-> {}, funding |-> <<>>, fundedMonth |-> 0, fundedThis |-> 0, billFunded |-> 0,
     left |-> 0, targetMonth |-> 0]
Rent == Rule("rent", "bill", "fixed", 7, 0, 1)
Rents == {[Rent EXCEPT !.billDay = d, !.priority = q] : d \in {0, 5, 20, 31}, q \in {1, 9}}
    \union {[Rent EXCEPT !.loanDay = 20, !.purpose = "card_statement", !.billFunded = 2],
            [Rent EXCEPT !.billDay = 20, !.scheduled = TRUE, !.skipped = {Sep(20)}]}
    \union {[Rent EXCEPT !.ownDay = 31, !.dayRule = r, !.purpose = "required_debt"]
                : r \in {"skip", "first_of_next"}}
Reserve == Rule("reserve", "emergency_reserve", "target_balance", 0, 0, 3)
Reserves ==
    {[Reserve EXCEPT !.left = 4], [Reserve EXCEPT !.purpose = "buffer", !.left = 3],
     [Reserve EXCEPT !.purpose = "tax_reserve", !.method = "percent_of_income", !.percent = 25],
     [Reserve EXCEPT !.method = "target_by_date", !.left = 9, !.targetMonth = MCMonth + 2,
                     !.funding = MCMonth :> 1]}
Goal == Rule("goal", "goal", "percent_of_income", 0, 30, 2)
Goals ==
    {Goal, [Goal EXCEPT !.base = "surplus_after_commitments", !.fundedThis = 1],
     [Goal EXCEPT !.method = "surplus_share", !.percent = 50, !.fundedThis = 1,
                  !.fundedMonth = MCMonth - 1],
     [Goal EXCEPT !.purpose = "spending", !.method = "fixed", !.amount = 5, !.skipped = {Sep(15)}],
     [Goal EXCEPT !.paused = TRUE]}
Paid(d, a) == [date |-> Sep(d), amount |-> a]
Twice == [cadence |-> "semimonthly", anchor |-> Sep(1), day1 |-> 15, day2 |-> 30,
          dayRule |-> "last_day_of_month", bizRule |-> "preceding", end |-> NoDate]
Incomes == {<<Paid(15, 6), Paid(1, 9)>>, <<Paid(1, 4), Paid(15, 5)>>,
            <<Paid(3, 9), Paid(15, 5), Paid(15, 6)>>, <<Paid(5, 20)>>, <<>>}
MCHomes ==
    {[events |-> e, sources |-> <<[schedule |-> Twice, amount |-> 8]>>,
      asOf |-> IF s.targetMonth = 0 THEN MCMonth ELSE MCMonth - 1, policies |-> <<g, r, s>>] : e \in Incomes, r \in Rents, s \in Reserves, g \in Goals}

(***************************************************************************)
(* Debts: ties, a minimum beyond the debt, a promotion, a budget too small. *)
(***************************************************************************)
Debt(balance, apr, minimum, rateType, promo) ==
    [balance |-> balance, apr |-> apr, minimum |-> minimum, rateType |-> rateType, promo |-> promo]
MCDebtSets == {
    <<Debt(1000, 24, 50, "fixed", 99), Debt(400, 12, 30, "fixed", 99), Debt(400, 30, 25, "fixed", 99)>>,
    <<Debt(900, 30, 40, "promotional_zero", 6), Debt(600, 18, 35, "fixed", 99)>>,
    <<Debt(5, 240, 9, "fixed", 99), Debt(7, 12, 1, "fixed", 99), Debt(0, 12, 3, "fixed", 9)>>,
    <<Debt(300, 18, 300, "deferred_interest", 2), Debt(300, 18, 10, "fixed", 2),
      Debt(20, 6, 5, "fixed", 99)>>}
MCDebtPlans ==
    {[debts |-> d, budget |-> b, strategy |-> s, custom |-> c, reserved |-> r, reservedFor |-> 2,
      horizon |-> h] :
        d \in MCDebtSets, b \in {13, 130, 301}, r \in {0, 60}, h \in {0, 5}, c \in {<<>>, <<2>>},
        s \in {"highest_rate", "smallest_balance", "equal_shares", "cash_flow_relief",
               "preserve_liquidity", "promo_deadline_first", "custom"}}
Loan(principal, r, term, above, extra, lump) ==
    [principal |-> principal, p |-> r[1], q |-> r[2], term |-> term,
     payment |-> AmortizedPayment(principal, r[1], r[2], term) + above,
     extra |-> extra, lump |-> lump, cash |-> 100, fee |-> 1]
MCLoans == {Loan(n, r, t, a, e, l) : n \in {50, 97}, r \in {<<0, 1>>, <<1, 10>>, <<1, 20>>, <<1, 5>>},
                                     t \in 1..5, a \in 0..2, e \in {0, 5}, l \in {0, 10, 60}}

(***************************************************************************)
(* Ledgers: the end of October 2026, with weekly, monthly and one-off bills *)
(* (one moved back over the end of a window), deposits of three kinds and a *)
(* pending charge.                                                          *)
(***************************************************************************)
Oct(d) == Day(2026, 10, d)
Sched(cadence, anchor, rule) ==
    [cadence |-> cadence, anchor |-> anchor, day1 |-> 0, day2 |-> 0,
     dayRule |-> "last_day_of_month", bizRule |-> rule, end |-> NoDate]
Bill(s, due, amount, confirmed) ==
    [schedule |-> s, dueDate |-> due, amount |-> amount, confirmed |-> confirmed]
Landing(d, amount, received, posted) ==
    [date |-> Oct(d), amount |-> amount, received |-> received, posted |-> posted]
MCLedgers ==
    {[asOf |-> Oct(28), lastDay |-> Oct(28) + 6, available |-> av, minimum |-> mn,
      healthy |-> TRUE, floors |-> <<2, 3>>, protected |-> <<4>>, deposits |-> ds, bills |-> bs,
      pending |-> ps] :
        av \in {45}, mn \in {0, 7},
        ds \in {<<>>, <<Landing(28, 30, TRUE, FALSE)>>, <<Landing(30, 30, TRUE, FALSE)>>,
                <<Landing(31, 30, FALSE, FALSE), Landing(28, 10, TRUE, TRUE)>>},
        ps \in {<<>>, <<[date |-> Oct(29), amount |-> -5, reflected |-> FALSE]>>},
        bs \in {<<Bill(Sched("weekly", Oct(1), "preceding"), NoDate, 10, TRUE),
                  Bill(Sched("none", NoDate, "none"), Oct(30), 20, FALSE)>>,
                <<Bill(Sched("monthly", Oct(31), "following"), NoDate, 10, TRUE)>>,
                <<Bill(Sched("weekly", Oct(4), "preceding"), NoDate, 10, TRUE)>>}}

(***************************************************************************)
(* Figures.                                                                 *)
(***************************************************************************)
RewardRule(category, rate, cap, used) ==
    [category |-> category, rate |-> rate, cap |-> cap, used |-> used, from |-> 1, until |-> 9,
     merchants |-> {"warehouse"}, channels |-> {}, needsActivation |-> FALSE, activated |-> FALSE]
CardOf(rules, grace, cashback, value, apr) ==
    [rules |-> rules, grace |-> grace, cashback |-> cashback, pointValue |-> value, apr |-> apr,
     foreignFee |-> 30, excluded |-> FALSE, balance |-> 700, limit |-> 2000]
MCCards == {CardOf(r, g, c, v, 240) :
    g \in {"intact", "lost", "unknown"}, c \in BOOLEAN, v \in {1200},
    r \in {<<>>, <<RewardRule("base", 20, NoCap, 0)>>,
           <<RewardRule("dining", 30, NoCap, 0), RewardRule("base", 10, NoCap, 0)>>,
           <<RewardRule("dining", 60, 500, 100), RewardRule("dining", 40, NoCap, 0)>>}}
MCPurchases == {[amount |-> a, category |-> "dining", date |-> 5, merchant |-> m,
                 channel |-> "store", codingCertain |-> k, foreign |-> f, feeRate |-> r,
                 lostDiscount |-> 0, carried |-> d] :
    a \in {650}, k, f \in BOOLEAN, r \in {0, 25}, d \in {0, 45}, m \in {"warehouse", "cafe"}}
MCPurchaseFigures ==
    [kind : {"purchase"}, cards : {<<c, d>> : c, d \in MCCards}, purchase : MCPurchases,
     part : {150, 499}]

AccountOf(type, inst, owner, current, allocations) ==
    [type |-> type, inst |-> inst, owner |-> owner, category |-> "single", current |-> current,
     allocations |-> allocations, protection |-> "fdic"]
MCPrograms == {<<>>} \union {"bank" :> 200 @@ "union" :> w : w \in {60, 120}}
MCDeposits ==
    [kind : {"deposits"}, buffer : {0, 5},
     household : {[accounts |-> <<AccountOf("checking", i, "primary", b, <<>>),
                                  AccountOf("savings", "union", o, 180, <<>>), s>>,
                   declared |-> d, creditUnions |-> {"union"}, jurisdiction |-> "US",
                   on |-> Day(2026, 11, 30) + n] :
        i \in {"bank", "union", Unidentified}, b \in {90, 400}, o \in {"primary", "entity"},
        s \in {AccountOf("brokerage_sweep", "broker", "primary", 300, a) : a \in MCPrograms \ {<<>>}}
                \union {AccountOf("brokerage", "broker", "primary", 50, <<>>)},
        d \in {<<>>, <<Declared("bank", "primary", "single", 20)>>}, n \in {0, 1}}]

MCComparisons ==
    [kind : {"taxes"}, amount : {250}, apy : 0..12, days : {0, 30, 365},
     debts : {<<[balance |-> 100, rate |-> 8, deductible |-> TRUE],
                [balance |-> 400, rate |-> 5, deductible |-> FALSE]>>,
              <<[balance |-> 0, rate |-> 9, deductible |-> FALSE],
                [balance |-> 260, rate |-> 20, deductible |-> TRUE]>>},
     profile : [federal : {0, 24}, state : {5}, niit : {4}, niitApplies : BOOLEAN,
                itemizes : BOOLEAN, verified : {TRUE}]]

(***************************************************************************)
(* One planner at a time.                                                   *)
(***************************************************************************)
Init ==
    \/ PaychecksInit /\ DebtsOff /\ ForecastsOff /\ FiguresOff
    \/ PaychecksOff /\ DebtsInit /\ ForecastsOff /\ FiguresOff
    \/ PaychecksOff /\ DebtsOff /\ ForecastsInit /\ FiguresOff
    \/ PaychecksOff /\ DebtsOff /\ ForecastsOff /\ FiguresInit

Next ==
    \/ AllocatePaycheck /\ UNCHANGED <<debtVars, ledgerVars, figure>>
    \/ SimulateMonth /\ UNCHANGED <<paycheckVars, ledgerVars, figure>>
    \/ /\ today # NoDate
       /\ ForecastsNext
       /\ UNCHANGED <<paycheckVars, debtVars, figure>>

vars == <<paycheckVars, debtVars, ledgerVars, figure>>
Spec == Init /\ [][Next]_vars

(***************************************************************************)
(* Operators over tables of cases.                                          *)
(***************************************************************************)
\* Rules on a schedule and on income, with and without authority.
MCRules ==
    {[scheduled |-> s, schedule |-> Sched(c, Oct(1), "following"), cadence |-> "on_income",
      incomes |-> <<[Sched("semimonthly", Oct(3), "preceding") EXCEPT !.day1 = 1, !.day2 = 15]>>,
      events |-> {Oct(20)},
      skipNext |-> FALSE, skipped |-> {}, paused |-> z, authorized |-> a, mode |-> m] :
        s, z, a \in BOOLEAN, c \in {"weekly", "monthly"}, m \in {"explore", "standing"}}

ASSUME SkipsHold == \A p \in MCRules, d \in {Oct(1), Oct(16)} : SkipIsOne(p, d)
ASSUME ScenariosHold == \A l \in MCLoans : ScenariosOrdered(l)
ASSUME InitiationHolds == \A d \in Oct(1)..(Oct(1) + 90) : InitiationInTime(d)
ASSUME ComparisonsHold == \A c \in MCCards, p \in MCPurchases : ComparisonsAgree(c, p)
=============================================================================
