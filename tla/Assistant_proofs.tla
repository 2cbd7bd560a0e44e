---------------------------- MODULE Assistant_proofs ----------------------------
(***************************************************************************)
(* What is proved of Assistant for any requests, households, questions,    *)
(* selections and drafts of the model: every figure of an answer is told   *)
(* by a tool of the request at its revision, a kept wording is right for   *)
(* the household and the reference it is found for, the spendable amount   *)
(* is the allowance, a claim that money moved has a payment behind it, and *)
(* the connections to the model are there while a request uses them.       *)
(*                                                                         *)
(* The argument has three parts: what the templates may read (whatever     *)
(* tool the router pairs with an intent returns every figure its template  *)
(* names), what verification lets through (only tokens of the reference),  *)
(* and an invariant on each request and each entry of the wording cache.   *)
(***************************************************************************)
EXTENDS Assistant, FiniteSetTheorems, SequenceTheorems, WellFoundedInduction, TLAPS

(* A finite set of integers has a least and a greatest element.            *)
LEMMA LeastOf ==
    ASSUME NEW S, IsFiniteSet(S), S \subseteq Int, S # {}
    PROVE  Min(S) \in S /\ \A y \in S : Min(S) <= y
<1> DEFINE T == {{y \in S : y <= x} : x \in S}
<1>1. T \subseteq FiniteSubsetsOf(S) /\ T # {}
  <2>1. FiniteSubsetsOf(S) = SUBSET S
    BY FS_FiniteSubsetsOfFinite
  <2>2. T \subseteq SUBSET S
    OBVIOUS
  <2>3. PICK e : e \in S
    OBVIOUS
  <2>4. {y \in S : y <= e} \in T
    BY <2>3
  <2>5. QED
    BY <2>1, <2>2, <2>4
<1>2. IsWellFoundedOn(StrictSubsetOrdering(S), FiniteSubsetsOf(S))
  BY FS_StrictSubsetOrderingWellFounded
<1>3. PICK low \in T : \A other \in T : ~ (<<other, low>> \in StrictSubsetOrdering(S))
  <2> HIDE DEF T
  <2>1. QED
    BY <1>1, <1>2, WFMin
<1>4. PICK x \in S : low = {y \in S : y <= x}
  BY <1>3
<1>5. ASSUME NEW z \in S, z < x PROVE FALSE
  <2>1. {y \in S : y <= z} \subseteq low /\ x \in low /\ x \notin {y \in S : y <= z}
    <3>1. x \in Int /\ z \in Int
      OBVIOUS
    <3>2. ASSUME NEW y \in S, y <= z PROVE y <= x
      <4>1. y \in Int
        OBVIOUS
      <4>2. QED
        BY <1>5, <3>1, <3>2, <4>1
    <3>3. x <= x /\ ~(x <= z)
      BY <1>5, <3>1
    <3>4. QED
      BY <1>4, <3>2, <3>3
  <2>2. {y \in S : y <= z} \in T /\ low \in SUBSET S /\ {y \in S : y <= z} \in SUBSET S
    BY <1>4
  <2>3. <<{y \in S : y <= z}, low>> \in StrictSubsetOrdering(S)
    BY <2>1, <2>2 DEF StrictSubsetOrdering
  <2>4. QED
    BY <1>3, <2>2, <2>3
<1>6. \A y \in S : x <= y
  BY <1>5
<1>7. QED
  BY <1>6 DEF Min

LEMMA GreatestOf ==
    ASSUME NEW S, IsFiniteSet(S), S \subseteq Int, S # {}
    PROVE  Max(S) \in S /\ \A y \in S : Max(S) >= y
<1> DEFINE T == {{y \in S : y >= x} : x \in S}
<1>1. T \subseteq FiniteSubsetsOf(S) /\ T # {}
  <2>1. FiniteSubsetsOf(S) = SUBSET S
    BY FS_FiniteSubsetsOfFinite
  <2>2. T \subseteq SUBSET S
    OBVIOUS
  <2>3. PICK e : e \in S
    OBVIOUS
  <2>4. {y \in S : y >= e} \in T
    BY <2>3
  <2>5. QED
    BY <2>1, <2>2, <2>4
<1>2. IsWellFoundedOn(StrictSubsetOrdering(S), FiniteSubsetsOf(S))
  BY FS_StrictSubsetOrderingWellFounded
<1>3. PICK top \in T : \A other \in T : ~ (<<other, top>> \in StrictSubsetOrdering(S))
  <2> HIDE DEF T
  <2>1. QED
    BY <1>1, <1>2, WFMin
<1>4. PICK x \in S : top = {y \in S : y >= x}
  BY <1>3
<1>5. ASSUME NEW z \in S, z > x PROVE FALSE
  <2>1. {y \in S : y >= z} \subseteq top /\ x \in top /\ x \notin {y \in S : y >= z}
    <3>1. x \in Int /\ z \in Int
      OBVIOUS
    <3>2. ASSUME NEW y \in S, y >= z PROVE y >= x
      <4>1. y \in Int
        OBVIOUS
      <4>2. QED
        BY <1>5, <3>1, <3>2, <4>1
    <3>3. x >= x /\ ~(x >= z)
      BY <1>5, <3>1
    <3>4. QED
      BY <1>4, <3>2, <3>3
  <2>2. {y \in S : y >= z} \in T /\ top \in SUBSET S /\ {y \in S : y >= z} \in SUBSET S
    BY <1>4
  <2>3. <<{y \in S : y >= z}, top>> \in StrictSubsetOrdering(S)
    BY <2>1, <2>2 DEF StrictSubsetOrdering
  <2>4. QED
    BY <1>3, <2>2, <2>3
<1>6. \A y \in S : x >= y
  BY <1>5
<1>7. QED
  BY <1>6 DEF Max

(* The intents with the tool that each is answered with.                   *)
Pairs == {<<INTENTS[k].name, INTENTS[k].tool>> : k \in DOMAIN INTENTS}
Routes ==
    Pairs \cup {<<"extra_payment_cadence_clarification", "what_if_extra_payment">>,
                <<"unknown", "get_money_overview">>,
                <<"card_location_clarification", "get_money_overview">>}

LEMMA BestListed ==
    ASSUME NEW q, q.hits \in [DOMAIN q.hits -> Nat], Matched(q) # {}
    PROVE  \E k \in DOMAIN INTENTS : Best(q) = INTENTS[k]
<1> DEFINE scores == {Score(q, k) : k \in Matched(q)}
           best == {k \in Matched(q) : Score(q, k) = Max(scores)}
<1>1. DOMAIN INTENTS = 1..32 /\ \A k \in DOMAIN INTENTS : INTENTS[k].weight \in Nat
  BY DEF INTENTS, PlanIntents, RecordIntents, Intent
<1>2. Matched(q) \subseteq 1..32 /\ IsFiniteSet(Matched(q))
  <2>1. IsFiniteSet(1..32)
    <3>1. 1 \in Int /\ 32 \in Int
      OBVIOUS
    <3>2. QED
      BY <3>1, FS_Interval
  <2>2. Matched(q) \in SUBSET (1..32)
    BY <1>1 DEF Matched
  <2>3. QED
    BY <2>1, <2>2, FS_Subset
<1>3. \A k \in Matched(q) : Score(q, k) \in Int
  BY <1>1 DEF Matched, Score
<1>4. IsFiniteSet(scores) /\ scores \subseteq Int /\ scores # {}
  <2> DEFINE f == [k \in Matched(q) |-> Score(q, k)]
  <2>1. f \in Surjection(Matched(q), scores)
    BY DEF Surjection
  <2>2. IsFiniteSet(scores)
    <3> HIDE DEF f, scores
    <3>1. QED
      BY <1>2, <2>1, FS_Surjection
  <2>3. QED
    BY <1>3, <2>2
<1>5. best \subseteq Int /\ best # {} /\ IsFiniteSet(best)
  <2>1. Max(scores) \in scores
    <3> HIDE DEF scores
    <3>1. QED
      BY <1>4, GreatestOf
  <2>2. best # {} /\ best \in SUBSET Matched(q)
    BY <2>1
  <2>3. best \in SUBSET Int
    BY <1>2, <2>2
  <2>4. IsFiniteSet(best)
    <3> HIDE DEF best
    <3>1. QED
      BY <1>2, <2>2, FS_Subset
  <2>5. QED
    BY <2>2, <2>3, <2>4
<1>6. Min(best) \in best
  <2> HIDE DEF best
  <2>1. QED
    BY <1>5, LeastOf
<1>7. Best(q) = INTENTS[Min(best)] /\ Min(best) \in DOMAIN INTENTS
  BY <1>1, <1>2, <1>6 DEF Best
<1>8. QED
  BY <1>7

LEMMA RouteListed ==
    ASSUME NEW q, q.hits \in [DOMAIN q.hits -> Nat]
    PROVE  <<Route(q).intent, Route(q).tool>> \in Routes
<1>1. CASE q.cadence /\ q.amount /= NoAmount
  BY <1>1 DEF Route, Routed, Routes
<1>2. CASE ~(q.cadence /\ q.amount /= NoAmount) /\ Matched(q) = {}
  BY <1>2 DEF Route, Routed, Routes
<1>3. CASE ~(q.cadence /\ q.amount /= NoAmount) /\ Matched(q) # {}
  <2>1. PICK k \in DOMAIN INTENTS : Best(q) = INTENTS[k]
    BY <1>3, BestListed
  <2>2. <<Best(q).name, Best(q).tool>> \in Pairs
    BY <2>1 DEF Pairs
  <2>3. QED
    BY <1>3, <2>2 DEF Route, Routed, Routes
<1>4. QED
  BY <1>1, <1>2, <1>3

-----------------------------------------------------------------------------
(* The tools. *)

(* What each tool computes.                                                *)
LEMMA Bodies ==
    ASSUME NEW arguments, NEW h
    PROVE  /\ Body("get_money_overview", arguments, h) = MoneyOverview(h)
           /\ Body("get_paycheck_plan", arguments, h) = PaycheckPlan(h)
           /\ Body("get_spending_allowance", arguments, h) = Allowance(h)
           /\ Body("get_cash_forecast", arguments, h) = CashForecast(h)
           /\ Body("get_upcoming_obligations", arguments, h) = UpcomingObligations(h)
           /\ Body("compare_debt_strategies", arguments, h) = DebtStrategies(h, arguments)
           /\ Body("what_if_extra_payment", arguments, h) = ExtraPayment(h)
           /\ Body("get_mortgage_scenarios", arguments, h) = Mortgage(h)
           /\ Body("compare_biweekly_mortgage", arguments, h) = Biweekly(h)
           /\ Body("plan_promotional_payoff", arguments, h) = PromotionalPayoff(h)
           /\ Body("choose_card", arguments, h) = ChooseCard(h, arguments)
           /\ Body("compare_card_vs_bank_for_bill", arguments, h) = BillCard(h)
           /\ Body("compare_booking_channels", arguments, h) = BookingChannels(h)
           /\ Body("check_utilization_timing", arguments, h) = Utilization(h)
           /\ Body("get_buffer", arguments, h) = Buffer(h)
           /\ Body("assess_sweep_move", arguments, h) = SweepMove(h, arguments)
           /\ Body("get_liquidity_tiers", arguments, h) = LiquidityTiers(h)
           /\ Body("compare_payment_timing", arguments, h) = PaymentTiming(h)
           /\ Body("get_tax_profile", arguments, h) = TaxProfileRead(h)
           /\ Body("compare_savings_vs_debt", arguments, h) = SavingsVsDebt(h)
           /\ Body("check_interest_deduction", arguments, h) = InterestDeduction(h)
           /\ Body("get_deposit_coverage", arguments, h) = DepositCoverage(h)
           /\ Body("plan_coverage_remedy", arguments, h) = CoverageRemedy(h, arguments)
           /\ Body("stress_collateral_line", arguments, h) = StressCollateral(h)
           /\ Body("get_automation_status", arguments, h) = AutomationStatus(h)
           /\ Body("get_account_connections", arguments, h) = AccountConnections(h)
           /\ Body("get_recurring_activity", arguments, h) = RecurringActivity(h)
           /\ Body("explain_transfer_outcome", arguments, h) = TransferOutcome(h, arguments)
           /\ Body("stress_income_loss", arguments, h) = IncomeLoss(h, arguments)
           /\ Body("explain_product_boundary", arguments, h) = Boundary
<1>1. Body("get_money_overview", arguments, h) = MoneyOverview(h)
  BY DEF Body
<1>2. Body("get_paycheck_plan", arguments, h) = PaycheckPlan(h)
  BY DEF Body
<1>3. Body("get_spending_allowance", arguments, h) = Allowance(h)
  BY DEF Body
<1>4. Body("get_cash_forecast", arguments, h) = CashForecast(h)
  BY DEF Body
<1>5. Body("get_upcoming_obligations", arguments, h) = UpcomingObligations(h)
  BY DEF Body
<1>6. Body("compare_debt_strategies", arguments, h) = DebtStrategies(h, arguments)
  BY DEF Body
<1>7. Body("what_if_extra_payment", arguments, h) = ExtraPayment(h)
  BY DEF Body
<1>8. Body("get_mortgage_scenarios", arguments, h) = Mortgage(h)
  BY DEF Body
<1>9. Body("compare_biweekly_mortgage", arguments, h) = Biweekly(h)
  BY DEF Body
<1>10. Body("plan_promotional_payoff", arguments, h) = PromotionalPayoff(h)
  BY DEF Body
<1>11. Body("choose_card", arguments, h) = ChooseCard(h, arguments)
  BY DEF Body
<1>12. Body("compare_card_vs_bank_for_bill", arguments, h) = BillCard(h)
  BY DEF Body
<1>13. Body("compare_booking_channels", arguments, h) = BookingChannels(h)
  BY DEF Body
<1>14. Body("check_utilization_timing", arguments, h) = Utilization(h)
  BY DEF Body
<1>15. Body("get_buffer", arguments, h) = Buffer(h)
  BY DEF Body
<1>16. Body("assess_sweep_move", arguments, h) = SweepMove(h, arguments)
  BY DEF Body
<1>17. Body("get_liquidity_tiers", arguments, h) = LiquidityTiers(h)
  BY DEF Body
<1>18. Body("compare_payment_timing", arguments, h) = PaymentTiming(h)
  BY DEF Body
<1>19. Body("get_tax_profile", arguments, h) = TaxProfileRead(h)
  BY DEF Body
<1>20. Body("compare_savings_vs_debt", arguments, h) = SavingsVsDebt(h)
  BY DEF Body
<1>21. Body("check_interest_deduction", arguments, h) = InterestDeduction(h)
  BY DEF Body
<1>22. Body("get_deposit_coverage", arguments, h) = DepositCoverage(h)
  BY DEF Body
<1>23. Body("plan_coverage_remedy", arguments, h) = CoverageRemedy(h, arguments)
  BY DEF Body
<1>24. Body("stress_collateral_line", arguments, h) = StressCollateral(h)
  BY DEF Body
<1>25. Body("get_automation_status", arguments, h) = AutomationStatus(h)
  BY DEF Body
<1>26. Body("get_account_connections", arguments, h) = AccountConnections(h)
  BY DEF Body
<1>27. Body("get_recurring_activity", arguments, h) = RecurringActivity(h)
  BY DEF Body
<1>28. Body("explain_transfer_outcome", arguments, h) = TransferOutcome(h, arguments)
  BY DEF Body
<1>29. Body("stress_income_loss", arguments, h) = IncomeLoss(h, arguments)
  BY DEF Body
<1>30. Body("explain_product_boundary", arguments, h) = Boundary
  BY DEF Body
<1>31. QED
  BY <1>1, <1>2, <1>3, <1>4, <1>5, <1>6, <1>7, <1>8, <1>9, <1>10, <1>11,
     <1>12, <1>13, <1>14, <1>15, <1>16, <1>17, <1>18, <1>19, <1>20, <1>21,
     <1>22, <1>23, <1>24, <1>25, <1>26, <1>27, <1>28, <1>29, <1>30

(* The leg explained is the household's, and the one asked for if there is one. *)
LEMMA ExplainedLeg ==
    ASSUME NEW h, h.legs \in Seq(PaymentLeg), h.legs # <<>>, NEW arguments
    PROVE  /\ Explained(h, arguments) \in Range(h.legs)
           /\ \A leg \in Range(h.legs) :
                 "leg_id" \in DOMAIN arguments /\ arguments["leg_id"].value = leg.id =>
                     Explained(h, arguments).id = leg.id
<1> DEFINE asked == {k \in DOMAIN h.legs :
                        "leg_id" \in DOMAIN arguments /\ arguments["leg_id"].value = h.legs[k].id}
           among == CASE asked /= {} -> asked
                      [] asked = {} /\ Problems(h) /= {} -> Problems(h)
                      [] OTHER -> DOMAIN h.legs
<1>1. DOMAIN h.legs = 1..Len(h.legs) /\ Len(h.legs) \in Nat /\ Len(h.legs) # 0
  OBVIOUS
<1>2. Problems(h) \subseteq DOMAIN h.legs /\ asked \subseteq DOMAIN h.legs
  BY DEF Problems
<1>3. among # {} /\ among \subseteq 1..Len(h.legs)
  BY <1>1, <1>2
<1>4. asked # {} => among = asked
  OBVIOUS
<1>5. Explained(h, arguments) = h.legs[Min(among)]
  BY DEF Explained
<1>6. Min(among) \in among
  <2> HIDE DEF among
  <2>1. IsFiniteSet(1..Len(h.legs)) /\ 1..Len(h.legs) \subseteq Int
    BY <1>1, FS_Interval
  <2>2. IsFiniteSet(among) /\ among \subseteq Int
    BY <1>3, <2>1, FS_Subset
  <2>3. QED
    BY <1>3, <2>2, LeastOf
<1>7. Explained(h, arguments) \in Range(h.legs)
  <2> HIDE DEF among
  <2>1. QED
    BY <1>1, <1>3, <1>5, <1>6 DEF Range
<1>8. ASSUME NEW leg \in Range(h.legs),
             "leg_id" \in DOMAIN arguments, arguments["leg_id"].value = leg.id
      PROVE  Explained(h, arguments).id = leg.id
  <2> HIDE DEF among
  <2>1. asked # {}
    BY <1>8 DEF Range
  <2>2. Min(among) \in asked
    BY <1>4, <1>6, <2>1
  <2>3. QED
    BY <1>5, <1>8, <2>2
<1>9. QED
  BY <1>7, <1>8

(* A result names its tool, and shows no payment that is not there: only the *)
(* explanation of a payment shows more than the states payments are in.      *)
From(name, arguments, result, h) ==
    /\ DOMAIN result = {"tool", "error", "figures", "states", "says"}
    /\ result.tool = name
    /\ \/ result.states \subseteq States(h)
       \/ /\ name = "explain_transfer_outcome" /\ result.error = "" /\ h.legs # <<>>
          /\ result.states = Through(Explained(h, arguments))
LEMMA CallFrom ==
    ASSUME NEW h, NEW arguments
    PROVE  \A name : From(name, arguments, Call(name, arguments, h), h)
<1>1. From("get_money_overview", arguments, MoneyOverview(h), h)
  BY DEF From, MoneyOverview, Told
<1>2. From("get_paycheck_plan", arguments, PaycheckPlan(h), h)
  BY DEF From, PaycheckPlan, Told
<1>3. From("get_spending_allowance", arguments, Allowance(h), h)
  BY DEF From, Allowance, Told, Error
<1>4. From("get_cash_forecast", arguments, CashForecast(h), h)
  BY DEF From, CashForecast, Told, Error
<1>5. From("get_upcoming_obligations", arguments, UpcomingObligations(h), h)
  BY DEF From, UpcomingObligations, Told
<1>6. From("compare_debt_strategies", arguments, DebtStrategies(h, arguments), h)
  BY DEF From, DebtStrategies, NoModelledDebts, Told, Error
<1>7. From("what_if_extra_payment", arguments, ExtraPayment(h), h)
  BY DEF From, ExtraPayment, NoModelledDebts, Told, Error
<1>8. From("get_mortgage_scenarios", arguments, Mortgage(h), h)
  BY DEF From, Mortgage, NoModelledMortgage, Told, Error
<1>9. From("compare_biweekly_mortgage", arguments, Biweekly(h), h)
  BY DEF From, Biweekly, NoModelledMortgage, Told, Error
<1>10. From("plan_promotional_payoff", arguments, PromotionalPayoff(h), h)
  BY DEF From, PromotionalPayoff, Told
<1>11. From("choose_card", arguments, ChooseCard(h, arguments), h)
  BY DEF From, ChooseCard, Told, Error
<1>12. From("compare_card_vs_bank_for_bill", arguments, BillCard(h), h)
  BY DEF From, BillCard, Told
<1>13. From("compare_booking_channels", arguments, BookingChannels(h), h)
  BY DEF From, BookingChannels, Told
<1>14. From("check_utilization_timing", arguments, Utilization(h), h)
  BY DEF From, Utilization, Told, Error
<1>15. From("get_buffer", arguments, Buffer(h), h)
  BY DEF From, Buffer, Told, Error
<1>16. From("assess_sweep_move", arguments, SweepMove(h, arguments), h)
  BY DEF From, SweepMove, Told, Error
<1>17. From("get_liquidity_tiers", arguments, LiquidityTiers(h), h)
  BY DEF From, LiquidityTiers, Told
<1>18. From("compare_payment_timing", arguments, PaymentTiming(h), h)
  BY DEF From, PaymentTiming, Told
<1>19. From("get_tax_profile", arguments, TaxProfileRead(h), h)
  BY DEF From, TaxProfileRead, Told
<1>20. From("compare_savings_vs_debt", arguments, SavingsVsDebt(h), h)
  BY DEF From, SavingsVsDebt, Told, Error
<1>21. From("check_interest_deduction", arguments, InterestDeduction(h), h)
  BY DEF From, InterestDeduction, Told
<1>22. From("get_deposit_coverage", arguments, DepositCoverage(h), h)
  BY DEF From, DepositCoverage, Told
<1>23. From("plan_coverage_remedy", arguments, CoverageRemedy(h, arguments), h)
  BY DEF From, CoverageRemedy, Told, Error
<1>24. From("stress_collateral_line", arguments, StressCollateral(h), h)
  BY DEF From, StressCollateral, Told
<1>25. From("get_automation_status", arguments, AutomationStatus(h), h)
  BY DEF From, AutomationStatus, Told
<1>26. From("get_account_connections", arguments, AccountConnections(h), h)
  BY DEF From, AccountConnections, Told
<1>27. From("get_recurring_activity", arguments, RecurringActivity(h), h)
  BY DEF From, RecurringActivity, Told
<1>28. From("explain_transfer_outcome", arguments, TransferOutcome(h, arguments), h)
  BY DEF From, TransferOutcome, Told, Error
<1>29. From("stress_income_loss", arguments, IncomeLoss(h, arguments), h)
  BY DEF From, IncomeLoss, Told
<1>30. From("explain_product_boundary", arguments, Boundary, h)
  BY DEF From, Boundary, Told
<1>31. ASSUME NEW name \in Names, ToolSpec(name).readOnly
      PROVE  From(name, arguments, Body(name, arguments, h), h)
  <2>1. DOMAIN MoneyTools =
         {"get_money_overview", "get_paycheck_plan", "get_spending_allowance",
          "get_cash_forecast", "get_upcoming_obligations",
          "compare_debt_strategies", "what_if_extra_payment",
          "get_mortgage_scenarios", "compare_biweekly_mortgage",
          "plan_promotional_payoff", "choose_card",
          "compare_card_vs_bank_for_bill"}
    BY DEF MoneyTools
  <2>2. DOMAIN AccountTools =
         {"compare_booking_channels", "check_utilization_timing",
          "get_buffer", "assess_sweep_move", "get_liquidity_tiers",
          "compare_payment_timing", "get_tax_profile",
          "compare_savings_vs_debt", "check_interest_deduction",
          "get_deposit_coverage", "plan_coverage_remedy",
          "stress_collateral_line"}
    BY DEF AccountTools
  <2>3. DOMAIN ServiceTools =
         {"get_automation_status", "get_account_connections",
          "get_recurring_activity", "pause_recurring_policy",
          "skip_next_occurrence", "pay_bill_once", "explain_transfer_outcome",
          "stress_income_loss", "explain_product_boundary"}
    BY DEF ServiceTools
  <2>4. CASE name \in DOMAIN MoneyTools
    BY <2>1, <2>4, Bodies, <1>1, <1>2, <1>3, <1>4, <1>5, <1>6, <1>7, <1>8,
       <1>9, <1>10, <1>11, <1>12
  <2>5. CASE name \in DOMAIN AccountTools
    BY <2>2, <2>5, Bodies, <1>13, <1>14, <1>15, <1>16, <1>17, <1>18, <1>19,
       <1>20, <1>21, <1>22, <1>23, <1>24
  <2>6. CASE name \in DOMAIN ServiceTools
    <3>1. \A x \in {"pause_recurring_policy", "skip_next_occurrence", "pay_bill_once"} :
             ~ToolSpec(x).readOnly
      <4>1. /\ ToolSpec("pause_recurring_policy") = ServiceTools["pause_recurring_policy"]
            /\ ToolSpec("skip_next_occurrence") = ServiceTools["skip_next_occurrence"]
            /\ ToolSpec("pay_bill_once") = ServiceTools["pay_bill_once"]
        BY <2>1, <2>2, <2>3 DEF ToolSpec
      <4>2. /\ ~ServiceTools["pause_recurring_policy"].readOnly
            /\ ~ServiceTools["skip_next_occurrence"].readOnly
            /\ ~ServiceTools["pay_bill_once"].readOnly
        BY DEF ServiceTools, Write, Spec_
      <4>3. QED
        BY <4>1, <4>2
    <3>2. QED
      BY <1>31, <2>3, <2>6, <3>1, Bodies, <1>25, <1>26, <1>27, <1>28, <1>29,
         <1>30
  <2>7. QED
    BY <2>4, <2>5, <2>6 DEF Names
<1>32. ASSUME NEW name, NEW why PROVE From(name, arguments, Error(name, why), h)
  BY DEF From, Error
<1>33. ASSUME NEW name PROVE From(name, arguments, Call(name, arguments, h), h)
  <2>1. CASE name \notin Names \/ ~ToolSpec(name).readOnly
    BY <1>32, <2>1 DEF Call
  <2>2. CASE name \in Names /\ ToolSpec(name).readOnly /\ ~Accepts(name, arguments)
    BY <1>32, <2>2 DEF Call
  <2>3. CASE name \in Names /\ ToolSpec(name).readOnly /\ Accepts(name, arguments)
    <3>1. Call(name, arguments, h) = Body(name, arguments, h)
      BY <2>3 DEF Call
    <3>2. QED
      BY <1>31, <2>3, <3>1
  <2>4. QED
    BY <2>1, <2>2, <2>3
<1>34. QED
  BY <1>33

-----------------------------------------------------------------------------
(* The templates. *)

(* A result holds every figure that a template names.                      *)
Holds(template, result) ==
    result.error = "" => \A k \in DOMAIN template : template[k] \in DOMAIN result.figures

Template(intent) ==
    IF intent \in DOMAIN PlanTemplates THEN PlanTemplates[intent]
    ELSE RecordTemplates[intent]

LEMMA NoneNamed == \A result : Holds(<<>>, result)
<1>1. DOMAIN <<>> = {}
  <2>1. <<>> \in Seq({}) /\ Len(<<>>) = 0
    OBVIOUS
  <2>2. QED
    BY <2>1
<1>2. QED
  BY <1>1 DEF Holds

LEMMA ResultsHold ==
    ASSUME NEW h, NEW arguments
    PROVE  \A p \in Pairs : p[1] # "coverage_remedy" =>
              Holds(Template(p[1]), Body(p[2], arguments, h))
<1>1. Holds(Template("paycheck_split"), Body("get_paycheck_plan", arguments, h))
  <2>1. Template("paycheck_split") = <<"total_target", "expected_income", "available", "allocated">>
    BY DEF Template, PlanTemplates
  <2>2. Holds(<<"total_target", "expected_income", "available", "allocated">>, PaycheckPlan(h))
    BY DEF Holds, PaycheckPlan, Told, Worth
  <2>3. QED
    BY <2>1, <2>2, Bodies
<1>2. Holds(Template("money_overview"), Body("get_money_overview", arguments, h))
  <2>1. Template("money_overview") = <<"total_cash", "spendable_now", "total_debt", "net_worth">>
    BY DEF Template, PlanTemplates
  <2>2. Holds(<<"total_cash", "spendable_now", "total_debt", "net_worth">>, MoneyOverview(h))
    BY DEF Holds, MoneyOverview, Told, Worth, With
  <2>3. QED
    BY <2>1, <2>2, Bodies
<1>3. Holds(Template("reserves"), Body("get_money_overview", arguments, h))
  <2>1. Template("reserves") = <<"protected_reserves">>
    BY DEF Template, PlanTemplates
  <2>2. Holds(<<"protected_reserves">>, MoneyOverview(h))
    BY DEF Holds, MoneyOverview, Told, Worth, With
  <2>3. QED
    BY <2>1, <2>2, Bodies
<1>4. Holds(Template("spending_allowance"), Body("get_spending_allowance", arguments, h))
  <2>1. Template("spending_allowance") = <<"amount", "low_point_balance", "required_before", "protected">>
    BY DEF Template, PlanTemplates
  <2>2. Holds(<<"amount", "low_point_balance", "required_before", "protected">>, Allowance(h))
    BY DEF Holds, Allowance, Told, Worth, With, Error
  <2>3. QED
    BY <2>1, <2>2, Bodies
<1>5. Holds(Template("cash_forecast"), Body("get_cash_forecast", arguments, h))
  <2>1. Template("cash_forecast") = <<"ending_balance", "low_point">>
    BY DEF Template, PlanTemplates, RecordTemplates
  <2>2. Holds(<<"ending_balance", "low_point">>, CashForecast(h))
    BY DEF Holds, CashForecast, Told, Worth, With, Error
  <2>3. QED
    BY <2>1, <2>2, Bodies
<1>6. Holds(Template("upcoming_bills"), Body("get_upcoming_obligations", arguments, h))
  <2>1. Template("upcoming_bills") = <<"count", "total_due">>
    BY DEF Template, PlanTemplates, RecordTemplates
  <2>2. Holds(<<"count", "total_due">>, UpcomingObligations(h))
    BY DEF Holds, UpcomingObligations, Told, Worth
  <2>3. QED
    BY <2>1, <2>2, Bodies
<1>7. Holds(Template("debt_compare"), Body("compare_debt_strategies", arguments, h))
  <2>1. Template("debt_compare") = <<"budget", "required_total", "extra", "total_interest">>
    BY DEF Template, PlanTemplates
  <2>2. Holds(<<"budget", "required_total", "extra", "total_interest">>, DebtStrategies(h, arguments))
    BY DEF Holds, DebtStrategies, NoModelledDebts, Told, Worth, Error
  <2>3. QED
    BY <2>1, <2>2, Bodies
<1>8. Holds(Template("extra_payment"), Body("what_if_extra_payment", arguments, h))
  <2>1. Template("extra_payment") = <<"extra_per_month", "interest_saved", "months_saved">>
    BY DEF Template, PlanTemplates
  <2>2. Holds(<<"extra_per_month", "interest_saved", "months_saved">>, ExtraPayment(h))
    BY DEF Holds, ExtraPayment, NoModelledDebts, Told, Worth, Error
  <2>3. QED
    BY <2>1, <2>2, Bodies
<1>9. Holds(Template("extra_payment_help"), Body("compare_debt_strategies", arguments, h))
  <2>1. Template("extra_payment_help") = <<"extra", "budget">>
    BY DEF Template, PlanTemplates
  <2>2. Holds(<<"extra", "budget">>, DebtStrategies(h, arguments))
    BY DEF Holds, DebtStrategies, NoModelledDebts, Told, Worth, Error
  <2>3. QED
    BY <2>1, <2>2, Bodies
<1>10. Holds(Template("mortgage"), Body("get_mortgage_scenarios", arguments, h))
  <2>1. Template("mortgage") = <<"balance", "principal_and_interest", "escrow", "lifetime_interest">>
    BY DEF Template, PlanTemplates, RecordTemplates
  <2>2. Holds(<<"balance", "principal_and_interest", "escrow", "lifetime_interest">>, Mortgage(h))
    BY DEF Holds, Mortgage, NoModelledMortgage, Told, Worth, Error
  <2>3. QED
    BY <2>1, <2>2, Bodies
<1>11. Holds(Template("biweekly"), Body("compare_biweekly_mortgage", arguments, h))
  <2>1. Template("biweekly") = <<"half_payment", "annual_paid", "extra_paid">>
    BY DEF Template, PlanTemplates, RecordTemplates
  <2>2. Holds(<<"half_payment", "annual_paid", "extra_paid">>, Biweekly(h))
    BY DEF Holds, Biweekly, NoModelledMortgage, Told, Worth, Error
  <2>3. QED
    BY <2>1, <2>2, Bodies
<1>12. Holds(Template("promo_payoff"), Body("plan_promotional_payoff", arguments, h))
  <2>1. Template("promo_payoff") = <<"per_paycheck", "promotional_balance">>
    BY DEF Template, PlanTemplates, RecordTemplates
  <2>2. Holds(<<"per_paycheck", "promotional_balance">>, PromotionalPayoff(h))
    BY DEF Holds, PromotionalPayoff, Told, Worth
  <2>3. QED
    BY <2>1, <2>2, Bodies
<1>13. Holds(Template("card_choice"), Body("choose_card", arguments, h))
  <2>1. Template("card_choice") = <<"net_value">>
    BY DEF Template, PlanTemplates
  <2>2. Holds(<<"net_value">>, ChooseCard(h, arguments))
    BY DEF Holds, ChooseCard, Told, Worth, Error
  <2>3. QED
    BY <2>1, <2>2, Bodies
<1>14. Holds(Template("bill_card_vs_bank"), Body("compare_card_vs_bank_for_bill", arguments, h))
  <2>1. Template("bill_card_vs_bank") = <<"reward", "processing_fee", "net">>
    BY DEF Template, PlanTemplates, RecordTemplates
  <2>2. Holds(<<"reward", "processing_fee", "net">>, BillCard(h))
    BY DEF Holds, BillCard, Told, Worth
  <2>3. QED
    BY <2>1, <2>2, Bodies
<1>15. Holds(Template("booking_channel"), Body("compare_booking_channels", arguments, h))
  <2>1. Template("booking_channel") = <<"price", "booking_reward", "net_cost">>
    BY DEF Template, PlanTemplates, RecordTemplates
  <2>2. Holds(<<"price", "booking_reward", "net_cost">>, BookingChannels(h))
    BY DEF Holds, BookingChannels, Told, Worth
  <2>3. QED
    BY <2>1, <2>2, Bodies
<1>16. Holds(Template("utilization"), Body("check_utilization_timing", arguments, h))
  <2>1. Template("utilization") = <<"reported">>
    BY DEF Template, PlanTemplates, RecordTemplates
  <2>2. Holds(<<"reported">>, Utilization(h))
    BY DEF Holds, Utilization, Told, Worth, Error
  <2>3. QED
    BY <2>1, <2>2, Bodies
<1>17. Holds(Template("buffer"), Body("get_buffer", arguments, h))
  <2>1. Template("buffer") = <<"required_retained", "available", "sweepable">>
    BY DEF Template, PlanTemplates, RecordTemplates
  <2>2. Holds(<<"required_retained", "available", "sweepable">>, Buffer(h))
    BY DEF Holds, Buffer, Told, Error
  <2>3. QED
    BY <2>1, <2>2, Bodies
<1>18. Holds(Template("sweep"), Body("assess_sweep_move", arguments, h))
  <2>1. Template("sweep") = <<"net_gain">>
    BY DEF Template, PlanTemplates, RecordTemplates
  <2>2. Holds(<<"net_gain">>, SweepMove(h, arguments))
    BY DEF Holds, SweepMove, Told, Worth, With, Error
  <2>3. QED
    BY <2>1, <2>2, Bodies
<1>19. Holds(Template("liquidity"), Body("get_liquidity_tiers", arguments, h))
  <2>1. Template("liquidity") = <<"near_term_cash">>
    BY DEF Template, PlanTemplates, RecordTemplates
  <2>2. Holds(<<"near_term_cash">>, LiquidityTiers(h))
    BY DEF Holds, LiquidityTiers, Told, Worth
  <2>3. QED
    BY <2>1, <2>2, Bodies
<1>20. Holds(Template("timing"), Body("compare_payment_timing", arguments, h))
  <2>1. Template("timing") = <<"carry", "penalty">>
    BY DEF Template, PlanTemplates, RecordTemplates
  <2>2. Holds(<<"carry", "penalty">>, PaymentTiming(h))
    BY DEF Holds, PaymentTiming, Told, Worth
  <2>3. QED
    BY <2>1, <2>2, Bodies
<1>21. Holds(Template("save_vs_debt"), Body("compare_savings_vs_debt", arguments, h))
  <2>1. Template("save_vs_debt") = <<"benefit", "versus_baseline">>
    BY DEF Template, PlanTemplates, RecordTemplates
  <2>2. Holds(<<"benefit", "versus_baseline">>, SavingsVsDebt(h))
    BY DEF Holds, SavingsVsDebt, Told, Worth, Error
  <2>3. QED
    BY <2>1, <2>2, Bodies
<1>22. Holds(Template("deduction"), Body("check_interest_deduction", arguments, h))
  <2>1. Template("deduction") = <<>>
    BY DEF Template, PlanTemplates, RecordTemplates
  <2>2. Holds(<<>>, InterestDeduction(h))
    BY NoneNamed
  <2>3. QED
    BY <2>1, <2>2, Bodies
<1>23. Holds(Template("tax_assumptions"), Body("get_tax_profile", arguments, h))
  <2>1. Template("tax_assumptions") = <<"federal", "state", "combined">>
    BY DEF Template, PlanTemplates
  <2>2. Holds(<<"federal", "state", "combined">>, TaxProfileRead(h))
    BY DEF Holds, TaxProfileRead, Told, Worth
  <2>3. QED
    BY <2>1, <2>2, Bodies
<1>24. Holds(Template("coverage"), Body("get_deposit_coverage", arguments, h))
  <2>1. Template("coverage") = <<"total_uncovered", "limit">>
    BY DEF Template, PlanTemplates
  <2>2. Holds(<<"total_uncovered", "limit">>, DepositCoverage(h))
    BY DEF Holds, DepositCoverage, Told, Worth
  <2>3. QED
    BY <2>1, <2>2, Bodies
<1>26. Holds(Template("collateral"), Body("stress_collateral_line", arguments, h))
  <2>1. Template("collateral") = <<"capacity", "deficiency">>
    BY DEF Template, PlanTemplates, RecordTemplates
  <2>2. Holds(<<"capacity", "deficiency">>, StressCollateral(h))
    BY DEF Holds, StressCollateral, Told, Worth
  <2>3. QED
    BY <2>1, <2>2, Bodies
<1>27. Holds(Template("automation"), Body("get_automation_status", arguments, h))
  <2>1. Template("automation") = <<"per_run_cap">>
    BY DEF Template, PlanTemplates
  <2>2. Holds(<<"per_run_cap">>, AutomationStatus(h))
    BY DEF Holds, AutomationStatus, Told, Worth
  <2>3. QED
    BY <2>1, <2>2, Bodies
<1>28. Holds(Template("account_connections"), Body("get_account_connections", arguments, h))
  <2>1. Template("account_connections") = <<"unhealthy_count">>
    BY DEF Template, PlanTemplates, RecordTemplates
  <2>2. Holds(<<"unhealthy_count">>, AccountConnections(h))
    BY DEF Holds, AccountConnections, Told
  <2>3. QED
    BY <2>1, <2>2, Bodies
<1>29. Holds(Template("recurring_activity"), Body("get_recurring_activity", arguments, h))
  <2>1. Template("recurring_activity") = <<"runs", "will_not_run">>
    BY DEF Template, PlanTemplates, RecordTemplates
  <2>2. Holds(<<"runs", "will_not_run">>, RecurringActivity(h))
    BY DEF Holds, RecurringActivity, Told, Worth, With
  <2>3. QED
    BY <2>1, <2>2, Bodies
<1>30. Holds(Template("transfer_failure"), Body("explain_transfer_outcome", arguments, h))
  <2>1. Template("transfer_failure") = <<"leg_amount">>
    BY DEF Template, PlanTemplates
  <2>2. Holds(<<"leg_amount">>, TransferOutcome(h, arguments))
    BY DEF Holds, TransferOutcome, Told, Worth, Error
  <2>3. QED
    BY <2>1, <2>2, Bodies
<1>31. Holds(Template("income_loss"), Body("stress_income_loss", arguments, h))
  <2>1. Template("income_loss") = <<"total_required_over_period", "available_cash", "emergency_reserve", "unmet">>
    BY DEF Template, PlanTemplates
  <2>2. Holds(<<"total_required_over_period", "available_cash", "emergency_reserve", "unmet">>, IncomeLoss(h, arguments))
    BY DEF Holds, IncomeLoss, Told, Worth, With
  <2>3. QED
    BY <2>1, <2>2, Bodies
<1>32. Holds(Template("boundary"), Body("explain_product_boundary", arguments, h))
  <2>1. Template("boundary") = <<>>
    BY DEF Template, PlanTemplates, RecordTemplates
  <2>2. Holds(<<>>, Boundary)
    BY NoneNamed
  <2>3. QED
    BY <2>1, <2>2, Bodies
<1>33. QED
  BY <1>1, <1>2, <1>3, <1>4, <1>5, <1>6, <1>7, <1>8, <1>9, <1>10, <1>11,
     <1>12, <1>13, <1>14, <1>15, <1>16, <1>17, <1>18, <1>19, <1>20, <1>21,
     <1>22, <1>23, <1>24, <1>26, <1>27, <1>28, <1>29, <1>30, <1>31,
     <1>32
     DEF Pairs, INTENTS, PlanIntents, RecordIntents, Intent

(* The figures an intent is answered with: its template's, or none.        *)
LEMMA PlanFields ==
    ASSUME NEW result, result.error = ""
    PROVE  \A intent \in DOMAIN PlanTemplates :
              Fields(intent, result) \in {<<>>, PlanTemplates[intent]}
  BY DEF Fields, PlanTemplates

LEMMA RecordFields ==
    ASSUME NEW result, result.error = "", NEW intent \in DOMAIN RecordTemplates
    PROVE  \/ Fields(intent, result) \in {<<>>, RecordTemplates[intent]}
           \/ intent = "sweep" /\ Fields(intent, result) = <<"net_gain", "sweepable">>
  BY DEF Fields, PlanTemplates, RecordTemplates

LEMMA OtherFields ==
    ASSUME NEW result
    PROVE  /\ Fields("unknown", result) = <<>>
           /\ Fields("card_location_clarification", result) = <<>>
           /\ result.error = "" =>
                 Fields("extra_payment_cadence_clarification", result) = <<"extra_per_month">>
<1>1. Fields("unknown", result) = <<>>
  BY DEF Fields, Unfigured
<1>2. Fields("card_location_clarification", result) = <<>>
  BY DEF Fields, Unfigured
<1>3. ASSUME result.error = ""
      PROVE  Fields("extra_payment_cadence_clarification", result) = <<"extra_per_month">>
  BY <1>3 DEF Fields, Unfigured
<1>4. QED
  BY <1>1, <1>2, <1>3

LEMMA PairsListed ==
    \A p \in Pairs : p[1] \in DOMAIN PlanTemplates \cup DOMAIN RecordTemplates
  BY DEF Pairs, INTENTS, PlanIntents, RecordIntents, Intent, PlanTemplates, RecordTemplates

LEMMA AllNamed ==
    ASSUME NEW S, NEW a \in S, NEW b \in S, NEW c \in S, NEW d \in S, NEW e \in S
    PROVE  \A k \in DOMAIN <<a, b, c, d, e>> : <<a, b, c, d, e>>[k] \in S
<1> DEFINE t == <<a, b, c, d, e>>
<1>1. t \in Seq(S) /\ Len(t) = 5
  OBVIOUS
<1> HIDE DEF t
<1>2. QED
  BY <1>1 DEF t

(* A remedy is worded with figures only where something is to be moved.     *)
LEMMA RemedyReads ==
    ASSUME NEW h, NEW arguments,
           NEW result, result = CoverageRemedy(h, arguments), result.error = ""
    PROVE  Holds(Fields("coverage_remedy", result), result)
<1> DEFINE fields == <<"recommended_move", "excess", "buffer_below_limit",
                       "source_after", "destination_after">>
<1>1. CASE "no uncovered balance" \in result.says
  <2>1. Fields("coverage_remedy", result) = <<>>
    BY <1>1 DEF Fields, Unfigured
  <2>2. QED
    BY <2>1, NoneNamed
<1>2. CASE "no uncovered balance" \notin result.says
  <2>1. {"recommended_move", "excess", "buffer_below_limit", "source_after", "destination_after"}
          \subseteq DOMAIN result.figures
    BY <1>2 DEF CoverageRemedy, Error, Told, With, Worth
  <2>2. Fields("coverage_remedy", result) = fields
    <3>1. ~Unfigured("coverage_remedy", result)
      BY <1>2 DEF Unfigured
    <3>2. "coverage_remedy" \notin DOMAIN PlanTemplates
      BY DEF PlanTemplates
    <3>3. Fields("coverage_remedy", result) = RecordTemplates["coverage_remedy"]
      BY <3>1, <3>2 DEF Fields
    <3>4. QED
      BY <3>3 DEF RecordTemplates
  <2>3. Holds(fields, result)
    <3>1. \A k \in DOMAIN fields : fields[k] \in DOMAIN result.figures
      BY <2>1, AllNamed
    <3>2. QED
      BY <3>1 DEF Holds
  <2>4. QED
    BY <2>2, <2>3
<1>3. QED
  BY <1>1, <1>2

(* Whatever tool the router pairs with an intent, with whatever arguments  *)
(* it was called, the template finds every figure it names.                *)
LEMMA TemplateReads ==
    ASSUME NEW intent, NEW tool, <<intent, tool>> \in Routes, NEW arguments, NEW h
    PROVE  Holds(Fields(intent, Call(tool, arguments, h)), Call(tool, arguments, h))
<1> DEFINE result == Call(tool, arguments, h)
<1>1. SUFFICES ASSUME result.error = "" PROVE Holds(Fields(intent, result), result)
  BY DEF Holds
<1>2. result = Body(tool, arguments, h)
  BY <1>1 DEF Call, Error
<1> HIDE DEF result
<1>3. CASE <<intent, tool>> \in Pairs /\ intent = "coverage_remedy"
  <2>1. tool = "plan_coverage_remedy"
    BY <1>3 DEF Pairs, INTENTS, PlanIntents, RecordIntents, Intent
  <2>2. result = CoverageRemedy(h, arguments)
    BY <1>2, <2>1, Bodies
  <2>3. QED
    BY <1>1, <1>3, <2>2, RemedyReads
<1>4. CASE <<intent, tool>> \in Pairs /\ intent # "coverage_remedy"
  <2>1. Holds(Template(intent), result)
    BY <1>2, <1>4, ResultsHold
  <2>2. Holds(<<>>, result)
    BY NoneNamed
  <2>3. intent = "sweep" => Holds(<<"net_gain", "sweepable">>, result)
    <3>1. intent = "sweep" => tool = "assess_sweep_move"
      BY <1>4 DEF Pairs, INTENTS, PlanIntents, RecordIntents, Intent
    <3>2. Holds(<<"net_gain", "sweepable">>, SweepMove(h, arguments))
      BY DEF Holds, SweepMove, Told, Worth, With, Error
    <3>3. QED
      BY <1>2, <3>1, <3>2, Bodies
  <2>4. intent \in DOMAIN PlanTemplates \cup DOMAIN RecordTemplates
    BY <1>4, PairsListed
  <2>5. \/ Fields(intent, result) \in {<<>>, Template(intent)}
        \/ intent = "sweep" /\ Fields(intent, result) = <<"net_gain", "sweepable">>
    BY <1>1, <2>4, PlanFields, RecordFields DEF Template
  <2>6. QED
    BY <2>1, <2>2, <2>3, <2>5
<1>5. CASE intent = "extra_payment_cadence_clarification" /\ tool = "what_if_extra_payment"
  <2>1. Holds(<<"extra_per_month">>, ExtraPayment(h))
    BY DEF Holds, ExtraPayment, NoModelledDebts, Told, Worth, Error
  <2>2. Fields("extra_payment_cadence_clarification", result) = <<"extra_per_month">>
    BY <1>1, OtherFields
  <2>3. QED
    BY <1>2, <1>5, <2>1, <2>2, Bodies
<1>6. CASE intent \in {"unknown", "card_location_clarification"}
  <2>1. Fields(intent, result) = <<>>
    BY <1>6, OtherFields
  <2>2. QED
    BY <2>1, NoneNamed
<1>7. QED
  BY <1>3, <1>4, <1>5, <1>6 DEF Routes

(* A template reads nothing from an error.                                 *)
LEMMA ErrorFields ==
    ASSUME NEW intent, NEW result, result.error # ""
    PROVE  Fields(intent, result) = <<>>
  BY DEF Fields, Unfigured

(* The fields of a template are numbered from one.                         *)
Numbered(fields) == \E n \in Nat : DOMAIN fields = 1..n

LEMMA Tuples ==
    ASSUME NEW a, NEW b, NEW c, NEW d, NEW e
    PROVE  /\ Numbered(<<>>) /\ Numbered(<<a>>) /\ Numbered(<<a, b>>)
           /\ Numbered(<<a, b, c>>) /\ Numbered(<<a, b, c, d>>) /\ Numbered(<<a, b, c, d, e>>)
<1>1. /\ DOMAIN <<a>> = 1..1 /\ DOMAIN <<a, b>> = 1..2
      /\ DOMAIN <<a, b, c>> = 1..3 /\ DOMAIN <<a, b, c, d>> = 1..4
      /\ DOMAIN <<a, b, c, d, e>> = 1..5
  OBVIOUS
<1>2. DOMAIN <<>> = 1..0
  <2>1. <<>> \in Seq({}) /\ Len(<<>>) = 0
    OBVIOUS
  <2>2. QED
    BY <2>1
<1>3. 0 \in Nat /\ 1 \in Nat /\ 2 \in Nat /\ 3 \in Nat /\ 4 \in Nat /\ 5 \in Nat
  OBVIOUS
<1>4. QED
  BY <1>1, <1>2, <1>3 DEF Numbered

LEMMA TupleNumbered ==
    ASSUME NEW t, \/ t = <<>> \/ t = <<t[1]>> \/ t = <<t[1], t[2]>>
                  \/ t = <<t[1], t[2], t[3]>> \/ t = <<t[1], t[2], t[3], t[4]>>
                  \/ t = <<t[1], t[2], t[3], t[4], t[5]>>
    PROVE  Numbered(t)
<1>1. /\ Numbered(<<>>) /\ Numbered(<<t[1]>>) /\ Numbered(<<t[1], t[2]>>)
      /\ Numbered(<<t[1], t[2], t[3]>>) /\ Numbered(<<t[1], t[2], t[3], t[4]>>)
      /\ Numbered(<<t[1], t[2], t[3], t[4], t[5]>>)
  BY Tuples
<1>2. QED
  BY <1>1, Zenon

LEMMA TemplatesNumbered ==
    /\ \A i \in DOMAIN PlanTemplates : Numbered(PlanTemplates[i])
    /\ \A i \in DOMAIN RecordTemplates : Numbered(RecordTemplates[i])
<1>1. \A i \in DOMAIN PlanTemplates :
             \/ PlanTemplates[i] = <<>>
             \/ PlanTemplates[i] = <<PlanTemplates[i][1]>>
             \/ PlanTemplates[i] = <<PlanTemplates[i][1], PlanTemplates[i][2]>>
             \/ PlanTemplates[i] = <<PlanTemplates[i][1], PlanTemplates[i][2],
                               PlanTemplates[i][3]>>
             \/ PlanTemplates[i] = <<PlanTemplates[i][1], PlanTemplates[i][2],
                               PlanTemplates[i][3], PlanTemplates[i][4]>>
  BY SMT DEF PlanTemplates
<1>2. \A i \in DOMAIN RecordTemplates :
             \/ RecordTemplates[i] = <<>>
             \/ RecordTemplates[i] = <<RecordTemplates[i][1]>>
             \/ RecordTemplates[i] = <<RecordTemplates[i][1], RecordTemplates[i][2]>>
             \/ RecordTemplates[i] = <<RecordTemplates[i][1], RecordTemplates[i][2],
                                 RecordTemplates[i][3]>>
             \/ RecordTemplates[i] = <<RecordTemplates[i][1], RecordTemplates[i][2],
                                 RecordTemplates[i][3], RecordTemplates[i][4]>>
             \/ RecordTemplates[i] = <<RecordTemplates[i][1], RecordTemplates[i][2],
                                 RecordTemplates[i][3], RecordTemplates[i][4],
                                 RecordTemplates[i][5]>>
  BY SMT DEF RecordTemplates
<1>3. \A i \in DOMAIN PlanTemplates : Numbered(PlanTemplates[i])
  BY <1>1, TupleNumbered, Zenon
<1>4. \A i \in DOMAIN RecordTemplates : Numbered(RecordTemplates[i])
  BY <1>2, TupleNumbered, Zenon
<1>5. QED
  BY <1>3, <1>4

LEMMA FieldsNumbered ==
    ASSUME NEW intent, NEW tool, <<intent, tool>> \in Routes, NEW result
    PROVE  Numbered(Fields(intent, result))
<1>1. CASE result.error # ""
  BY <1>1, ErrorFields, Tuples
<1>2. CASE result.error = "" /\ <<intent, tool>> \in Pairs
  <2>1. intent \in DOMAIN PlanTemplates \cup DOMAIN RecordTemplates
    BY <1>2, PairsListed
  <2>2. CASE intent \in DOMAIN PlanTemplates
    <3>1. Fields(intent, result) \in {<<>>, PlanTemplates[intent]}
      BY <1>2, <2>2, PlanFields
    <3>2. QED
      BY <2>2, <3>1, Tuples, TemplatesNumbered
  <2>3. CASE intent \in DOMAIN RecordTemplates
    <3>1. Fields(intent, result) \in {<<>>, RecordTemplates[intent], <<"net_gain", "sweepable">>}
      BY <1>2, <2>3, RecordFields
    <3>2. QED
      BY <2>3, <3>1, Tuples, TemplatesNumbered
  <2>4. QED
    BY <2>1, <2>2, <2>3
<1>3. CASE result.error = "" /\ intent \in {"extra_payment_cadence_clarification",
                                            "unknown", "card_location_clarification"}
  BY <1>3, OtherFields, Tuples
<1>4. QED
  BY <1>1, <1>2, <1>3 DEF Routes

(* The questions about spending are answered with the allowance.           *)
LEMMA SpendingRoute ==
    ASSUME NEW tool, <<"spending_allowance", tool>> \in Routes
    PROVE  tool = "get_spending_allowance"
<1>1. <<"spending_allowance", tool>> \in Pairs
  BY DEF Routes
<1>2. \A p \in Pairs : p[1] = "spending_allowance" => p[2] = "get_spending_allowance"
  BY DEF Pairs, INTENTS, PlanIntents, RecordIntents, Intent
<1>3. QED
  BY <1>1, <1>2

-----------------------------------------------------------------------------
(* What a request holds. *)

(* A result is what its tool tells of the household, as it was asked.      *)
TrueOf(h, result) ==
    LET told == Call(result.tool, result.arguments, h) IN
    /\ result.error = told.error /\ result.figures = told.figures
    /\ result.states = told.states /\ result.says = told.says
Told_(h, results) == \E S : results \in Seq(S) /\ \A x \in S : TrueOf(h, x)

Ready(s) ==
    /\ <<s.route.intent, s.route.tool>> \in Routes
    /\ 1 \in DOMAIN s.results /\ s.results[1].tool = s.route.tool

(* What is said is in a result, and stands where it is true.               *)
Answered(s, h) ==
    /\ \A v \in Range(s.answer.said) : \E k \in DOMAIN s.results :
          \E f \in DOMAIN s.results[k].figures : s.results[k].figures[f] = v
    /\ s.route.intent = "spending_allowance" /\ s.results[1].error = "" =>
          s.answer.said[1] = Floor0(h.low - h.protected)
    /\ s.answer.says = "settled" => Evidence(h, s.results) \cap SettledStates # {}
    /\ s.answer.says = "sent" => Evidence(h, s.results) \cap InFlightStates # {}

LEMMA ToolsTell ==
    ASSUME NEW r, NEW s, NEW name, NEW arguments
    PROVE  LET result == CallTool(r, s, name, arguments) IN
           result.tool = name /\ TrueOf(Snapshot(r, s), result)
<1> DEFINE h == Snapshot(r, s)
           told == Call(name, arguments, h)
           result == CallTool(r, s, name, arguments)
<1>1. From(name, arguments, told, h)
  BY CallFrom
<1>2. result = With(told, [arguments |-> arguments])
  BY DEF CallTool
<1> HIDE DEF told, result
<1>3. /\ result.tool = name /\ result.arguments = arguments
      /\ result.error = told.error /\ result.figures = told.figures
      /\ result.states = told.states /\ result.says = told.says
  BY <1>1, <1>2 DEF With, From
<1>4. QED
  BY <1>3 DEF told, result, TrueOf

(* The reference names figures of the first result only.                   *)
LEMMA ReferenceTrue ==
    ASSUME NEW s, NEW h, Ready(s), TrueOf(h, s.results[1])
    PROVE  /\ \E n \in Nat : DOMAIN Reference(s).figures = 1..n
           /\ \A k \in DOMAIN Reference(s).figures :
                 \E f \in DOMAIN s.results[1].figures :
                    s.results[1].figures[f] = Reference(s).figures[k]
           /\ s.route.intent = "spending_allowance" /\ s.results[1].error = "" =>
                 /\ Reference(s).figures[1] = Floor0(h.low - h.protected)
                 /\ s.results[1].figures["amount"] = Floor0(h.low - h.protected)
<1> DEFINE intent == s.route.intent
           tool == s.route.tool
           result == s.results[1]
           told == Call(tool, result.arguments, h)
           read == Fields(intent, result)
<1>1. <<intent, tool>> \in Routes /\ result.tool = tool
  BY DEF Ready
<1>2. /\ result.error = told.error /\ result.figures = told.figures
      /\ result.says = told.says
  BY <1>1 DEF TrueOf
<1>3. read = Fields(intent, told)
  BY <1>2 DEF Fields, Unfigured
<1>4. Holds(read, result)
  <2>1. Holds(Fields(intent, told), told)
    BY <1>1, TemplateReads
  <2>2. QED
    BY <1>2, <1>3, <2>1 DEF Holds
<1>5. Reference(s).figures = [k \in DOMAIN read |-> result.figures[read[k]]]
  BY DEF Reference, TemplateAnswer
<1>6. \E n \in Nat : DOMAIN read = 1..n
  BY <1>1, FieldsNumbered DEF Numbered
<1>7. ASSUME NEW k \in DOMAIN read
      PROVE  \E f \in DOMAIN result.figures : result.figures[f] = Reference(s).figures[k]
  <2>1. result.error = ""
    <3>1. SUFFICES ASSUME result.error # "" PROVE FALSE
      OBVIOUS
    <3>2. read = <<>>
      BY <3>1, ErrorFields
    <3>3. DOMAIN <<>> = {}
      OBVIOUS
    <3>4. QED
      BY <1>7, <3>2, <3>3
  <2>2. read[k] \in DOMAIN result.figures
    BY <1>4, <1>7, <2>1 DEF Holds
  <2>3. QED
    BY <1>5, <1>7, <2>2
<1>8. ASSUME intent = "spending_allowance", result.error = ""
      PROVE  /\ Reference(s).figures[1] = Floor0(h.low - h.protected)
             /\ result.figures["amount"] = Floor0(h.low - h.protected)
  <2>1. tool = "get_spending_allowance"
    BY <1>1, <1>8, SpendingRoute
  <2>2. told = Body(tool, result.arguments, h)
    BY <1>2, <1>8 DEF Call, Error
  <2>3. told = Allowance(h)
    BY <2>1, <2>2, Bodies
  <2>4. Allowance(h).error = "" => Allowance(h).figures["amount"] = Floor0(h.low - h.protected)
    BY DEF Allowance, Error, Told, With, Worth
  <2>5. read = PlanTemplates["spending_allowance"]
    <3>1. "spending_allowance" \in DOMAIN PlanTemplates
      BY DEF PlanTemplates
    <3>2. QED
      BY <1>8, <3>1 DEF Fields, Unfigured
  <2>6. 1 \in DOMAIN read /\ read[1] = "amount"
    BY <2>5 DEF PlanTemplates
  <2>7. result.figures["amount"] = Floor0(h.low - h.protected)
    BY <1>2, <1>8, <2>3, <2>4
  <2>8. QED
    BY <1>5, <2>6, <2>7
<1>9. QED
  BY <1>5, <1>6, <1>7, <1>8

(* The facts a model's tokens stand for are the reference's figures.       *)
LEMMA FactsOfReference ==
    ASSUME NEW reference, NEW n \in Nat, DOMAIN reference.figures = 1..n,
           NEW t \in DOMAIN Facts(reference)
    PROVE  \E k \in 1..n : Facts(reference)[t] = reference.figures[k]
<1> DEFINE places == {k \in DOMAIN reference.figures : Tokens(reference)[k] = t}
<1>1. places # {}
  BY DEF Facts, Tokens, Range
<1>2. places \in SUBSET (1..n) /\ IsFiniteSet(1..n)
  BY FS_Interval
<1>3. IsFiniteSet(places) /\ places \subseteq Int
  <2> HIDE DEF places
  <2>1. IsFiniteSet(places)
    BY <1>2, FS_Subset
  <2>2. places \subseteq Int
    <3>1. \A k \in 1..n : k \in Int
      OBVIOUS
    <3>2. QED
      BY <1>2, <3>1
  <2>3. QED
    BY <2>1, <2>2
<1>4. Min(places) \in places
  <2> HIDE DEF places
  <2>1. QED
    BY <1>1, <1>3, LeastOf
<1>5. Facts(reference)[t] = reference.figures[Min(places)]
  BY DEF Facts
<1>6. QED
  BY <1>2, <1>4, <1>5

(* What a result shows of payments is evidence.                            *)
LEMMA StatesShown ==
    ASSUME NEW h, h.legs \in Seq(PaymentLeg), NEW results, NEW k \in DOMAIN results,
           TrueOf(h, results[k])
    PROVE  results[k].states \subseteq Evidence(h, results)
<1> DEFINE result == results[k]
           told == Call(result.tool, result.arguments, h)
           leg == Explained(h, result.arguments)
<1>1. result.error = told.error /\ result.states = told.states
  BY DEF TrueOf
<1>2. From(result.tool, result.arguments, told, h)
  BY CallFrom
<1>3. CASE told.states \subseteq States(h)
  BY <1>1, <1>3 DEF Evidence
<1>4. CASE /\ result.tool = "explain_transfer_outcome" /\ told.error = "" /\ h.legs # <<>>
           /\ told.states = Through(leg)
  <2>1. leg \in Range(h.legs) /\ Explains(h, result, leg)
    BY <1>1, <1>4, ExplainedLeg DEF Explains
  <2>2. leg.state \in States(h)
    BY <2>1 DEF States, Range
  <2>3. leg.past \subseteq Evidence(h, results)
    BY <2>1 DEF Evidence
  <2>4. QED
    BY <1>1, <1>4, <2>2, <2>3 DEF Through, Evidence
<1>5. QED
  BY <1>2, <1>3, <1>4 DEF From

(* Whether the model's wording or the reference is published, what it says *)
(* is so.                                                                  *)
LEMMA VerifiedTrue ==
    ASSUME NEW s, NEW h, h.legs \in Seq(PaymentLeg), Ready(s), Told_(h, s.results),
           NEW u, u.answer = Verified(s), u.results = s.results, u.route = s.route
    PROVE  Answered(u, h)
<1>1. PICK S : s.results \in Seq(S) /\ \A x \in S : TrueOf(h, x)
  BY DEF Told_
<1>2. \A k \in DOMAIN s.results : TrueOf(h, s.results[k])
  BY <1>1
<1>3. 1 \in DOMAIN s.results /\ TrueOf(h, s.results[1])
  BY <1>2 DEF Ready
<1>4. PICK n \in Nat : DOMAIN Reference(s).figures = 1..n
  BY <1>3, ReferenceTrue
<1>5. \A k \in 1..n : \E f \in DOMAIN s.results[1].figures :
         s.results[1].figures[f] = Reference(s).figures[k]
  BY <1>3, <1>4, ReferenceTrue
<1>6. CASE ~ByModel(s)
  <2>1. u.answer.said = Reference(s).figures /\ u.answer.says = "nothing"
    BY <1>6 DEF Verified, ReferenceAnswer
  <2>2. \A v \in Range(u.answer.said) : \E k \in 1..n : v = Reference(s).figures[k]
    BY <1>4, <2>1 DEF Range
  <2>3. \A v \in Range(u.answer.said) : \E k \in DOMAIN u.results :
           \E f \in DOMAIN u.results[k].figures : u.results[k].figures[f] = v
    <3>1. SUFFICES ASSUME NEW v \in Range(u.answer.said)
                   PROVE  \E f \in DOMAIN s.results[1].figures : s.results[1].figures[f] = v
      BY <1>3
    <3>2. QED
      BY <1>5, <2>2
  <2>4. s.route.intent = "spending_allowance" /\ s.results[1].error = "" =>
           Reference(s).figures[1] = Floor0(h.low - h.protected)
    BY <1>3, ReferenceTrue
  <2>5. u.answer.says # "settled" /\ u.answer.says # "sent"
    BY <2>1
  <2>6. QED
    BY <2>1, <2>3, <2>4, <2>5 DEF Answered
<1>7. CASE ByModel(s)
  <2>1. u.answer.said = Said(s) /\ u.answer.says = s.draft.says
    BY <1>7 DEF Verified
  <2>2. /\ ~TokenError(s.draft, Facts(Reference(s)))
        /\ s.route.intent = "spending_allowance" =>
              ~SpendingAllowanceClaimError(Said(s), s.results[1])
        /\ ~ClaimsCompletedAction(s.draft, s.results)
    BY <1>7 DEF ByModel, Rejected
  <2>3. ASSUME NEW v \in Range(u.answer.said)
        PROVE  \E k \in 1..n : v = Reference(s).figures[k]
    <3>1. PICK i \in DOMAIN s.draft.claims : v = Facts(Reference(s))[s.draft.claims[i]]
      BY <2>1, <2>3 DEF Said, Substitute, Range
    <3>2. s.draft.claims[i] \in DOMAIN Facts(Reference(s))
      BY <2>2 DEF TokenError, Range
    <3>3. QED
      BY <1>4, <3>1, <3>2, FactsOfReference
  <2>4. s.route.intent = "spending_allowance" /\ s.results[1].error = "" =>
           u.answer.said[1] = Floor0(h.low - h.protected)
    BY <1>3, <2>1, <2>2, ReferenceTrue DEF SpendingAllowanceClaimError
  <2>5. \A k \in DOMAIN s.results : s.results[k].states \subseteq Evidence(h, s.results)
    BY <1>2, StatesShown
  <2>6. UNION {s.results[k].states : k \in DOMAIN s.results} \subseteq Evidence(h, s.results)
    BY <2>5
  <2>7. /\ u.answer.says = "settled" => Evidence(h, u.results) \cap SettledStates # {}
        /\ u.answer.says = "sent" => Evidence(h, u.results) \cap InFlightStates # {}
    BY <2>1, <2>2, <2>6 DEF ClaimsCompletedAction
  <2>8. \A v \in Range(u.answer.said) : \E k \in DOMAIN u.results :
           \E f \in DOMAIN u.results[k].figures : u.results[k].figures[f] = v
    <3>1. SUFFICES ASSUME NEW v \in Range(u.answer.said)
                   PROVE  \E f \in DOMAIN s.results[1].figures : s.results[1].figures[f] = v
      BY <1>3
    <3>2. QED
      BY <1>5, <2>3
  <2>9. QED
    BY <2>4, <2>7, <2>8 DEF Answered
<1>8. QED
  BY <1>6, <1>7

-----------------------------------------------------------------------------
(* The invariant. *)

(* A request that was asked is a record with these fields.                 *)
Shape == {"phase", "q", "seen", "model", "results", "draft", "cached", "kept", "right", "of",
          "answer", "route"}
Shaped(s) == s = [f \in Shape |-> s[f]]

(* Its results are told of the revision it began with, whichever came since. *)
Grounded(r, s) ==
    /\ Shaped(s)
    /\ s.seen \in DOMAIN Households[ScopeOf[r]]
    /\ <<s.route.intent, s.route.tool>> \in Routes
    /\ Told_(Snapshot(r, s), s.results)
OwnHit(r, s) == s.cached = "hit" => s.of = ScopeOf[r] /\ (s.kept => s.right)
Correct(r, s) ==
    /\ Grounded(r, s)
    /\ s.phase \in {"executed", "wording"} => Ready(s)
    /\ s.phase # "done" => s.cached = "off"
    /\ s.phase = "done" => Answered(s, Snapshot(r, s)) /\ OwnHit(r, s)

(* A kept entry is of the household in its key, and is right by its key.   *)
Entry(e) ==
    /\ e.of = e.key.scope
    /\ e.right <=> \A k \in DOMAIN e.draft.claims : e.draft.claims[k] = e.key.tokens[k]
Kept(entries) == \E S : entries \in Seq(S) /\ \A e \in S : Entry(e)

IInv ==
    /\ DOMAIN request = Requests /\ DOMAIN revision = DOMAIN Households
    /\ \A h \in DOMAIN Households : revision[h] \in DOMAIN Households[h]
    /\ \A r \in Requests : request[r].phase = "waiting" \/ Correct(r, request[r])
    /\ Kept(cache)

LEMMA SnapshotLegs ==
    ASSUME NEW r \in Requests, NEW s, s.seen \in DOMAIN Households[ScopeOf[r]]
    PROVE  Snapshot(r, s).legs \in Seq(PaymentLeg)
  BY AssistantAssumption DEF Snapshot

LEMMA ToldAll ==
    ASSUME NEW h, NEW results, NEW S, results \in Seq(S), \A y \in S : TrueOf(h, y)
    PROVE  Told_(h, results)
  BY DEF Told_

(* Results of one household, one after another.                            *)
LEMMA ToldTogether ==
    ASSUME NEW h, NEW a, NEW b, Told_(h, a), Told_(h, b)
    PROVE  Told_(h, a \o b)
<1>1. PICK A : a \in Seq(A) /\ \A x \in A : TrueOf(h, x)
  BY DEF Told_
<1>2. PICK B : b \in Seq(B) /\ \A x \in B : TrueOf(h, x)
  BY DEF Told_
<1>3. a \in Seq(A \cup B) /\ b \in Seq(A \cup B) /\ \A x \in A \cup B : TrueOf(h, x)
  BY <1>1, <1>2
<1>4. a \o b \in Seq(A \cup B)
  BY <1>3, ConcatProperties
<1>5. QED
  BY <1>3, <1>4 DEF Told_

LEMMA ToldAlone ==
    ASSUME NEW h, NEW x, TrueOf(h, x)
    PROVE  Told_(h, <<x>>)
<1> DEFINE S == {x}
           results == <<x>>
<1>1. results \in Seq(S) /\ \A y \in S : TrueOf(h, y)
  OBVIOUS
<1>2. Told_(h, results)
  <2> HIDE DEF S, results
  <2>1. QED
    BY <1>1, ToldAll
<1>3. QED
  BY <1>2

LEMMA ToldNothing ==
    ASSUME NEW h
    PROVE  Told_(h, <<>>)
<1> DEFINE S == {}
           results == <<>>
<1>1. results \in Seq(S) /\ \A y \in S : TrueOf(h, y)
  OBVIOUS
<1>2. Told_(h, results)
  <2> HIDE DEF S, results
  <2>1. QED
    BY <1>1, ToldAll
<1>3. QED
  BY <1>2

(* A step that leaves the route, the results and the revision as they are. *)
LEMMA StillGrounded ==
    ASSUME NEW r, NEW s, Grounded(r, s), NEW u, Shaped(u),
           u.seen = s.seen, u.route = s.route, u.results = s.results
    PROVE  Grounded(r, u) /\ (Ready(s) => Ready(u)) /\ Snapshot(r, u) = Snapshot(r, s)
  BY DEF Grounded, Ready, Snapshot

(* Publication.                                                            *)
LEMMA FinalizedCorrect ==
    ASSUME NEW r \in Requests, NEW s, Grounded(r, s), Ready(s),
           s.cached = "hit" => s.of = ScopeOf[r] /\ (s.kept => Right(s))
    PROVE  Correct(r, Finalized(s))
<1> DEFINE u == Finalized(s)
<1>1. /\ Shaped(u) /\ u.seen = s.seen /\ u.route = s.route /\ u.results = s.results
      /\ u.phase = "done" /\ u.answer = Verified(s) /\ u.right = Right(s)
      /\ u.cached = s.cached /\ u.of = s.of /\ u.kept = s.kept
  BY DEF Finalized, Grounded, Shaped, Shape
<1> HIDE DEF u
<1>2. Grounded(r, u) /\ Snapshot(r, u) = Snapshot(r, s)
  BY <1>1, StillGrounded
<1>3. Answered(u, Snapshot(r, s))
  <2>1. Snapshot(r, s).legs \in Seq(PaymentLeg) /\ Told_(Snapshot(r, s), s.results)
    BY SnapshotLegs DEF Grounded
  <2>2. QED
    BY <1>1, <2>1, VerifiedTrue
<1>4. OwnHit(r, u)
  BY <1>1 DEF OwnHit
<1>5. QED
  BY <1>1, <1>2, <1>3, <1>4 DEF Correct, u

(* The routed tool has been called when the tools are done, and stands first. *)
LEMMA ExecutedCorrect ==
    ASSUME NEW r \in Requests, NEW s, Grounded(r, s), s.cached = "off"
    PROVE  Correct(r, Executed(r, s))
<1> DEFINE h == Snapshot(r, s)
           mine == s.results
           primary == IF mine /= <<>> /\ mine[1].tool = s.route.tool THEN mine
                      ELSE <<RoutedCall(r, s)>> \o mine
           allowance == CallTool(r, s, "get_spending_allowance", [days |-> Whole(30)])
           extra == IF s.route.intent = "card_choice" THEN <<allowance>> ELSE <<>>
           u == Executed(r, s)
<1>1. h.legs \in Seq(PaymentLeg) /\ Told_(h, mine)
  BY SnapshotLegs DEF Grounded
<1>2. /\ RoutedCall(r, s).tool = s.route.tool /\ TrueOf(h, RoutedCall(r, s))
      /\ TrueOf(h, allowance)
  BY <1>1, ToolsTell DEF RoutedCall
<1>3. Told_(h, primary) /\ Told_(h, extra)
  <2> HIDE DEF h, mine, allowance
  <2>1. Told_(h, <<RoutedCall(r, s)>>) /\ Told_(h, <<allowance>>) /\ Told_(h, <<>>)
    BY <1>2, ToldAlone, ToldNothing
  <2>2. Told_(h, <<RoutedCall(r, s)>> \o mine)
    BY <1>1, <2>1, ToldTogether
  <2>3. QED
    BY <1>1, <2>1, <2>2
<1>4. 1 \in DOMAIN primary /\ primary[1].tool = s.route.tool
  <2>1. PICK S : mine \in Seq(S)
    BY <1>1 DEF Told_
  <2>2. CASE mine /= <<>> /\ mine[1].tool = s.route.tool
    <3>1. Len(mine) \in Nat \ {0} /\ DOMAIN mine = 1..Len(mine)
      BY <2>1, <2>2
    <3>2. QED
      BY <2>2, <3>1
  <2>3. CASE ~(mine /= <<>> /\ mine[1].tool = s.route.tool)
    <3>1. <<RoutedCall(r, s)>> \in Seq(S \cup {RoutedCall(r, s)}) /\ mine \in Seq(S \cup {RoutedCall(r, s)})
      BY <2>1
    <3>2. LET both == <<RoutedCall(r, s)>> \o mine
          IN  /\ both \in Seq(S \cup {RoutedCall(r, s)}) /\ Len(both) = 1 + Len(mine)
              /\ both[1] = RoutedCall(r, s)
      BY <3>1, ConcatProperties
    <3>3. QED
      BY <1>2, <2>1, <2>3, <3>2
  <2>4. QED
    BY <2>2, <2>3
<1>5. Told_(h, primary \o extra) /\ 1 \in DOMAIN (primary \o extra) /\ (primary \o extra)[1] = primary[1]
  <2> HIDE DEF h, primary, extra
  <2>1. Told_(h, primary \o extra)
    BY <1>3, ToldTogether
  <2>2. PICK A, B : primary \in Seq(A) /\ extra \in Seq(B)
    BY <1>3 DEF Told_
  <2>3. primary \in Seq(A \cup B) /\ extra \in Seq(A \cup B)
    BY <2>2
  <2>4. QED
    BY <1>4, <2>1, <2>3, ConcatProperties
<1>6. u = [s EXCEPT !.phase = "executed", !.results = primary \o extra]
  BY DEF Executed
<1>7. /\ Shaped(u) /\ u.phase = "executed" /\ u.results = primary \o extra
      /\ u.route = s.route /\ u.seen = s.seen /\ u.cached = "off"
  <2> HIDE DEF u, primary, extra
  <2>1. QED
    BY <1>6 DEF Grounded, Shaped, Shape
<1>8. Snapshot(r, u) = h
  BY <1>7 DEF Snapshot
<1>9. QED
  <2> HIDE DEF u, primary, extra, h
  <2>1. Grounded(r, u)
    BY <1>5, <1>7, <1>8 DEF Grounded
  <2>2. Ready(u)
    BY <1>4, <1>5, <1>7 DEF Ready, Grounded
  <2>3. QED
    BY <1>7, <2>1, <2>2 DEF Correct, u

-----------------------------------------------------------------------------
(* The steps. *)

LEMMA RouteShape ==
    ASSUME NEW q
    PROVE  \E i, tool, a, state : Route(q) = Routed(i, tool, a, state)
  BY DEF Route

LEMMA ClassifiedGrounded ==
    ASSUME NEW r \in Requests, NEW q \in Asks[r], NEW model,
           NEW seen \in DOMAIN Households[ScopeOf[r]]
    PROVE  LET s == Classified(Asked(q, seen, model))
           IN  Grounded(r, s) /\ s.cached = "off"
<1> DEFINE asked == Asked(q, seen, model)
           s == Classified(asked)
           route == [Route(q) EXCEPT !.arguments = ContextArguments(Route(q).tool, @, q.viewing)]
<1>1. s = With(asked, [route |-> route]) /\ asked.q = q
  BY DEF Classified, Asked
<1>2. /\ Shaped(s) /\ s.seen = seen /\ s.route = route /\ s.results = <<>> /\ s.cached = "off"
  <2> HIDE DEF s, route
  <2>1. s = With(Asked(q, seen, model), [route |-> route])
    BY <1>1
  <2>2. QED
    BY <2>1 DEF Shaped, Shape, Asked, With
<1>3. route.intent = Route(q).intent /\ route.tool = Route(q).tool
  <2>1. PICK i, tool, a, state : Route(q) = Routed(i, tool, a, state)
    BY RouteShape
  <2>2. QED
    BY <2>1 DEF Routed
<1>4. <<Route(q).intent, Route(q).tool>> \in Routes
  BY RouteListed, AssistantAssumption
<1>5. Told_(Snapshot(r, s), s.results)
  BY <1>2, ToldNothing
<1>6. QED
  BY <1>2, <1>3, <1>4, <1>5 DEF Grounded

LEMMA RefusedGrounded ==
    ASSUME NEW r \in Requests, NEW q, NEW model,
           NEW seen \in DOMAIN Households[ScopeOf[r]]
    PROVE  LET s == Refused(r, Asked(q, seen, model))
           IN  Grounded(r, s) /\ Ready(s) /\ s.cached = "off"
<1> DEFINE asked == Asked(q, seen, model)
           call == CallTool(r, asked, "explain_product_boundary", [topic |-> Text("refused")])
           route == Routed("boundary", "explain_product_boundary", NoArguments, "refused")
           s == Refused(r, asked)
<1>1. s = With([asked EXCEPT !.results = <<call>>], [route |-> route])
  BY DEF Refused
<1>2. asked.seen = seen
  BY DEF Asked
<1>3. Shaped(s) /\ s.seen = seen /\ s.route = route /\ s.results = <<call>> /\ s.cached = "off"
  <2> HIDE DEF s, call, route
  <2>1. s = With([Asked(q, seen, model) EXCEPT !.results = <<call>>], [route |-> route])
    BY <1>1
  <2>2. QED
    BY <2>1 DEF Shaped, Shape, Asked, With
<1>4. route.intent = "boundary" /\ route.tool = "explain_product_boundary"
  BY DEF Routed
<1>5. <<"boundary", "explain_product_boundary">> \in Routes
  BY DEF Routes, Pairs, INTENTS, PlanIntents, RecordIntents, Intent
<1>6. Snapshot(r, s) = Snapshot(r, asked) /\ Snapshot(r, asked).legs \in Seq(PaymentLeg)
  BY <1>2, <1>3, SnapshotLegs DEF Snapshot
<1>7. call.tool = "explain_product_boundary" /\ TrueOf(Snapshot(r, asked), call)
  BY <1>6, ToolsTell
<1>8. Told_(Snapshot(r, s), s.results)
  <2> HIDE DEF s, call, asked
  <2>1. QED
    BY <1>3, <1>6, <1>7, ToldAlone
<1>9. Grounded(r, s)
  BY <1>2, <1>3, <1>4, <1>5, <1>8 DEF Grounded
<1>10. Ready(s)
  <2> HIDE DEF s, call, route
  <2>1. 1 \in DOMAIN <<call>> /\ <<call>>[1] = call
    OBVIOUS
  <2>2. QED
    BY <1>3, <1>4, <1>5, <1>7, <2>1 DEF Ready
<1>11. QED
  BY <1>3, <1>9, <1>10

(* A request becomes another state of its own, and the rest stays.         *)
LEMMA Moves ==
    ASSUME IInv, NEW r \in Requests, NEW u, Becomes(r, u), Correct(r, u),
           UNCHANGED revision, Kept(cache')
    PROVE  IInv'
<1>1. DOMAIN request' = Requests /\ request'[r] = u
  BY DEF IInv, Becomes
<1>2. \A x \in Requests : x # r => request'[x] = request[x]
  BY DEF IInv, Becomes
<1>3. ASSUME NEW x \in Requests
      PROVE  request'[x].phase = "waiting" \/ Correct(x, request'[x])
  BY <1>1, <1>2 DEF IInv
<1>4. QED
  BY <1>1, <1>3 DEF IInv

LEMMA AskStep ==
    ASSUME IInv, NEW r \in Requests, Ask(r)
    PROVE  IInv'
<1>1. PICK q \in Asks[r] : Becomes(r, Started(r, Asked(q, revision[ScopeOf[r]], available)))
  BY DEF Ask
<1> DEFINE seen == revision[ScopeOf[r]]
           s == Asked(q, seen, available)
<1>2. seen \in DOMAIN Households[ScopeOf[r]]
  BY AssistantAssumption DEF IInv
<1>3. CASE ScopeGuard(s)
  <2> DEFINE u == Refused(r, s)
  <2>1. Grounded(r, u) /\ Ready(u) /\ u.cached = "off"
    BY <1>2, RefusedGrounded
  <2>2. Correct(r, Finalized(u))
    <3> HIDE DEF u
    <3>1. QED
      BY <2>1, FinalizedCorrect
  <2>3. Becomes(r, Finalized(u))
    BY <1>1, <1>3 DEF Started
  <2>4. QED
    BY <2>2, <2>3, Moves DEF Ask, IInv
<1>4. CASE ~ScopeGuard(s)
  <2> DEFINE u == Classified(s)
  <2>1. Grounded(r, u) /\ u.cached = "off"
    BY <1>2, ClassifiedGrounded
  <2>2. CASE ModelSelects(u)
    <3> DEFINE w == [u EXCEPT !.phase = "selecting"]
    <3>1. /\ Shaped(w) /\ w.seen = u.seen /\ w.route = u.route /\ w.results = u.results
          /\ w.phase = "selecting" /\ w.cached = u.cached
      <4> HIDE DEF u
      <4>1. QED
        BY <2>1 DEF Grounded, Shaped, Shape
    <3>2. Correct(r, w)
      <4> HIDE DEF u, w
      <4>1. QED
        BY <2>1, <3>1, StillGrounded DEF Correct
    <3>3. Becomes(r, w)
      BY <1>1, <1>4, <2>2 DEF Started
    <3>4. QED
      BY <3>2, <3>3, Moves DEF Ask, IInv
  <2>3. CASE ~ModelSelects(u)
    <3>1. Correct(r, Executed(r, u))
      <4> HIDE DEF u
      <4>1. QED
        BY <2>1, ExecutedCorrect
    <3>2. Becomes(r, Executed(r, u))
      BY <1>1, <1>4, <2>3 DEF Started
    <3>3. QED
      BY <3>1, <3>2, Moves DEF Ask, IInv
  <2>4. QED
    BY <2>2, <2>3
<1>5. QED
  BY <1>3, <1>4

(* A request that has begun.                                               *)
LEMMA Begun ==
    ASSUME IInv, NEW r \in Requests, request[r].phase # "waiting", request[r].phase # "done"
    PROVE  /\ Correct(r, request[r]) /\ Grounded(r, request[r]) /\ request[r].cached = "off"
  BY DEF IInv, Correct

(* Its phase alone changes.                                                *)
LEMMA PhaseCorrect ==
    ASSUME NEW r, NEW s, Grounded(r, s), s.cached = "off",
           NEW phase \in {"selecting", "offered", "wording"}, phase = "wording" => Ready(s)
    PROVE  Correct(r, [s EXCEPT !.phase = phase])
<1> DEFINE u == [s EXCEPT !.phase = phase]
<1>1. /\ Shaped(u) /\ u.seen = s.seen /\ u.route = s.route /\ u.results = s.results
      /\ u.phase = phase /\ u.cached = s.cached
  BY DEF Grounded, Shaped, Shape
<1> HIDE DEF u
<1>2. Correct(r, u)
  BY <1>1, StillGrounded DEF Correct
<1>3. QED
  BY <1>2 DEF u

LEMMA SelectToolsStep ==
    ASSUME IInv, NEW r \in Requests, SelectTools(r)
    PROVE  IInv'
<1> DEFINE s == request[r]
<1>1. s.phase = "selecting" /\ UNCHANGED <<revision, cache>> /\ Kept(cache')
  BY DEF SelectTools, IInv
<1>2. Grounded(r, s) /\ s.cached = "off"
  BY <1>1, Begun
<1>3. CASE Becomes(r, [s EXCEPT !.phase = "offered"])
  <2>1. Correct(r, [s EXCEPT !.phase = "offered"])
    BY <1>2, PhaseCorrect
  <2>2. QED
    BY <1>1, <1>3, <2>1, Moves
<1>4. CASE Becomes(r, Executed(r, s))
  BY <1>1, <1>2, <1>4, ExecutedCorrect, Moves
<1>5. QED
  BY <1>3, <1>4 DEF SelectTools

(* What a selection may run is a beginning of what the model asked for.    *)
LEMMA PermittedCalls ==
    ASSUME NEW s, NEW S, s.results \in Seq(S), NEW calls, calls \in Seq(Range(calls))
    PROVE  Permitted(s, calls) \in Seq(Range(calls))
<1> DEFINE bad == {k \in DOMAIN calls : ~Authorized(calls[k])} \union {Len(calls) + 1}
           ends == {Min(bad) - 1, MaxToolCalls - Len(s.results)}
<1>1. Len(calls) \in Nat /\ DOMAIN calls = 1..Len(calls) /\ Len(s.results) \in Nat
  OBVIOUS
<1>2. bad \in SUBSET (1..Len(calls) + 1) /\ Len(calls) + 1 \in bad
  BY <1>1
<1>3. Min(bad) \in Int /\ Min(bad) <= Len(calls) + 1
  <2> HIDE DEF bad
  <2>1. IsFiniteSet(1..Len(calls) + 1) /\ \A k \in 1..Len(calls) + 1 : k \in Int
    BY <1>1, FS_Interval
  <2>2. IsFiniteSet(bad) /\ bad \subseteq Int /\ bad # {}
    BY <1>2, <2>1, FS_Subset
  <2>3. QED
    BY <1>2, <2>2, LeastOf
<1>4. Min(ends) \in Int /\ Min(ends) <= Len(calls)
  <2> HIDE DEF bad
  <2>1. IsFiniteSet({Min(bad) - 1}) /\ IsFiniteSet({MaxToolCalls - Len(s.results)})
    BY FS_Singleton
  <2>2. ends = {Min(bad) - 1} \cup {MaxToolCalls - Len(s.results)}
    OBVIOUS
  <2>3. IsFiniteSet(ends) /\ ends \subseteq Int /\ ends # {} /\ Min(bad) - 1 \in ends
    <3>1. IsFiniteSet(ends)
      <4> HIDE DEF ends
      <4>1. QED
        BY <2>1, <2>2, FS_Union
    <3>2. Min(bad) - 1 \in Int /\ MaxToolCalls - Len(s.results) \in Int
      BY <1>1, <1>3, AssistantAssumption
    <3>3. QED
      BY <3>1, <3>2
  <2>4. Min(ends) \in ends /\ Min(ends) <= Min(bad) - 1
    <3> HIDE DEF ends
    <3>1. QED
      BY <2>3, LeastOf
  <2>5. QED
    BY <1>1, <1>3, <2>3, <2>4
<1>5. \A k \in 1..Min(ends) : calls[k] \in Range(calls)
  <2> HIDE DEF ends
  <2>1. QED
    BY <1>1, <1>4 DEF Range
<1>6. SubSeq(calls, 1, Min(ends)) \in Seq(Range(calls))
  <2> HIDE DEF ends
  <2>1. QED
    BY <1>4, <1>5, SubSeqProperties
<1>7. QED
  BY <1>6 DEF Permitted

LEMMA SelectedGrounded ==
    ASSUME NEW r \in Requests, NEW s, Grounded(r, s), s.cached = "off", NEW calls \in Selections
    PROVE  Grounded(r, Selected(r, s, calls)) /\ Selected(r, s, calls).cached = "off"
<1> DEFINE h == Snapshot(r, s)
           done == Permitted(s, calls)
           called == [k \in DOMAIN done |->
                        CallTool(r, s, done[k].name,
                                 ContextArguments(done[k].name, done[k].arguments, s.q.viewing))]
           u == Selected(r, s, calls)
<1>1. h.legs \in Seq(PaymentLeg) /\ Told_(h, s.results)
  BY SnapshotLegs DEF Grounded
<1>2. PICK n \in Nat : DOMAIN called = 1..n
  <2>1. PICK S : s.results \in Seq(S)
    BY <1>1 DEF Told_
  <2>2. calls \in Seq(Range(calls))
    BY AssistantAssumption
  <2>3. done \in Seq(Range(calls))
    BY <2>1, <2>2, PermittedCalls
  <2>4. DOMAIN done = 1..Len(done) /\ Len(done) \in Nat
    <3> HIDE DEF done
    <3>1. QED
      BY <2>3
  <2>5. QED
    BY <2>4
<1>3. \A k \in DOMAIN called : TrueOf(h, called[k])
  BY <1>1, ToolsTell
<1>4. Told_(h, called)
  <2> DEFINE S == {called[k] : k \in 1..n}
  <2>1. called \in [1..n -> S]
    <3>1. called = [k \in 1..n |-> called[k]]
      BY <1>2
    <3> HIDE DEF called
    <3>2. QED
      BY <3>1
  <2>2. \A x \in S : TrueOf(h, x)
    BY <1>2, <1>3
  <2>3. called \in Seq(S)
    <3> HIDE DEF called, S
    <3>1. QED
      BY <2>1, SeqDef
  <2>4. QED
    <3> HIDE DEF called, S, h
    <3>1. QED
      BY <2>2, <2>3, ToldAll
<1>5. Told_(h, s.results \o called)
  <2> HIDE DEF called, h
  <2>1. QED
    BY <1>1, <1>4, ToldTogether
<1>6. u = [s EXCEPT !.results = @ \o called]
  BY DEF Selected
<1>7. /\ Shaped(u) /\ u.results = s.results \o called
      /\ u.route = s.route /\ u.seen = s.seen /\ u.cached = "off"
  <2> HIDE DEF u, called
  <2>1. QED
    BY <1>6 DEF Grounded, Shaped, Shape
<1>8. QED
  <2> HIDE DEF u, called
  <2>1. Snapshot(r, u) = h
    BY <1>7 DEF Snapshot
  <2> HIDE DEF h
  <2>2. Grounded(r, u) /\ u.cached = "off"
    BY <1>5, <1>7, <2>1 DEF Grounded
  <2>3. QED
    BY <2>2 DEF u

LEMMA ToolsSelectedStep ==
    ASSUME IInv, NEW r \in Requests, ToolsSelected(r)
    PROVE  IInv'
<1> DEFINE s == request[r]
<1>1. s.phase = "offered" /\ UNCHANGED <<revision, cache>> /\ Kept(cache')
  BY DEF ToolsSelected, IInv
<1>2. Grounded(r, s) /\ s.cached = "off"
  BY <1>1, Begun
<1>3. ASSUME NEW calls \in Selections,
             \/ Becomes(r, Executed(r, Selected(r, s, calls)))
             \/ Becomes(r, [Selected(r, s, calls) EXCEPT !.phase = "selecting"])
      PROVE  IInv'
  <2> DEFINE after == Selected(r, s, calls)
  <2>1. Grounded(r, after) /\ after.cached = "off"
    BY <1>2, SelectedGrounded
  <2> HIDE DEF after
  <2>2. Correct(r, Executed(r, after)) /\ Correct(r, [after EXCEPT !.phase = "selecting"])
    BY <2>1, ExecutedCorrect, PhaseCorrect
  <2>3. QED
    BY <1>1, <1>3, <2>2, Moves DEF after
<1>4. CASE Becomes(r, Executed(r, s))
  BY <1>1, <1>2, <1>4, ExecutedCorrect, Moves
<1>5. QED
  BY <1>3, <1>4 DEF ToolsSelected

(***************************************************************************)
(* The wording cache.                                                      *)
(***************************************************************************)
LEMMA PlaceFound ==
    ASSUME Kept(cache), NEW key
    PROVE  /\ Place(key) \in 0..Len(cache) /\ Len(cache) \in Nat
           /\ Place(key) # 0 => cache[Place(key)].key = key /\ Entry(cache[Place(key)])
<1> DEFINE found == {i \in 1..Len(cache) : cache[i].key = key}
<1>1. PICK S : cache \in Seq(S) /\ \A e \in S : Entry(e)
  BY DEF Kept
<1>2. Len(cache) \in Nat /\ \A i \in 1..Len(cache) : Entry(cache[i])
  BY <1>1
<1>3. Place(key) = IF found # {} THEN Min(found) ELSE 0
  BY DEF Place, SelectInSeq
<1>4. found \in SUBSET (1..Len(cache)) /\ IsFiniteSet(1..Len(cache))
  BY <1>2, FS_Interval
<1>5. IsFiniteSet(found) /\ found \subseteq Int
  <2> HIDE DEF found
  <2>1. IsFiniteSet(found)
    BY <1>4, FS_Subset
  <2>2. \A i \in 1..Len(cache) : i \in Int
    BY <1>2
  <2>3. QED
    BY <1>4, <2>1, <2>2
<1>6. CASE found # {}
  <2>1. Min(found) \in found
    <3> HIDE DEF found
    <3>1. QED
      BY <1>5, <1>6, LeastOf
  <2>2. QED
    BY <1>2, <1>3, <1>6, <2>1
<1>7. CASE found = {}
  BY <1>2, <1>3, <1>7
<1>8. QED
  BY <1>6, <1>7

LEMMA WithoutKept ==
    ASSUME Kept(cache), NEW key
    PROVE  Kept(Without(key))
<1>1. PICK S : cache \in Seq(S) /\ \A e \in S : Entry(e)
  BY DEF Kept
<1>2. CASE Place(key) = 0
  BY <1>2 DEF Without
<1>3. CASE Place(key) # 0
  <2> DEFINE p == Place(key)
  <2>1. p \in 1..Len(cache) /\ Len(cache) \in Nat
    BY <1>3, PlaceFound
  <2> HIDE DEF p
  <2>2. /\ \A i \in 1..p-1 : cache[i] \in S
        /\ \A i \in p+1..Len(cache) : cache[i] \in S
    BY <1>1, <2>1
  <2>3. SubSeq(cache, 1, p - 1) \in Seq(S) /\ SubSeq(cache, p + 1, Len(cache)) \in Seq(S)
    BY <2>1, <2>2, SubSeqProperties
  <2>4. RemoveAt(cache, p) \in Seq(S)
    BY <2>3, ConcatProperties DEF RemoveAt
  <2>5. QED
    BY <1>1, <1>3, <2>4 DEF Without, Kept, p
<1>4. QED
  BY <1>2, <1>3

LEMMA UsedKept ==
    ASSUME Kept(cache), NEW key, Place(key) # 0
    PROVE  Kept(Used(key))
<1>1. PICK S : Without(key) \in Seq(S) /\ \A e \in S : Entry(e)
  BY WithoutKept DEF Kept
<1> DEFINE e == cache[Place(key)]
<1>2. Entry(e)
  BY PlaceFound
<1> HIDE DEF e
<1>3. Without(key) \in Seq(S \cup {e}) /\ e \in S \cup {e}
  BY <1>1
<1>4. Append(Without(key), e) \in Seq(S \cup {e})
  BY <1>3, AppendProperties
<1>5. QED
  BY <1>1, <1>2, <1>4 DEF Used, Kept, e

LEMMA PutKept ==
    ASSUME Kept(cache), NEW entry, Entry(entry)
    PROVE  Kept(Put(entry))
<1>1. PICK S : Without(entry.key) \in Seq(S) /\ \A e \in S : Entry(e)
  BY WithoutKept DEF Kept
<1> DEFINE T == S \cup {entry}
           all == Append(Without(entry.key), entry)
           first == 1 + Floor0(Len(all) - MaxEntries)
<1>2. all \in Seq(T) /\ \A e \in T : Entry(e)
  <2>1. Without(entry.key) \in Seq(T)
    BY <1>1
  <2>2. QED
    BY <1>1, <2>1, AppendProperties
<1>3. Len(all) \in Nat /\ first \in Nat \ {0}
  <2> HIDE DEF all
  <2>1. QED
    BY <1>2, AssistantAssumption DEF Floor0
<1>4. \A i \in first..Len(all) : all[i] \in T
  <2> HIDE DEF all, first, T
  <2>1. QED
    BY <1>2, <1>3
<1>5. SubSeq(all, first, Len(all)) \in Seq(T)
  <2> HIDE DEF all, first, T
  <2>1. QED
    BY <1>3, <1>4, SubSeqProperties
<1>6. QED
  <2> HIDE DEF T
  <2>1. QED
    BY <1>2, <1>5 DEF Put, Kept

(* What is kept is right by the tokens in its own key.                     *)
LEMMA FinishStep ==
    ASSUME IInv, NEW r \in Requests, NEW s, Grounded(r, s), Ready(s), s.cached # "hit",
           Finish(r, s), UNCHANGED revision
    PROVE  IInv'
<1>1. Correct(r, Finalized(s))
  BY FinalizedCorrect
<1> DEFINE entry == [key |-> Key(r, s), draft |-> s.draft, of |-> ScopeOf[r], right |-> Right(s)]
<1>2. Entry(entry)
  <2>1. Key(r, s).scope = ScopeOf[r] /\ Key(r, s).tokens = Tokens(Reference(s))
    BY DEF Key
  <2>2. QED
    BY <2>1 DEF Entry, Right
<1>3. Kept(Put(entry))
  <2> HIDE DEF entry
  <2>1. QED
    BY <1>2, PutKept DEF IInv
<1>4. Kept(cache')
  <2>1. cache' = Put(entry) \/ cache' = cache
    BY DEF Finish
  <2>2. QED
    BY <1>3, <2>1 DEF IInv
<1>5. QED
  BY <1>1, <1>4, Moves DEF Finish

(* An entry is found under the key of this question: the same household    *)
(* and the same tokens in the same places.                                 *)
LEMMA HitCorrect ==
    ASSUME IInv, NEW r \in Requests, NEW s, Grounded(r, s), Ready(s), Place(Key(r, s)) # 0
    PROVE  Correct(r, Finalized(Hit(r, s)))
<1> DEFINE e == cache[Place(Key(r, s))]
           u == Hit(r, s)
<1>1. e.key = Key(r, s) /\ Entry(e)
  BY PlaceFound DEF IInv
<1>2. u = [s EXCEPT !.cached = "hit", !.draft = e.draft, !.kept = e.right, !.of = e.of]
  BY DEF Hit
<1>3. /\ Shaped(u) /\ u.seen = s.seen /\ u.route = s.route /\ u.results = s.results
      /\ u.draft = e.draft /\ u.kept = e.right /\ u.of = e.of
  <2> HIDE DEF u, e
  <2>1. QED
    BY <1>2 DEF Grounded, Shaped, Shape
<1>4. Grounded(r, u) /\ Ready(u)
  <2> HIDE DEF u
  <2>1. QED
    BY <1>3, StillGrounded
<1>5. u.of = ScopeOf[r] /\ (u.kept => Right(u))
  <2>1. Key(r, s).scope = ScopeOf[r] /\ Key(r, s).tokens = Tokens(Reference(s))
    BY DEF Key
  <2>2. Reference(u) = Reference(s)
    <3> HIDE DEF u
    <3>1. QED
      BY <1>3 DEF Reference
  <2>3. QED
    <3> HIDE DEF u, e
    <3>1. QED
      BY <1>1, <1>3, <2>1, <2>2 DEF Entry, Right
<1>6. QED
  <2> HIDE DEF u
  <2>1. Correct(r, Finalized(u))
    BY <1>4, <1>5, FinalizedCorrect
  <2>2. QED
    BY <2>1 DEF u

LEMMA ComposeStep ==
    ASSUME IInv, NEW r \in Requests, Compose(r)
    PROVE  IInv'
<1> DEFINE s == request[r]
<1>1. s.phase = "executed" /\ UNCHANGED revision
  BY DEF Compose
<1>2. Grounded(r, s) /\ s.cached = "off" /\ Ready(s) /\ Kept(cache)
  BY <1>1, Begun DEF Correct, IInv
<1>3. CASE Finish(r, s)
  BY <1>1, <1>2, <1>3, FinishStep
<1>4. CASE /\ Place(Key(r, s)) # 0 /\ Becomes(r, Finalized(Hit(r, s)))
           /\ cache' = Used(Key(r, s))
  <2>1. Kept(cache')
    BY <1>2, <1>4, UsedKept
  <2>2. Correct(r, Finalized(Hit(r, s)))
    BY <1>2, <1>4, HitCorrect
  <2>3. QED
    BY <1>1, <1>4, <2>1, <2>2, Moves
<1>5. CASE /\ cache' = Without(Key(r, s))
           /\ \/ Becomes(r, [s EXCEPT !.phase = "wording"])
              \/ Becomes(r, Finalized(s))
  <2>1. Kept(cache')
    BY <1>2, <1>5, WithoutKept
  <2>2. Correct(r, [s EXCEPT !.phase = "wording"]) /\ Correct(r, Finalized(s))
    BY <1>2, PhaseCorrect, FinalizedCorrect
  <2>3. QED
    BY <1>1, <1>5, <2>1, <2>2, Moves
<1>6. QED
  BY <1>3, <1>4, <1>5 DEF Compose

LEMMA WordedStep ==
    ASSUME IInv, NEW r \in Requests, Worded(r)
    PROVE  IInv'
<1> DEFINE s == request[r]
<1>1. s.phase = "wording" /\ UNCHANGED revision
  BY DEF Worded
<1>2. Grounded(r, s) /\ s.cached = "off" /\ Ready(s)
  BY <1>1, Begun DEF Correct
<1>3. ASSUME NEW draft, Finish(r, [s EXCEPT !.cached = "miss", !.draft = draft])
      PROVE  IInv'
  <2> DEFINE u == [s EXCEPT !.cached = "miss", !.draft = draft]
  <2>1. /\ Shaped(u) /\ u.seen = s.seen /\ u.route = s.route /\ u.results = s.results
        /\ u.cached = "miss"
    BY <1>2 DEF Grounded, Shaped, Shape
  <2> HIDE DEF u
  <2>2. Grounded(r, u) /\ Ready(u)
    BY <1>2, <2>1, StillGrounded
  <2>3. QED
    BY <1>1, <1>3, <2>1, <2>2, FinishStep DEF u
<1>4. CASE Finish(r, s)
  BY <1>1, <1>2, <1>4, FinishStep
<1>5. QED
  BY <1>3, <1>4 DEF Worded

(* A later revision never replaces the one that a request has read.        *)
LEMMA EditStep ==
    ASSUME IInv, NEW h \in DOMAIN Households, Edit(h)
    PROVE  IInv'
<1>1. revision[h] \in DOMAIN Households[h] /\ Households[h] \in Seq(Range(Households[h]))
  BY AssistantAssumption DEF IInv
<1>2. revision[h] + 1 \in DOMAIN Households[h]
  BY <1>1 DEF Edit
<1>3. /\ DOMAIN revision' = DOMAIN Households
      /\ \A x \in DOMAIN Households : revision'[x] \in DOMAIN Households[x]
  BY <1>2 DEF Edit, IInv
<1>4. UNCHANGED <<request, cache>>
  BY DEF Edit
<1>5. QED
  BY <1>3, <1>4 DEF IInv

LEMMA Initially == Init => IInv
<1> SUFFICES ASSUME Init PROVE IInv
  OBVIOUS
<1>1. \A h \in DOMAIN Households : 1 \in DOMAIN Households[h]
  BY AssistantAssumption
<1>2. /\ DOMAIN revision = DOMAIN Households
      /\ \A h \in DOMAIN Households : revision[h] \in DOMAIN Households[h]
  BY <1>1 DEF Init, AssistantInit
<1>3. DOMAIN request = Requests /\ \A r \in Requests : request[r].phase = "waiting"
  BY DEF Init, AssistantInit, Idle
<1>4. Kept(cache)
  <2>1. cache \in Seq({}) /\ \A e \in {} : Entry(e)
    BY DEF Init, AssistantInit
  <2> DEFINE S == {}
  <2>2. cache \in Seq(S) /\ \A e \in S : Entry(e)
    BY <2>1
  <2> HIDE DEF S
  <2>3. QED
    BY <2>2 DEF Kept
<1>5. QED
  BY <1>2, <1>3, <1>4 DEF IInv

LEMMA Inductive == IInv /\ [Next]_vars => IInv'
<1> SUFFICES ASSUME IInv, [Next]_vars PROVE IInv'
  OBVIOUS
<1>1. ASSUME NEW r \in Requests,
             Ask(r) \/ SelectTools(r) \/ ToolsSelected(r) \/ Compose(r) \/ Worded(r)
      PROVE  IInv'
  BY <1>1, AskStep, SelectToolsStep, ToolsSelectedStep, ComposeStep, WordedStep
<1>2. ASSUME NEW h \in DOMAIN Households, Edit(h) PROVE IInv'
  BY <1>2, EditStep
<1>3. CASE UNCHANGED assistantVars
  BY <1>3 DEF assistantVars, IInv
<1>4. QED
  BY <1>1, <1>2, <1>3 DEF Next, ModelStep, vars, assistantVars

-----------------------------------------------------------------------------
(* What the invariant says of an answer. *)

LEMMA DoneCorrect ==
    ASSUME IInv, NEW r \in Requests, Done(r)
    PROVE  LET s == request[r]
           IN  /\ Answered(s, Seen(r)) /\ OwnHit(r, s)
               /\ \A k \in DOMAIN s.results : TrueOf(Seen(r), s.results[k])
<1> DEFINE s == request[r]
<1>1. Correct(r, s) /\ s.phase = "done" /\ Snapshot(r, s) = Seen(r)
  BY DEF IInv, Done, Seen, Snapshot
<1>2. Told_(Seen(r), s.results)
  BY <1>1 DEF Correct, Grounded
<1>3. PICK S : s.results \in Seq(S) /\ \A x \in S : TrueOf(Seen(r), x)
  BY <1>2 DEF Told_
<1>4. \A k \in DOMAIN s.results : s.results[k] \in S
  <2> HIDE DEF s
  <2>1. QED
    BY <1>3
<1>5. QED
  BY <1>1, <1>3, <1>4 DEF Correct

(* Every figure of an answer is what one of the request's own tools tells, *)
(* with the arguments of its trace, of the revision that the answer is     *)
(* labelled with (execute_plan, _verified_text).                           *)
THEOREM FiguresCorrect == Spec => []FiguresOfItsRevision
<1>1. IInv => FiguresOfItsRevision
  <2> SUFFICES ASSUME IInv, NEW r \in Requests, Done(r)
               PROVE  LET s == request[r]
                          own == [k \in DOMAIN s.results |->
                                    Call(s.results[k].tool, s.results[k].arguments, Seen(r))]
                      IN  \A v \in Range(s.answer.said) : FigureSources(v, own) /= {}
    BY DEF FiguresOfItsRevision
  <2> DEFINE s == request[r]
             own == [k \in DOMAIN s.results |->
                       Call(s.results[k].tool, s.results[k].arguments, Seen(r))]
  <2>1. SUFFICES ASSUME NEW v \in Range(s.answer.said) PROVE FigureSources(v, own) /= {}
    OBVIOUS
  <2>2. PICK k \in DOMAIN s.results :
          \E f \in DOMAIN s.results[k].figures : s.results[k].figures[f] = v
    BY <2>1, DoneCorrect DEF Answered
  <2>3. own[k].figures = s.results[k].figures
    BY DoneCorrect DEF TrueOf
  <2>4. PICK f \in DOMAIN own[k].figures : own[k].figures[f] = v
    BY <2>2, <2>3
  <2>5. k \in DOMAIN own
    OBVIOUS
  <2>6. <<own[k].tool, f>> \in FigureSources(v, own)
    <3> HIDE DEF own
    <3>1. QED
      BY <2>4, <2>5 DEF FigureSources
  <2>7. QED
    BY <2>6
<1>2. QED
  BY <1>1, Initially, Inductive, PTL DEF Spec

(* Wording found in the cache was kept for the same household, and was     *)
(* right about this reference if it was right when it was kept             *)
(* (wording_cache_key, WordingCache).                                      *)
THEOREM KeptWordingCorrect == Spec => []KeptWordingStaysRight
<1>1. IInv => KeptWordingStaysRight
  BY DoneCorrect DEF KeptWordingStaysRight, OwnHit
<1>2. QED
  BY <1>1, Initially, Inductive, PTL DEF Spec

(* The amount called spendable is the low point less the reserves, floored *)
(* at zero, at the revision of the answer (spending_allowance_claim_error). *)
THEOREM SpendableCorrect == Spec => []SpendableIsTheAllowance
<1>1. IInv => SpendableIsTheAllowance
  BY DoneCorrect DEF SpendableIsTheAllowance, Answered
<1>2. QED
  BY <1>1, Initially, Inductive, PTL DEF Spec

(* No answer says that money was sent, or has arrived, without a payment of *)
(* the household that is in such a state or, where the answer explains it,  *)
(* has been (_claims_completed_action, which reads a leg's audit as well).  *)
THEOREM ClaimsCorrect == Spec => []ClaimsHaveEvidence
<1>1. IInv => ClaimsHaveEvidence
  <2>1. SettledStates = Landed /\ InFlightStates = Landed \cup {"submitted", "processing"}
    BY DEF SettledStates, InFlightStates, Landed
  <2>2. QED
    BY <2>1, DoneCorrect DEF ClaimsHaveEvidence, Answered
<1>2. QED
  BY <1>1, Initially, Inductive, PTL DEF Spec

-----------------------------------------------------------------------------
(* The client of the model. *)

(* What a step of a request does to the client, if it does anything.       *)
Uses(r) == Chat(r) \/ ChatSucceeds(r) \/ ChatFails(r)

LEMMA RequestUses ==
    ASSUME NEW r \in Requests,
           Ask(r) \/ SelectTools(r) \/ ToolsSelected(r) \/ Compose(r) \/ Worded(r)
    PROVE  Uses(r) \/ UNCHANGED modelVars
<1>1. CASE Ask(r)
  BY <1>1 DEF Ask
<1>2. CASE SelectTools(r)
  BY <1>2 DEF SelectTools, Uses
<1>3. CASE ToolsSelected(r)
  BY <1>3 DEF ToolsSelected, Uses
<1>4. CASE Compose(r)
  BY <1>4 DEF Compose, Uses
<1>5. CASE Worded(r)
  BY <1>5 DEF Worded, Uses
<1>6. QED
  BY <1>1, <1>2, <1>3, <1>4, <1>5

(* One caller enters or leaves; the last one out of a closed client leaves *)
(* no pool behind.                                                         *)
LEMMA UsesKeep ==
    ASSUME PoolOpenWhileUsed, NEW r, Uses(r)
    PROVE  PoolOpenWhileUsed'
<1>1. CASE Chat(r)
  BY <1>1 DEF Chat, Connect, PoolOpenWhileUsed
<1>2. CASE Disconnect(r)
  <2>1. using' # {} => pool' = pool
    BY <1>2 DEF Disconnect
  <2>2. using' # {} => using # {}
    BY <1>2 DEF Disconnect
  <2>3. closed' /\ using' = {} => pool' = "none"
    BY <1>2 DEF Disconnect, PoolOpenWhileUsed
  <2>4. QED
    BY <2>1, <2>2, <2>3 DEF PoolOpenWhileUsed
<1>3. QED
  BY <1>1, <1>2 DEF Uses, ChatSucceeds, ChatFails

(* The pool is open whenever somebody is inside a request, and none is     *)
(* left when the client is closed and nobody is (_connection, close).     *)
THEOREM PoolCorrect == Spec => []PoolOpenWhileUsed
<1>1. Init => PoolOpenWhileUsed
  BY DEF Init, ModelInit, PoolOpenWhileUsed
<1>2. PoolOpenWhileUsed /\ [Next]_vars => PoolOpenWhileUsed'
  <2> SUFFICES ASSUME PoolOpenWhileUsed, [Next]_vars PROVE PoolOpenWhileUsed'
    OBVIOUS
  <2>1. CASE UNCHANGED modelVars
    BY <2>1 DEF modelVars, PoolOpenWhileUsed
  <2>2. ASSUME NEW r \in Requests,
               Ask(r) \/ SelectTools(r) \/ ToolsSelected(r) \/ Compose(r) \/ Worded(r)
        PROVE PoolOpenWhileUsed'
    BY <2>2, <2>1, RequestUses, UsesKeep
  <2>3. CASE ModelNext
    BY <2>3 DEF ModelNext, Close, CoolingEnds, Discover, PoolOpenWhileUsed
  <2>4. CASE UNCHANGED vars
    BY <2>4, <2>1 DEF vars
  <2>5. ASSUME NEW h, Edit(h) PROVE PoolOpenWhileUsed'
    BY <2>5, <2>1 DEF Edit
  <2>6. QED
    BY <2>2, <2>3, <2>4, <2>5 DEF Next, ModelStep
<1>3. QED
  BY <1>1, <1>2, PTL DEF Spec
=============================================================================
