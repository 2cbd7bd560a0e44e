------------------------------ MODULE Toolbox ------------------------------
(***************************************************************************)
(* The calculators an assistant may call (ai/tools.py): their names, the    *)
(* arguments each accepts, when one answers with an error, and the figures  *)
(* and payment states its result carries. A household is what the results   *)
(* are read from:                                                           *)
(*   has     the kinds of record it holds ("checking", "terms", ...);       *)
(*   cash, low, protected, buffer   amounts that several figures depend on; *)
(*   legs    its payment legs, oldest first;                                *)
(*   exposure   the uncovered amount at each institution it has money at;   *)
(*   stale, halted   unhealthy connections, rules that will not run;        *)
(*   worth   the amount of every other figure, all computed by the engines. *)
(***************************************************************************)
EXTENDS Integers, Sequences, FiniteSets, SequencesExt

Floor0(n) == IF n < 0 THEN 0 ELSE n

(***************************************************************************)
(* What the registry declares.                                              *)
(***************************************************************************)
Spec_(required, optional, writes) ==
    [required |-> required, inputs |-> required \union optional, readOnly |-> ~writes]
Read(required, optional) == Spec_(required, optional, FALSE)
Write(required, optional) == Spec_(required, optional, TRUE)

MoneyTools ==
    [get_money_overview |-> Read({}, {}),
     get_paycheck_plan |-> Read({}, {"year", "month"}),
     get_spending_allowance |-> Read({}, {"days", "account_id"}),
     get_cash_forecast |-> Read({}, {"account_id", "days"}),
     get_upcoming_obligations |-> Read({}, {"days"}),
     compare_debt_strategies |-> Read({}, {"extra_payment", "use_worked_example"}),
     what_if_extra_payment |-> Read({"amount"}, {}),
     get_mortgage_scenarios |-> Read({}, {"lump_sum", "extra_monthly"}),
     compare_biweekly_mortgage |-> Read({}, {"program_fee_per_year"}),
     plan_promotional_payoff |-> Read({"balance", "paychecks_remaining"}, {}),
     choose_card |-> Read({"amount"}, {"category", "merchant", "channel", "foreign",
                                       "mcc_certain", "processing_fee_rate"}),
     compare_card_vs_bank_for_bill |->
        Read({"amount"}, {"card_rate", "processing_fee_rate", "lost_autopay_discount"})]
AccountTools ==
    [compare_booking_channels |->
        Read({"direct_price", "portal_price"}, {"direct_rate", "portal_rate"}),
     check_utilization_timing |-> Read({}, {"card_id", "payment"}),
     get_buffer |-> Read({}, {"account_id"}),
     assess_sweep_move |->
        Read({"amount"}, {"hold_days", "destination_apy", "transfer_fee"}),
     get_liquidity_tiers |-> Read({}, {}),
     compare_payment_timing |->
        Read({"amount", "due_date"}, {"debt_apr", "cash_apy", "accrues_daily"}),
     get_tax_profile |-> Read({}, {}),
     compare_savings_vs_debt |-> Read({"amount"}, {"horizon_days"}),
     check_interest_deduction |-> Read({"loan_type"}, {}),
     get_deposit_coverage |-> Read({}, {}),
     plan_coverage_remedy |-> Read({"source_institution"}, {"destination_institution"}),
     stress_collateral_line |-> Read({"collateral_value", "advance_rate", "drawn"},
                                     {"decline", "reduced_advance_rate"})]
ServiceTools ==
    [get_automation_status |-> Read({}, {}),
     get_account_connections |-> Read({}, {}),
     get_recurring_activity |-> Read({}, {"horizon_days"}),
     pause_recurring_policy |-> Write({"policy_id"}, {"paused"}),
     skip_next_occurrence |-> Write({"policy_id"}, {}),
     pay_bill_once |-> Write({"bill_id"}, {"occurrence_date"}),
     explain_transfer_outcome |-> Read({}, {"leg_id"}),
     stress_income_loss |-> Read({}, {"months"}),
     explain_product_boundary |-> Read({}, {"topic"})]

Names == DOMAIN MoneyTools \union DOMAIN AccountTools \union DOMAIN ServiceTools
ToolSpec(name) ==
    CASE name \in DOMAIN MoneyTools -> MoneyTools[name]
      [] name \in DOMAIN AccountTools -> AccountTools[name]
      [] name \in DOMAIN ServiceTools -> ServiceTools[name]
\* The schemas offered to a model.
OpenAISchemas == {n \in Names : ToolSpec(n).readOnly}

(***************************************************************************)
(* An argument is a value with its JSON type. Only whole numbers are        *)
(* bounded; texts are short and, where a schema lists values, one of them.  *)
(***************************************************************************)
Value(type, v) == [type |-> type, value |-> v]
Whole(n) == Value("integer", n)
Number(n) == Value("number", n)
Text(s) == Value("string", s)
Flag(b) == Value("boolean", b)

Bounds == [days |-> 3660, horizon_days |-> 3660, hold_days |-> 3660, months |-> 120,
           paychecks_remaining |-> 520, year |-> 2200, month |-> 12]
Least(key) == IF key = "year" THEN 1900 ELSE 1
TypeOf(key) ==
    CASE key \in DOMAIN Bounds -> {"integer"}
      [] key \in {"account_id", "card_id", "category", "merchant", "channel", "due_date", "loan_type",
                  "source_institution", "destination_institution", "policy_id", "bill_id",
                  "occurrence_date", "leg_id", "topic"} -> {"string"}
      [] key \in {"use_worked_example", "foreign", "mcc_certain", "accrues_daily", "paused"} -> {"boolean"}
      [] OTHER -> {"integer", "number"}

AcceptsInput(key, argument) ==
    /\ argument.type \in TypeOf(key)
    /\ key \in DOMAIN Bounds => argument.value \in Least(key) .. Bounds[key]
Accepts(name, arguments) ==
    /\ ToolSpec(name).required \subseteq DOMAIN arguments
    /\ DOMAIN arguments \subseteq ToolSpec(name).inputs
    /\ \A key \in DOMAIN arguments : AcceptsInput(key, arguments[key])

(***************************************************************************)
(* What a call returns: an error, or figures and the states of payments.    *)
(* "says" holds the worded findings that a template copies.                 *)
(***************************************************************************)
Error(name, why) == [tool |-> name, error |-> why, figures |-> <<>>, states |-> {}, says |-> {}]
Told(name, figures, states, says) ==
    [tool |-> name, error |-> "", figures |-> figures, states |-> states, says |-> says]
Worth(h, fields) == [f \in fields |-> IF f \in DOMAIN h.worth THEN h.worth[f] ELSE h.other]
With(f, g) == [x \in DOMAIN f \union DOMAIN g |-> IF x \in DOMAIN g THEN g[x] ELSE f[x]]

MoneyOverview(h) ==
    Told("get_money_overview",
         With(Worth(h, {"total_debt", "estimated_assets"}),
              [total_cash |-> h.cash, protected_reserves |-> h.protected,
               spendable_now |-> Floor0(h.cash - h.protected),
               net_worth |-> h.cash - Worth(h, {"total_debt"})["total_debt"]]), {}, {})
PaycheckPlan(h) ==
    Told("get_paycheck_plan",
         Worth(h, {"total_target", "expected_income", "available", "allocated"}), {}, {})
Allowance(h) ==
    IF "checking" \notin h.has THEN Error("get_spending_allowance", "no checking account")
    ELSE Told("get_spending_allowance",
              With(Worth(h, {"required_before"}),
                   [amount |-> Floor0(h.low - h.protected), low_point_balance |-> h.low,
                    protected |-> h.protected]), {}, {})
CashForecast(h) ==
    IF "checking" \notin h.has THEN Error("get_cash_forecast", "no account")
    ELSE Told("get_cash_forecast", With(Worth(h, {"ending_balance"}), [low_point |-> h.low]), {},
              IF h.low < 0 THEN {"goes negative"} ELSE {})
UpcomingObligations(h) ==
    Told("get_upcoming_obligations", Worth(h, {"count", "total_due"}), {}, {})

(* Debts whose terms are missing are left out of every model, and named.    *)
NoModelledDebts(h, name) ==
    Error(name, IF "debt" \in h.has THEN "enter the missing terms" ELSE "no debts on file")
DebtStrategies(h, arguments) ==
    LET example == /\ "use_worked_example" \in DOMAIN arguments
                   /\ arguments["use_worked_example"].value = TRUE
    IN  IF "terms" \notin h.has /\ ~example THEN NoModelledDebts(h, "compare_debt_strategies")
        ELSE Told("compare_debt_strategies",
                  Worth(h, {"budget", "required_total", "extra", "total_interest"}), {}, {})
ExtraPayment(h) ==
    IF "terms" \notin h.has THEN NoModelledDebts(h, "what_if_extra_payment")
    ELSE Told("what_if_extra_payment",
              Worth(h, {"extra_per_month", "interest_saved", "months_saved"}), {}, {})
NoModelledMortgage(h, name) ==
    Error(name, IF "mortgage" \in h.has THEN "enter principal and escrow" ELSE "no mortgage on file")
Mortgage(h) ==
    IF "mortgage_terms" \notin h.has THEN NoModelledMortgage(h, "get_mortgage_scenarios")
    ELSE Told("get_mortgage_scenarios",
              Worth(h, {"balance", "principal_and_interest", "escrow", "lifetime_interest"}), {}, {})
Biweekly(h) ==
    IF "mortgage_terms" \notin h.has THEN NoModelledMortgage(h, "compare_biweekly_mortgage")
    ELSE Told("compare_biweekly_mortgage", Worth(h, {"half_payment", "annual_paid", "extra_paid"}), {}, {})
PromotionalPayoff(h) ==
    Told("plan_promotional_payoff", Worth(h, {"per_paycheck", "promotional_balance"}), {}, {})

(* No card wins when the purchase is beyond the allowance.                  *)
ChooseCard(h, arguments) ==
    IF "card" \notin h.has THEN Error("choose_card", "no cards on file")
    ELSE Told("choose_card", Worth(h, {"net_value"}), {},
              IF /\ "checking" \in h.has
                 /\ arguments["amount"].value > Floor0(h.low - h.protected)
              THEN {"not repayable"} ELSE {"winner"})
BillCard(h) == Told("compare_card_vs_bank_for_bill", Worth(h, {"reward", "processing_fee", "net"}), {}, {})
BookingChannels(h) ==
    Told("compare_booking_channels", Worth(h, {"price", "booking_reward", "net_cost"}), {}, {})
Utilization(h) ==
    IF "card" \notin h.has THEN Error("check_utilization_timing", "no card on file")
    ELSE Told("check_utilization_timing", Worth(h, {"reported"}), {}, {})

Buffer(h) ==
    IF "checking" \notin h.has THEN Error("get_buffer", "no account")
    ELSE Told("get_buffer",
              [required_retained |-> h.buffer, available |-> h.cash,
               sweepable |-> Floor0(h.cash - h.buffer)], {}, {})
SweepMove(h, arguments) ==
    IF ~ {"checking", "savings"} \subseteq h.has THEN Error("assess_sweep_move", "need both accounts")
    ELSE Told("assess_sweep_move",
              With(Worth(h, {"net_gain"}), [sweepable |-> Floor0(h.cash - h.buffer)]), {},
              IF arguments["amount"].value > Floor0(h.cash - h.buffer)
              THEN {"exceeds sweepable"} ELSE {})
LiquidityTiers(h) == Told("get_liquidity_tiers", Worth(h, {"near_term_cash"}), {}, {})
PaymentTiming(h) == Told("compare_payment_timing", Worth(h, {"carry", "penalty"}), {}, {})
TaxProfileRead(h) == Told("get_tax_profile", Worth(h, {"federal", "state", "combined"}), {}, {})
SavingsVsDebt(h) ==
    IF "debt" \notin h.has THEN Error("compare_savings_vs_debt", "no eligible debt on file")
    ELSE IF "savings" \notin h.has THEN Error("compare_savings_vs_debt", "add a savings account")
    ELSE Told("compare_savings_vs_debt", Worth(h, {"benefit", "versus_baseline"}), {}, {})
InterestDeduction(h) == Told("check_interest_deduction", <<>>, {}, {"conditions"})
DepositCoverage(h) == Told("get_deposit_coverage", Worth(h, {"total_uncovered", "limit"}), {}, {"estimate"})

(* What to move away from an institution, if the household has money there *)
(* and some of it is not covered.                                           *)
CoverageRemedy(h, arguments) ==
    LET source == arguments["source_institution"].value
        excess == h.exposure[source]
        buffer == Worth(h, {"buffer_below_limit"})
    IN  CASE source \notin DOMAIN h.exposure -> Error("plan_coverage_remedy", "no exposure found")
          [] source \in DOMAIN h.exposure /\ excess <= 0 ->
                Told("plan_coverage_remedy", [excess |-> excess], {}, {"no uncovered balance"})
          [] OTHER ->
                Told("plan_coverage_remedy",
                     With(Worth(h, {"buffer_below_limit", "source_after", "destination_after"}),
                          [excess |-> excess,
                           recommended_move |-> excess + buffer["buffer_below_limit"]]), {}, {"checks"})
StressCollateral(h) == Told("stress_collateral_line", Worth(h, {"capacity", "deficiency"}), {}, {})

(* A leg, with the states its audit lists before the one it is in. Transfer *)
(* groups show the state of every leg; an explanation shows one leg, with   *)
(* its audit: the leg asked for, or else a problem first.                   *)
PaymentLeg == [id : STRING, state : STRING, past : SUBSET STRING]
Through(leg) == {leg.state} \union leg.past
States(h) == {h.legs[k].state : k \in DOMAIN h.legs}
AutomationStatus(h) ==
    Told("get_automation_status", Worth(h, {"per_run_cap"}), States(h),
         IF h.halted > 0 THEN {"paused"} ELSE {})
AccountConnections(h) ==
    Told("get_account_connections", [unhealthy_count |-> h.stale], {},
         IF h.stale > 0 THEN {"unhealthy"} ELSE {"healthy"})
RecurringActivity(h) ==
    Told("get_recurring_activity", With(Worth(h, {"runs"}), [will_not_run |-> h.halted]), {},
         IF h.halted > 0 THEN {"blocked"} ELSE {"on track"})
Problems(h) ==
    {k \in DOMAIN h.legs :
        h.legs[k].state \in {"failed", "returned", "outcome_unknown", "canceled"}}
Explained(h, arguments) ==
    LET asked == {k \in DOMAIN h.legs :
                     "leg_id" \in DOMAIN arguments /\ arguments["leg_id"].value = h.legs[k].id}
        among == CASE asked /= {} -> asked
                   [] asked = {} /\ Problems(h) /= {} -> Problems(h)
                   [] OTHER -> DOMAIN h.legs
    IN  h.legs[Min(among)]
RecoveryActions ==
    [failed |-> "resubmit", outcome_unknown |-> "no replacement", returned |-> "reopened",
     canceled |-> "nothing sent", submitted |-> "cannot be stopped", processing |-> "cannot be canceled",
     reconciled |-> "complete"]
TransferOutcome(h, arguments) ==
    LET leg == Explained(h, arguments)
        action == IF leg.state \in DOMAIN RecoveryActions THEN RecoveryActions[leg.state]
                  ELSE "no action"
    IN  IF h.legs = <<>> THEN Error("explain_transfer_outcome", "no payment legs exist yet")
        ELSE Told("explain_transfer_outcome", Worth(h, {"leg_amount"}), Through(leg),
                  {leg.state, action})
IncomeLoss(h, arguments) ==
    LET months == IF "months" \in DOMAIN arguments THEN arguments["months"].value ELSE 1
        need == months * Worth(h, {"required"})["required"]
    IN  Told("stress_income_loss",
             With(Worth(h, {"emergency_reserve"}),
                  [total_required_over_period |-> need, available_cash |-> h.cash,
                   unmet |-> Floor0(need - h.cash)]), {}, {})
Boundary == Told("explain_product_boundary", <<>>, {}, {"out of scope"})

Body(name, arguments, h) ==
    CASE name = "get_money_overview" -> MoneyOverview(h)
      [] name = "get_paycheck_plan" -> PaycheckPlan(h)
      [] name = "get_spending_allowance" -> Allowance(h)
      [] name = "get_cash_forecast" -> CashForecast(h)
      [] name = "get_upcoming_obligations" -> UpcomingObligations(h)
      [] name = "compare_debt_strategies" -> DebtStrategies(h, arguments)
      [] name = "what_if_extra_payment" -> ExtraPayment(h)
      [] name = "get_mortgage_scenarios" -> Mortgage(h)
      [] name = "compare_biweekly_mortgage" -> Biweekly(h)
      [] name = "plan_promotional_payoff" -> PromotionalPayoff(h)
      [] name = "choose_card" -> ChooseCard(h, arguments)
      [] name = "compare_card_vs_bank_for_bill" -> BillCard(h)
      [] name = "compare_booking_channels" -> BookingChannels(h)
      [] name = "check_utilization_timing" -> Utilization(h)
      [] name = "get_buffer" -> Buffer(h)
      [] name = "assess_sweep_move" -> SweepMove(h, arguments)
      [] name = "get_liquidity_tiers" -> LiquidityTiers(h)
      [] name = "compare_payment_timing" -> PaymentTiming(h)
      [] name = "get_tax_profile" -> TaxProfileRead(h)
      [] name = "compare_savings_vs_debt" -> SavingsVsDebt(h)
      [] name = "check_interest_deduction" -> InterestDeduction(h)
      [] name = "get_deposit_coverage" -> DepositCoverage(h)
      [] name = "plan_coverage_remedy" -> CoverageRemedy(h, arguments)
      [] name = "stress_collateral_line" -> StressCollateral(h)
      [] name = "get_automation_status" -> AutomationStatus(h)
      [] name = "get_account_connections" -> AccountConnections(h)
      [] name = "get_recurring_activity" -> RecurringActivity(h)
      [] name = "explain_transfer_outcome" -> TransferOutcome(h, arguments)
      [] name = "stress_income_loss" -> IncomeLoss(h, arguments)
      [] name = "explain_product_boundary" -> Boundary

\* A chat reads: a tool that writes is refused before its arguments are seen.
Call(name, arguments, h) ==
    IF name \notin Names \/ ~ToolSpec(name).readOnly THEN Error(name, "needs a reviewed proposal")
    ELSE IF ~Accepts(name, arguments) THEN Error(name, "bad arguments")
    ELSE Body(name, arguments, h)

(***************************************************************************)
(* The deterministic answer: the fields an intent's template names, in the  *)
(* order in which they are read, and the words its findings add.            *)
(***************************************************************************)
PlanTemplates ==
    [paycheck_split |-> <<"total_target", "expected_income", "available", "allocated">>,
     money_overview |-> <<"total_cash", "spendable_now", "total_debt", "net_worth">>,
     reserves |-> <<"protected_reserves">>,
     extra_payment_help |-> <<"extra", "budget">>,
     tax_assumptions |-> <<"federal", "state", "combined">>,
     spending_allowance |-> <<"amount", "low_point_balance", "required_before", "protected">>,
     card_choice |-> <<"net_value">>,
     debt_compare |-> <<"budget", "required_total", "extra", "total_interest">>,
     extra_payment |-> <<"extra_per_month", "interest_saved", "months_saved">>,
     coverage |-> <<"total_uncovered", "limit">>,
     income_loss |-> <<"total_required_over_period", "available_cash", "emergency_reserve", "unmet">>,
     transfer_failure |-> <<"leg_amount">>,
     automation |-> <<"per_run_cap">>]
RecordTemplates ==
    [account_connections |-> <<"unhealthy_count">>,
     recurring_activity |-> <<"runs", "will_not_run">>,
     buffer |-> <<"required_retained", "available", "sweepable">>,
     boundary |-> <<>>, utilization |-> <<"reported">>,
     save_vs_debt |-> <<"benefit", "versus_baseline">>,
     upcoming_bills |-> <<"count", "total_due">>,
     liquidity |-> <<"near_term_cash">>,
     mortgage |-> <<"balance", "principal_and_interest", "escrow", "lifetime_interest">>,
     cash_forecast |-> <<"ending_balance", "low_point">>,
     bill_card_vs_bank |-> <<"reward", "processing_fee", "net">>,
     booking_channel |-> <<"price", "booking_reward", "net_cost">>,
     deduction |-> <<>>, sweep |-> <<"net_gain">>, timing |-> <<"carry", "penalty">>,
     collateral |-> <<"capacity", "deficiency">>,
     coverage_remedy |->
        <<"recommended_move", "excess", "buffer_below_limit", "source_after", "destination_after">>,
     promo_payoff |-> <<"per_paycheck", "promotional_balance">>,
     biweekly |-> <<"half_payment", "annual_paid", "extra_paid">>]

Clarifications == {"card_location_clarification", "extra_payment_cadence_clarification"}
\* A clarification of the place, an unknown question, an error, a purchase no card
\* wins, an institution with nothing uncovered and connections that are all healthy
\* are worded without a figure.
Unfigured(intent, result) ==
    \/ intent \in {"card_location_clarification", "unknown"}
    \/ result.error /= ""
    \/ intent = "card_choice" /\ "winner" \notin result.says
    \/ intent = "coverage_remedy" /\ "no uncovered balance" \in result.says
    \/ intent = "account_connections" /\ "unhealthy" \notin result.says
Fields(intent, result) ==
    IF Unfigured(intent, result) THEN <<>>
    ELSE IF intent = "extra_payment_cadence_clarification" THEN <<"extra_per_month">>
    ELSE IF intent = "sweep" /\ "exceeds sweepable" \in result.says THEN <<"net_gain", "sweepable">>
    ELSE IF intent \in DOMAIN PlanTemplates THEN PlanTemplates[intent]
    ELSE RecordTemplates[intent]

\* An error is worded before the template of an unknown question is.
TemplateAnswer(intent, result) ==
    [figures |-> [k \in DOMAIN Fields(intent, result) |-> result.figures[Fields(intent, result)[k]]],
     words |-> IF intent \notin Clarifications /\ result.error /= "" THEN {result.error}
               ELSE {intent} \union result.says]
=============================================================================
