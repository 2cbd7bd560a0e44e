------------------------------ MODULE Routing ------------------------------
(***************************************************************************)
(* The deterministic router (ai/router.py): the intent of a question, the   *)
(* tool that answers it and the arguments read from its words. Matching     *)
(* text is abstracted: a question says                                      *)
(*   hits      how many patterns of each intent it matches;                 *)
(*   amount    the first number in it, or NoAmount; second, whether it      *)
(*             holds another one;                                           *)
(*   cadence   whether it asks for an extra payment every pay period;       *)
(*   place     "home", "abroad", "unnamed" (a place with no fee context) or *)
(*             "none"; online, whether a purchase is made through an app;   *)
(*   period    a number of "days", "weeks" or "months", or none;            *)
(*   refused   the kinds of advice it asks for that are out of scope.       *)
(***************************************************************************)
EXTENDS Toolbox

NoAmount == -1

Intent(name, tool, weight, state) == [name |-> name, tool |-> tool, weight |-> weight, state |-> state]

PlanIntents ==
    <<Intent("paycheck_split", "get_paycheck_plan", 3, "saved_plan"),
      Intent("money_overview", "get_money_overview", 2, "informational"),
      Intent("reserves", "get_money_overview", 3, "informational"),
      Intent("spending_allowance", "get_spending_allowance", 3, "informational"),
      Intent("cash_forecast", "get_cash_forecast", 2, "informational"),
      Intent("upcoming_bills", "get_upcoming_obligations", 2, "informational"),
      Intent("debt_compare", "compare_debt_strategies", 3, "hypothetical"),
      Intent("extra_payment", "what_if_extra_payment", 4, "hypothetical"),
      Intent("extra_payment_help", "compare_debt_strategies", 3, "informational"),
      Intent("mortgage", "get_mortgage_scenarios", 3, "hypothetical"),
      Intent("biweekly", "compare_biweekly_mortgage", 4, "hypothetical"),
      Intent("promo_payoff", "plan_promotional_payoff", 3, "hypothetical"),
      Intent("card_choice", "choose_card", 4, "informational"),
      Intent("bill_card_vs_bank", "compare_card_vs_bank_for_bill", 4, "informational"),
      Intent("booking_channel", "compare_booking_channels", 3, "hypothetical")>>
RecordIntents ==
    <<Intent("utilization", "check_utilization_timing", 4, "informational"),
      Intent("buffer", "get_buffer", 3, "informational"),
      Intent("sweep", "assess_sweep_move", 4, "hypothetical"),
      Intent("liquidity", "get_liquidity_tiers", 2, "informational"),
      Intent("timing", "compare_payment_timing", 3, "hypothetical"),
      Intent("save_vs_debt", "compare_savings_vs_debt", 4, "hypothetical"),
      Intent("deduction", "check_interest_deduction", 3, "informational"),
      Intent("tax_assumptions", "get_tax_profile", 3, "informational"),
      Intent("coverage", "get_deposit_coverage", 4, "informational"),
      Intent("coverage_remedy", "plan_coverage_remedy", 4, "hypothetical"),
      Intent("collateral", "stress_collateral_line", 4, "hypothetical"),
      Intent("automation", "get_automation_status", 3, "authorized"),
      Intent("account_connections", "get_account_connections", 5, "informational"),
      Intent("recurring_activity", "get_recurring_activity", 5, "informational"),
      Intent("transfer_failure", "explain_transfer_outcome", 4, "confirmed_external"),
      Intent("income_loss", "stress_income_loss", 4, "hypothetical"),
      Intent("boundary", "explain_product_boundary", 5, "informational")>>
INTENTS == PlanIntents \o RecordIntents

Matched(q) == {k \in DOMAIN INTENTS : INTENTS[k].name \in DOMAIN q.hits}
Score(q, k) == q.hits[INTENTS[k].name] * INTENTS[k].weight
\* The highest score; of equals, the one that the table lists first.
Best(q) ==
    LET top == Max({Score(q, k) : k \in Matched(q)})
    IN  INTENTS[Min({k \in Matched(q) : Score(q, k) = top})]

\* Zero reads as no amount.
AmountOr(q, default) == IF q.amount \in {NoAmount, 0} THEN default ELSE q.amount
ForeignPurchase(q) == q.place = "abroad"
UnresolvedCardLocation(q) == q.place = "unnamed"

NoArguments == <<>>
SpendingDays(q) ==
    CASE q.period.unit = "days" -> q.period.count
      [] q.period.unit = "weeks" -> 7 * q.period.count
      [] OTHER -> 14
ScenarioArguments(tool, q) ==
    CASE tool \in {"what_if_extra_payment"} -> [amount |-> Number(AmountOr(q, 300))]
      [] tool = "choose_card" ->
            [amount |-> Number(AmountOr(q, 50)), category |-> Text("base"), merchant |-> Text(""),
             channel |-> Text(IF q.online THEN "online" ELSE "in_person"),
             foreign |-> Flag(ForeignPurchase(q))]
      [] tool \in {"compare_card_vs_bank_for_bill", "assess_sweep_move"} ->
            [amount |-> Number(AmountOr(q, 1000))]
      [] tool = "compare_savings_vs_debt" -> [amount |-> Number(AmountOr(q, 10000))]
      [] tool = "plan_promotional_payoff" ->
            [balance |-> Number(AmountOr(q, 3600)), paychecks_remaining |-> Whole(6)]
      [] tool = "get_mortgage_scenarios" ->
            IF q.amount > 1000 THEN [lump_sum |-> Number(q.amount)] ELSE NoArguments
ScenarioTools ==
    {"what_if_extra_payment", "choose_card", "compare_card_vs_bank_for_bill", "assess_sweep_move",
     "compare_savings_vs_debt", "plan_promotional_payoff", "get_mortgage_scenarios"}
ArgumentsFor(tool, q) ==
    CASE tool \in ScenarioTools -> ScenarioArguments(tool, q)
      [] tool = "stress_income_loss" ->
            [months |-> Whole(IF q.period.unit = "months" THEN q.period.count ELSE 1)]
      [] tool = "get_spending_allowance" -> [days |-> Whole(SpendingDays(q))]
      [] tool = "compare_debt_strategies" /\ AmountOr(q, 0) /= 0 -> [extra_payment |-> Number(q.amount)]
      [] tool = "check_interest_deduction" -> [loan_type |-> Text("mortgage")]
      [] tool = "plan_coverage_remedy" -> [source_institution |-> Text("bank_meridian")]
      [] tool = "stress_collateral_line" ->
            [k \in {"collateral_value", "advance_rate", "drawn", "decline", "reduced_advance_rate"}
                |-> Number(1)]
      [] tool = "compare_payment_timing" ->
            [amount |-> Number(AmountOr(q, 1000)), due_date |-> Text("in two weeks")]
      [] tool = "compare_booking_channels" ->
            [direct_price |-> Number(IF q.second THEN q.amount ELSE 500), portal_price |-> Number(535)]
      [] OTHER -> NoArguments

Routed(intent, tool, arguments, state) ==
    [intent |-> intent, tool |-> tool, arguments |-> arguments, state |-> state]
Route(q) ==
    IF q.cadence /\ q.amount /= NoAmount
    THEN Routed("extra_payment_cadence_clarification", "what_if_extra_payment",
                [amount |-> Number(q.amount)], "hypothetical")
    ELSE IF Matched(q) = {}
    THEN Routed("unknown", "get_money_overview", NoArguments, "informational")
    ELSE IF Best(q).name = "card_choice" /\ UnresolvedCardLocation(q)
    THEN Routed("card_location_clarification", "get_money_overview", NoArguments, "informational")
    ELSE Routed(Best(q).name, Best(q).tool, ArgumentsFor(Best(q).tool, q), Best(q).state)

\* What the user is looking at fills an account, or the only card of it, left unsaid.
ContextArguments(tool, arguments, viewing) ==
    LET unsaid == {k \in {"account_id", "card_id"} \intersect DOMAIN viewing :
                        k \in ToolSpec(tool).inputs \ DOMAIN arguments}
    IN  With(arguments, [k \in unsaid |-> viewing[k]])

(***************************************************************************)
(* A route always has an answer: a registered tool that only reads and that *)
(* accepts the arguments built for it. Only a period typed by the user can  *)
(* be refused, when it is zero or longer than the tool's bound.             *)
(***************************************************************************)
PeriodTooFar(q) ==
    \/ q.period.unit = "days" /\ q.period.count \notin 1 .. 3660
    \/ q.period.unit = "weeks" /\ 7 * q.period.count \notin 1 .. 3660
    \/ q.period.unit = "months" /\ q.period.count \notin 1 .. 120
Answerable(q) ==
    LET r == Route(q)
    IN  /\ r.tool \in OpenAISchemas
        /\ PeriodTooFar(q) \/ Accepts(r.tool, r.arguments)
=============================================================================
