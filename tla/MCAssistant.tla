---------------------------- MODULE MCAssistant ----------------------------
(* Two households whose contents change while three questions are answered. *)
EXTENDS Assistant

Home(cash, low, protected, legs, has, exposure) ==
    [has |-> has, cash |-> cash, low |-> low, protected |-> protected, buffer |-> 2, legs |-> legs,
     stale |-> 0, halted |-> Len(legs) % 2, other |-> cash + 1, exposure |-> exposure,
     worth |-> [total_debt |-> 2, required |-> 4, extra |-> 2, budget |-> 6]]
Everything == {"checking", "savings", "card", "debt", "terms", "mortgage", "mortgage_terms"}
Leg(id, state, past) == [id |-> id, state |-> state, past |-> past]
Sent == {"authorized", "validating", "submitted"}
Settled == Sent \union {"processing", "funds_available"}
\* Tokens: <<1, 1, 2, 3>>, then <<1, 2, 3, 4>> in both households; a payment settles and is
\* returned, and another is under way.
MCHouseholds ==
    [ours |-> <<Home(8, 3, 0, <<Leg("l1", "reconciled", Settled)>>, Everything, [bank_meridian |-> 3]),
                Home(9, 5, 2, <<Leg("l1", "returned", Settled \union {"reconciled"})>>, Everything,
                     [bank_meridian |-> 0])>>,
     theirs |-> <<Home(7, 5, 2, <<Leg("l2", "processing", Sent)>>, {"checking", "card", "debt"}, <<>>)>>]
MCScopeOf == [r1 |-> "ours", r2 |-> "ours", r3 |-> "theirs"]

NoPeriod == [unit |-> "none", count |-> 0]
Plain(intent) ==
    [name |-> intent, hits |-> (intent :> 1), amount |-> NoAmount, second |-> FALSE, cadence |-> FALSE,
     place |-> "none", online |-> FALSE, period |-> NoPeriod, refused |-> {}, choice |-> "router",
     viewing |-> <<>>]
Spend == Plain("spending_allowance")
Transfer == [Plain("automation") EXCEPT !.amount = 5, !.name = "did it settle"]
Named(q, name) == [q EXCEPT !.name = name]
Outcome == Named(Plain("transfer_failure"), "what happened to it")
Choosing(q) == [q EXCEPT !.choice = "model"]
OpenCard == Named([Plain("boundary") EXCEPT !.hits = <<>>, !.refused = {"new_product"}], "open a card")
Special ==
    {Named([Spend EXCEPT !.period = [unit |-> "days", count |-> n], !.viewing = [account_id |-> Text("a")]],
           "spend within a period") : n \in {0, 7}}
    \union
    {Named([Plain("income_loss") EXCEPT !.period = [unit |-> "months", count |-> n]], "no income")
        : n \in {2, 121}}
    \union
    {Named([Plain("extra_payment") EXCEPT !.cadence = TRUE, !.amount = 50], "every payday"),
     Named([Plain("card_choice") EXCEPT !.place = "unnamed", !.amount = 80], "card in a city"),
     Named([Plain("card_choice") EXCEPT !.place = "abroad", !.amount = 2, !.online = TRUE], "card abroad"),
     Named([Plain("mortgage") EXCEPT !.amount = 2000], "lump sum"),
     Named([Plain("booking_channel") EXCEPT !.amount = 500, !.second = TRUE], "two prices"),
     Named([Plain("unknown") EXCEPT !.hits = <<>>], "unknown"),
     Named([Plain("buffer") EXCEPT !.hits = [buffer |-> 1, reserves |-> 1, sweep |-> 1], !.amount = 0],
           "three at once")}
MCAsks ==
    [r1 |-> {Spend, Transfer, Outcome},
     r2 |-> {Spend, Choosing(Transfer)},
     r3 |-> {Transfer, OpenCard}]
Questions == UNION {MCAsks[r] : r \in DOMAIN MCAsks} \union Special
                \union {Plain(INTENTS[k].name) : k \in DOMAIN INTENTS}

Offer(name, arguments) == [name |-> name, arguments |-> arguments]
MCSelections ==
    {<<>>, <<Offer("get_spending_allowance", NoArguments)>>, <<Offer("get_automation_status", NoArguments)>>,
     <<Offer("explain_transfer_outcome", [leg_id |-> Text("l1")]), Offer("pause_recurring_policy", [policy_id |-> Text("p")])>>,
     <<Offer("get_cash_forecast", [days |-> Text("many")])>>}
MCDeviations == {{}, {"swap"}, {"sent"}, {"settled"}}

\* Each question the product answers is routed to a calculator that reads and
\* accepts the arguments built for it, and the answer's template finds every
\* figure it names.
ASSUME RoutesAreAnswerable ==
    \A q \in Questions : q.refused = {} =>
        /\ Answerable(q)
        /\ \A h \in DOMAIN Households : \A k \in DOMAIN Households[h] :
                LET result == Call(Route(q).tool, Route(q).arguments, Households[h][k])
                IN  Range(Fields(Route(q).intent, result)) \subseteq DOMAIN result.figures
=============================================================================
