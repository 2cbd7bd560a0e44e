------------------------------- MODULE Cards -------------------------------
(***************************************************************************)
(* Which card a purchase is put on (engine/cards.py): the net value of each *)
(* card, the ranking, and the shorter comparisons that the assistant offers *)
(* beside it.  Rates are in thousandths; a card whose rewards are cash back *)
(* values a unit at one, any other at its own point value.                  *)
(***************************************************************************)
EXTENDS Money, Orders

NoCap == -1
Bounded(cap) == cap # NoCap

(***************************************************************************)
(* One card.                                                                *)
(***************************************************************************)
CapRemaining(r) == IF Bounded(r.cap) THEN ClampMinZero(r.cap - r.used) ELSE NoCap

Applies(r, p) ==
    /\ r.category = p.category
    /\ r.from <= p.date /\ p.date <= r.until
    /\ p.merchant \notin r.merchants /\ p.channel \notin r.channels
    /\ r.needsActivation => r.activated

\* The first of the rules with the highest rate.
MatchingRules(card, p) == Where(card.rules, LAMBDA r : Applies(r, p))
Best(rules) ==
    rules[CHOOSE k \in DOMAIN rules :
            /\ \A j \in DOMAIN rules : rules[j].rate <= rules[k].rate
            /\ \A j \in 1..(k - 1) : rules[j].rate < rules[k].rate]
BaseRate(card) ==
    LET base == Where(card.rules, LAMBDA r : r.category = "base")
    IN  IF base = <<>> THEN 10 ELSE base[1].rate

\* The bonus is earned on what still fits under the cap, the base on the rest.
Units(card, p) ==
    LET rules == MatchingRules(card, p)
        left == CapRemaining(Best(rules))
        bonus == IF Bounded(left) THEN Smaller(p.amount, left) ELSE p.amount
    IN  IF rules = <<>> THEN p.amount * BaseRate(card)
        ELSE bonus * Best(rules).rate + (p.amount - bonus) * BaseRate(card)
Reward(card, p) ==
    IF card.cashback THEN RoundHalfUp(Units(card, p), 1000)
    ELSE RoundHalfUp(Units(card, p) * card.pointValue, 1000000)

InterestFor(amount, apr, days) == RoundHalfUp(amount * apr * days, 365000)
BorrowingCost(card, p) ==
    CASE card.grace = "lost" ->
            InterestFor(p.amount, card.apr, IF p.carried = 0 THEN 30 ELSE p.carried)
      [] card.grace = "unknown" -> 0
      [] OTHER -> InterestFor(p.amount, card.apr, p.carried)

EvaluateCard(card, p) ==
    LET fee == RoundHalfUp(p.amount * p.feeRate, 1000)
        foreign == IF p.foreign THEN RoundHalfUp(p.amount * card.foreignFee, 1000) ELSE 0
    IN  [card |-> card, eligible |-> ~card.excluded, reward |-> Reward(card, p),
         net |-> Reward(card, p) - fee - foreign - p.lostDiscount - BorrowingCost(card, p),
         exact |-> card.grace # "unknown" /\ p.codingCertain]

(***************************************************************************)
(* The ranking.  A purchase that the plan cannot repay gets no card.        *)
(***************************************************************************)
NoCard == "no card"
Usable(cards, p) ==
    LET options == [k \in DOMAIN cards |-> EvaluateCard(cards[k], p)]
        usable == Where(options, LAMBDA o : o.eligible)
    IN  SortBy(usable, [k \in DOMAIN usable |-> -usable[k].net])
NoWinner == [winner |-> NoCard, margin |-> 0, qualified |-> TRUE, card |-> FALSE]
\* Mutant: only an uncertain coding qualifies the winner.
ChosenByCoding(usable, p, alternative) ==
    [winner |-> usable[1], margin |-> usable[1].net, qualified |-> ~p.codingCertain,
     card |-> usable[1].net > alternative]
Chosen(usable, p, alternative) ==
    LET next == IF Len(usable) > 1 THEN usable[2].net ELSE alternative
    IN  [winner |-> usable[1], margin |-> usable[1].net - next,
         qualified |-> ~usable[1].exact \/ ~p.codingCertain,
         card |-> usable[1].net > alternative]
RankCards(cards, p, alternative, feasible) ==
    LET Rank(usable) == IF ~feasible \/ usable = <<>> THEN NoWinner
                        ELSE Chosen(usable, p, alternative)
    IN  Rank(Usable(cards, p))

(***************************************************************************)
(* The comparisons that take no card of the household.                      *)
(***************************************************************************)
CompareChannels(price, rate) ==
    LET net == [c \in DOMAIN price |-> price[c] - RoundHalfUp(price[c] * rate[c], 1000)]
        cheaper == IF net["direct"] <= net["portal"] THEN "direct" ELSE "portal"
        dearer == IF cheaper = "direct" THEN "portal" ELSE "direct"
    IN  [cheaper |-> cheaper, difference |-> net[dearer] - net[cheaper]]

BillPayment(amount, rate, feeRate, bankFee, lost) ==
    LET card == RoundHalfUp(amount * rate, 1000) - RoundHalfUp(amount * feeRate, 1000) - lost
    IN  [card |-> card, bank |-> -bankFee, better |-> IF card > -bankFee THEN "card" ELSE "bank"]

InterestVsReward(amount, apr, days, rate) ==
    RoundHalfUp(amount * rate, 1000) - InterestFor(amount, apr, days)

\* What the issuer reports at the close of a statement, in thousandths of the
\* limit; a tie goes to the even thousandth.
Thousandths(n, d) ==
    LET floor == (1000 * n) \div d
        over == 2 * ((1000 * n) % d)
    IN  IF over > d \/ (over = d /\ floor % 2 = 1) THEN floor + 1 ELSE floor
Reported(balance, limit) == IF limit = 0 THEN 0 ELSE Thousandths(balance, limit)
UtilizationTiming(card, payment) ==
    [atDue |-> Reported(card.balance, card.limit),
     beforeClose |-> Reported(ClampMinZero(card.balance - payment), card.limit)]

(***************************************************************************)
(* Properties, of a purchase with its cards and of two purchases in a row.  *)
(***************************************************************************)
GraceStates == {"intact", "lost"}
Confirmed(cards, states) ==
    [k \in DOMAIN cards |-> IF cards[k].grace = "unknown" THEN [cards[k] EXCEPT !.grace = states[k]]
                            ELSE cards[k]]

\* An ordering that could still change is never shown as settled: a winner
\* that is not qualified stays at the top however the grace periods that are
\* not confirmed turn out, its own net included.
SettledWinner(cards, p) ==
    LET Same(now, then) == then.winner.net = now.winner.net /\ then.card = now.card
        Settled(now) ==
            ~now.qualified =>
              /\ p.codingCertain
              /\ \A states \in [DOMAIN cards -> GraceStates] :
                    Same(now, RankCards(Confirmed(cards, states), p, 0, TRUE))
    IN  Settled(RankCards(cards, p, 0, TRUE))

\* A cap is marginal: a purchase earns on a card what it earns in two parts,
\* the second one after the first has used its share of the cap, to the cent
\* that rounding each part can move.
SpentRule(r, p) == IF r.category = p.category THEN [r EXCEPT !.used = @ + p.amount] ELSE r
AfterBuying(card, p) == [card EXCEPT !.rules = [k \in DOMAIN @ |-> SpentRule(@[k], p)]]
PartOf(p, amount) == [p EXCEPT !.amount = amount]
CapIsMarginal(card, p, first) ==
    LET one == PartOf(p, first)
        two == PartOf(p, p.amount - first)
        parts == Reward(card, one) + Reward(AfterBuying(card, one), two)
    IN  parts - Reward(card, p) \in -1..1

\* The shorter comparisons say what the ranking says of the same purchase on
\* a plain card: whether a bill belongs on it, and what carrying it costs.
ComparisonsAgree(card, p) ==
    LET o == EvaluateCard(card, p)
        bill == BillPayment(p.amount, BaseRate(card), p.feeRate, 0, p.lostDiscount)
    IN  (card.cashback /\ MatchingRules(card, p) = <<>> /\ ~p.foreign) =>
          /\ (p.carried = 0 /\ card.grace # "lost") =>
                /\ bill.card = o.net
                /\ (bill.better = "card") = RankCards(<<card>>, p, 0, TRUE).card
          /\ (p.feeRate = 0 /\ p.lostDiscount = 0 /\ card.grace # "unknown") =>
                LET days == IF card.grace = "lost" /\ p.carried = 0 THEN 30 ELSE p.carried
                IN  InterestVsReward(p.amount, card.apr, days, BaseRate(card)) = o.net
============================================================================
