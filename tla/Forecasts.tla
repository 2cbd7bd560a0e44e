----------------------------- MODULE Forecasts -----------------------------
(***************************************************************************)
(* The dated ledger of one account and what is read from it: the forecast,  *)
(* the spending allowance and the operating buffer (engine/ledger.py,       *)
(* engine/liquidity.py), while days pass, deposits land and bills are paid. *)
(***************************************************************************)
EXTENDS Schedules, Orders

CONSTANTS Ledgers,      \* the accounts that a run forecasts
          AllowanceDays, BufferDays, WindowDays     \* how far each figure looks

\* As the editor takes them (services/workspace.py:96): whole cents, a deposit of
\* nothing or more (:257), a bill of more than nothing (:311).
LedgerAmounts(l) ==
    /\ l.asOf \in Int /\ l.lastDay \in Int /\ l.available \in Int /\ l.minimum \in Int
    /\ l.floors \in Seq(Int) /\ l.protected \in Seq(Int) /\ l.healthy \in BOOLEAN
    /\ l.deposits \in Seq([date : Int, amount : Nat, received : BOOLEAN, posted : BOOLEAN])
    /\ l.pending \in Seq([date : Int, amount : Int, reflected : BOOLEAN])
    /\ l.bills \in Seq([schedule : {b.schedule : b \in ToSet(l.bills)},
                        dueDate : Int, amount : Nat \ {0}, confirmed : BOOLEAN])
ASSUME LedgerAssumption == \A l \in Ledgers : LedgerAmounts(l)
ASSUME WindowAssumption == WindowDays \in Nat /\ BufferDays \in Nat /\ AllowanceDays \in Nat

VARIABLES ledger,       \* the account, its floors, bills, deposits and pending transactions
          today,
          available,    \* the account's available balance
          funded,       \* the due dates of each bill that have been paid from it
          recorded,     \* the due dates of each bill that have an occurrence on record
          promise       \* what was taken from the account on a figure's word

ledgerVars == <<ledger, today, available, funded, recorded, promise>>

(***************************************************************************)
(* The entries of a window: deposits, bills and pending transactions.       *)
(***************************************************************************)
\* What some of a list come to.
AmountOf(list, some) ==
    SumOf([k \in DOMAIN list |-> IF k \in some THEN list[k].amount ELSE 0])

DepositsIn(start, until) ==
    {k \in DOMAIN ledger.deposits :
        start <= ledger.deposits[k].date /\ ledger.deposits[k].date <= until}
PendingIn(start, until) ==
    {k \in DOMAIN ledger.pending : /\ ~ledger.pending[k].reflected
                                   /\ start <= ledger.pending[k].date
                                   /\ ledger.pending[k].date <= until}

\* An occurrence on record stays visible past its date while it is not paid.
Open(n, start) == {d \in recorded[n] : d < start /\ d \notin funded[n]}
DueDates(n, start, until) ==
    BillDates(ledger.bills[n].schedule, ledger.bills[n].dueDate, start, until, Open(n, start))
\* What the window from today shows unpaid by one of its days.  An overdue bill
\* is placed on the first day; one moved past the last day is on none.
Unpaid(n, days, day) == {d \in DueDates(n, today, today + days) \ funded[n] : d <= day}
BillsBy(days, day) ==
    SumOf([n \in DOMAIN ledger.bills |->
              Cardinality(Unpaid(n, days, day)) * ledger.bills[n].amount])

(***************************************************************************)
(* The forecast: the closing balance of each day of the window.             *)
(***************************************************************************)
Closing(days) ==
    [day \in today..(today + days) |->
        available + AmountOf(ledger.deposits, DepositsIn(today, day))
                  + AmountOf(ledger.pending, PendingIn(today, day)) - BillsBy(days, day)]
\* Mutant: the balance that the window ends with.
EndingBalance(closing) ==
    LET last == CHOOSE d \in DOMAIN closing : d + 1 \notin DOMAIN closing IN closing[last]
LowPoint(closing) == CHOOSE b \in {closing[d] : d \in DOMAIN closing} :
                        \A d \in DOMAIN closing : b <= closing[d]

SpendingAllowance ==
    ClampMinZero(LowPoint(Closing(AllowanceDays)) - SumOf(ledger.protected))
\* Nothing in the window is only predicted.
AllowanceExact ==
    LET until == today + AllowanceDays IN
    /\ ledger.healthy
    /\ \A k \in DepositsIn(today, until) : ledger.deposits[k].received
    /\ \A n \in DOMAIN ledger.bills :
          Unpaid(n, AllowanceDays, until) # {} => ledger.bills[n].confirmed
    /\ PendingIn(today, until) = {}

(***************************************************************************)
(* The operating buffer.                                                    *)
(***************************************************************************)
\* The inflow that counts is there already, and lands in the first days.
Qualifying ==
    {k \in DepositsIn(today, today + Smaller(WindowDays, BufferDays)) :
        ledger.deposits[k].received /\ ledger.deposits[k].amount > 0}
Charges(until) == {k \in PendingIn(today, until) : ledger.pending[k].amount < 0}
Outflows ==
    BillsBy(BufferDays, today + BufferDays)
        - AmountOf(ledger.pending, Charges(today + BufferDays))

ComputeBuffer(cash, outflows, floor, bankMinimum, uncertainty, inflow) ==
    LET required == ClampMinZero(outflows - inflow) + Larger(floor, bankMinimum) + uncertainty
    IN  [required |-> required, sweepable |-> ClampMinZero(cash - required)]
BufferFor ==
    ComputeBuffer(available, Outflows, SumOf(ledger.floors), ledger.minimum,
                  RoundHalfUp(Outflows, 10), AmountOf(ledger.deposits, Qualifying))

(***************************************************************************)
(* Days.                                                                    *)
(***************************************************************************)
None == [since |-> NoDate, through |-> NoDate, floor |-> 0, sure |-> FALSE]

\* What the household owes on its bills, whether a forecast shows it or not.
Obligations(n) ==
    BillDates(ledger.bills[n].schedule, ledger.bills[n].dueDate, ledger.asOf, ledger.lastDay, {})
InSight(n, days) ==
    \A d \in Obligations(n) \ funded[n] :
        d <= today + days => d \in DueDates(n, today, today + days)
\* Nothing owed in the window is out of sight of its forecast, and no deposit
\* of today is in the balance yet.
Clear(days) == /\ \A n \in DOMAIN ledger.bills : InSight(n, days)
               /\ \A k \in DOMAIN ledger.deposits :
                     ledger.deposits[k].posted => ledger.deposits[k].date < today

\* The household spends its allowance, or sweeps what the buffer leaves over.
SpendAllowance ==
    /\ promise = None /\ SpendingAllowance > 0
    /\ available' = available - SpendingAllowance
    /\ promise' = [since |-> today, through |-> today + AllowanceDays,
                   floor |-> SumOf(ledger.protected),
                   sure |-> Clear(AllowanceDays) /\ AllowanceExact]
    /\ UNCHANGED <<ledger, today, funded, recorded>>
\* A sweep nets the window's outflows against the deposits that are sure, so
\* the floor is its word from the last of them on.
LastOn(dates) == CHOOSE d \in dates : \A e \in dates : e <= d
Landed == LastOn({today} \union {ledger.deposits[k].date : k \in Qualifying})
Sweep ==
    /\ promise = None /\ BufferFor.sweepable > 0
    /\ available' = available - BufferFor.sweepable
    /\ promise' = [since |-> Landed, through |-> today + BufferDays, sure |-> Clear(BufferDays),
                   floor |-> Larger(SumOf(ledger.floors), ledger.minimum)]
    /\ UNCHANGED <<ledger, today, funded, recorded>>

\* A payment is drafted for a bill's next date, which puts it on record.
DraftPayment(n) ==
    /\ \E dates \in {DueDates(n, today, today + BufferDays) \ funded[n]} :
         \E d \in dates \ recorded[n] :
              /\ \A e \in dates : d <= e
              /\ recorded' = [recorded EXCEPT ![n] = @ \union {d}]
    /\ UNCHANGED <<ledger, today, available, funded, promise>>

\* What happens to the account on a day: bills that are due are paid or left
\* late, an unconfirmed one for up to a tenth more; pending transactions
\* settle; deposits land, an expected one perhaps not.  A new day finds the
\* calendar one day on (runtime.py).
DayEnds ==
    LET Due(n) == {d \in Obligations(n) : d <= today} \ funded[n]
        Lands(any) == {k \in DOMAIN ledger.deposits :
                          /\ ledger.deposits[k].date = today /\ ~ledger.deposits[k].posted
                          /\ ledger.deposits[k].received \/ any}
    IN  \E paid \in [DOMAIN ledger.bills -> BOOLEAN], more, lands \in BOOLEAN :
          LET Now(n) == IF paid[n] THEN Due(n) ELSE {}
              Price(b) == IF more /\ ~b.confirmed THEN b.amount + b.amount \div 10 ELSE b.amount
              bills == [n \in DOMAIN ledger.bills |-> Cardinality(Now(n)) * Price(ledger.bills[n])]
          IN  /\ today < ledger.lastDay
              /\ today' = today + 1
              /\ available' = available + AmountOf(ledger.deposits, Lands(lands))
                                        + AmountOf(ledger.pending, PendingIn(today, today))
                                        - SumOf(bills)
              /\ funded' = [n \in DOMAIN funded |-> funded[n] \union Now(n)]
              /\ UNCHANGED <<ledger, recorded, promise>>

ForecastsInit ==
    /\ ledger \in Ledgers
    /\ today = ledger.asOf
    /\ available = ledger.available
    /\ funded = [n \in DOMAIN ledger.bills |-> {}]
    /\ recorded = [n \in DOMAIN ledger.bills |-> {}]
    /\ promise = None
ForecastsOff == /\ ledger = "none" /\ today = NoDate /\ available = 0
                /\ funded = <<>> /\ recorded = <<>> /\ promise = None
ForecastsNext == \/ SpendAllowance
                 \/ Sweep
                 \/ DayEnds
                 \/ \E n \in DOMAIN recorded : DraftPayment(n)
ForecastsSpec == ForecastsInit /\ [][ForecastsNext]_ledgerVars

(***************************************************************************)
(* Tiers, sweeps and payment timing.  The growth of a deposit, a power of   *)
(* its yield, is given.                                                     *)
(***************************************************************************)
Tiers == <<"immediate", "same_day", "one_to_three_days", "dated", "investment",
           "contingent_borrowing", "estimated">>
TierForType == [checking |-> 1, cash |-> 1, savings |-> 2, money_market_deposit |-> 2,
                brokerage_sweep |-> 3, money_market_fund |-> 5, cd |-> 4, brokerage |-> 5,
                retirement |-> 5, sbloc |-> 6, margin |-> 6, estimated_asset |-> 7]
OwedTypes == {"credit_card", "personal_loan", "auto_loan", "student_loan", "mortgage", "bnpl"}

ClassifyLiquidity(accounts) ==
    LET held == Where(accounts, LAMBDA a : a.type \notin OwedTypes)
        TierOf(a) == CASE a.tier # 0 -> a.tier
                       [] a.tier = 0 /\ a.type \in DOMAIN TierForType -> TierForType[a.type]
                       [] OTHER -> 5
        Row(a) == [tier |-> TierOf(a), nearTerm |-> TierOf(a) <= 2,
                   shown |-> IF TierOf(a) <= 2 THEN a.available ELSE a.current]
    IN  SortBy([k \in DOMAIN held |-> Row(held[k])], [k \in DOMAIN held |-> TierOf(held[k])])
NearTermCash(rows) ==
    SumOf([k \in DOMAIN rows |-> IF rows[k].nearTerm THEN rows[k].shown ELSE 0])

AssessSweep(gain, taxRate, fee, minimum) ==
    LET net == gain - RoundHalfUp(gain * taxRate, 100) - fee
    IN  [net |-> net, economic |-> net >= minimum,
         feeIsWhy |-> net < minimum /\ fee > 0 /\ net + fee >= minimum]

LatestSafeInitiation(due, rail, cutoff, safety) ==
    AddBusinessDays(Adjust(due, "preceding"), -(rail + cutoff + safety))

CompareTiming(due, now, growth, taxRate, interest) ==
    LET latest == LatestSafeInitiation(due, 2, 1, 1)
        days == ClampMinZero(latest - now)
        gross == growth[days]
        net == gross - RoundHalfUp(gross * taxRate, 100) - interest[days]
    IN  [latest |-> latest, holdDays |-> days, net |-> net,
         advice |-> CASE net < 0 -> "Pay now"
                      [] net = 0 -> "Either date is equivalent"
                      [] net > 0 -> "Initiate by"]

(***************************************************************************)
(* Standing rules and their dated runs (engine/recurring.py, models.py).    *)
(***************************************************************************)
IncomeDates(p, start, until) ==
    LET Dates(s) == LET all == Occurrences(s, start, until) IN {all[k] : k \in DOMAIN all}
    IN  UNION {Dates(p.incomes[k]) : k \in DOMAIN p.incomes}
            \union {d \in p.events : start <= d /\ d <= until}
Chronological(dates) == SortSeq(FoldSet(LAMBDA d, seq : Append(seq, d), <<>>, dates), <)
TriggerDates(p, start, until) ==
    CASE p.scheduled -> Occurrences(p.schedule, start, until)
      [] ~p.scheduled /\ p.cadence # "on_income" -> <<>>
      [] OTHER -> Chronological(IncomeDates(p, start, until))

\* A skip recorded before dates were follows the first date of two years.
SkipDate(p, asOf) ==
    LET next == TriggerDates(p, asOf, asOf + 730)
    IN  CASE ~p.skipNext -> NoDate
          [] p.skipNext /\ p.skipped # {} -> CHOOSE d \in p.skipped : \A e \in p.skipped : e <= d
          [] OTHER -> IF next = <<>> THEN NoDate ELSE next[1]
SkippedOn(p, asOf, date) == date \in p.skipped \/ (SkipDate(p, asOf) = date /\ date # NoDate)

SkipOccurrence(p, asOf) ==
    LET dates == SelectSeq(TriggerDates(p, asOf, asOf + 730), LAMBDA d : d \notin p.skipped)
    IN  IF dates = <<>> THEN p
        ELSE [p EXCEPT !.skipped = @ \union {dates[1]}, !.skipNext = TRUE]

WillRun(p, asOf, date) ==
    ~p.paused /\ ~SkippedOn(p, asOf, date) /\ p.authorized /\ p.mode # "explore"
UpcomingRuns(p, asOf, horizon) ==
    LET dates == TriggerDates(p, asOf, asOf + horizon)
    IN  [k \in DOMAIN dates |-> [date |-> dates[k], willRun |-> WillRun(p, asOf, dates[k])]]
Unresolved(p) ==
    ~p.paused /\ (p.scheduled \/ p.cadence = "on_income")
        /\ (~p.authorized \/ p.mode = "explore")

(***************************************************************************)
(* Properties.                                                              *)
(***************************************************************************)
\* PL05: an exact allowance that is spent, or a sweepable amount that is swept,
\* leaves every day of the window (for a sweep, from the last deposit it counts
\* on) closed above what was to be kept, whichever bills are paid late or cost
\* more and whether expected deposits land: the figure looked at the lowest day
\* and only at money that is sure to be there.
PromiseHolds ==
    (promise.sure /\ promise.since < today /\ today <= promise.through + 1)
        => available >= promise.floor

\* docs/calculation-methods.md, cash forecast: an obligation whose date passes
\* without a payment is placed on the first day of the next forecast.
OverdueStaysVisible ==
    today # NoDate =>
        \A n \in DOMAIN ledger.bills :
            {d \in Obligations(n) : d < today} \ funded[n]
                \subseteq DueDates(n, today, today + BufferDays)

\* A payment started on the latest safe day has its business days before the
\* due date, and one started a business day later does not.
InitiationInTime(due) ==
    LET latest == LatestSafeInitiation(due, 2, 1, 1)
    IN  /\ AddBusinessDays(latest, 4) <= due
        /\ AddBusinessDays(Nearest(latest + 1, 1), 4) > Adjust(due, "preceding")
\* Skipping the next run stops that run and no other one, and a rule that is
\* unresolved has no run that will happen.
SkipIsOne(p, asOf) ==
    LET q == SkipOccurrence(p, asOf)
        Kept(r) == {d \in {UpcomingRuns(r, asOf, 60)[k].date :
                                k \in DOMAIN UpcomingRuns(r, asOf, 60)} : WillRun(r, asOf, d)}
        live == [p EXCEPT !.skipNext = FALSE]
    IN  /\ Kept(live) # {} /\ p.skipped = {} =>
              Kept(q) = Kept(live) \ {CHOOSE d \in Kept(live) : \A e \in Kept(live) : d <= e}
        /\ Unresolved(p) => Kept(p) = {}
============================================================================
