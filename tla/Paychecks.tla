----------------------------- MODULE Paychecks -----------------------------
(***************************************************************************)
(* The paycheck allocator (engine/allocator.py): the month's targets, built *)
(* from the household's rules, and one step per deposit of the month, which *)
(* funds them in four passes from a ledger that the deposits share.         *)
(***************************************************************************)
EXTENDS Schedules, Orders

CONSTANTS Homes,    \* the households that a run plans for
          Month     \* the month it plans, counted as in Schedules

VARIABLES home,     \* the household
          plan,     \* the month's targets, in the rules' order
          place,    \* the place of the next deposit in the month
          runs      \* what each deposit was allocated to

paycheckVars == <<home, plan, place, runs>>

FirstDay == FirstOf[Month]
LastDay == LastOf[Month]

(***************************************************************************)
(* The income of the month: its recorded events, or, when it has none, what *)
(* the sources' schedules project.                                          *)
(***************************************************************************)
Projection(h) ==
    LET Payments(dates, amount) == [k \in DOMAIN dates |-> [date |-> dates[k], amount |-> amount]]
        Projected(src) == Payments(Occurrences(src.schedule, FirstDay, LastDay), src.amount)
    IN  FoldLeft(LAMBDA all, src : all \o Projected(src), <<>>, h.sources)
InOrder(deposits) == SortBy(deposits, [k \in DOMAIN deposits |-> deposits[k].date])
MonthIncome(h) ==
    LET recorded == Where(h.events, LAMBDA e : FirstDay <= e.date /\ e.date <= LastDay)
    IN  InOrder(IF DOMAIN recorded # {} THEN recorded ELSE Projection(h))
Amounts(deposits) == [k \in DOMAIN deposits |-> deposits[k].amount]
Income(h) == SumOf(Amounts(MonthIncome(h)))

(***************************************************************************)
(* A household's rules, listed by name, are known by their identities.      *)
(* percent is in hundredths; left is what the reserve or the account lacks. *)
(***************************************************************************)
Methods == {"fixed", "percent_of_income", "surplus_share", "target_balance", "target_by_date"}
PaymentOf == [date : Int, amount : Nat]
RuleTyped(p) ==
    /\ p.id \in STRING \ {"floor"} /\ p.purpose \in STRING /\ p.method \in Methods
    /\ p.amount \in Nat /\ p.percent \in Nat /\ p.left \in Nat
    /\ p.priority \in Int /\ p.targetMonth \in Int
    /\ p.billDay \in Nat /\ p.loanDay \in Nat /\ p.ownDay \in Nat
    /\ p.billFunded \in Nat /\ p.fundedThis \in Nat
    /\ \A m \in DOMAIN p.funding : p.funding[m] \in Nat
ASSUME HomeAssumption ==
    /\ Month \in AllMonths
    /\ \A h \in Homes :
          /\ h.asOf \in Int
          /\ h.events \in Seq(PaymentOf) /\ Projection(h) \in Seq(PaymentOf)
          /\ Len(h.policies) \in Nat /\ DOMAIN h.policies = 1..Len(h.policies)
          /\ \A j \in DOMAIN h.policies :
                /\ RuleTyped(h.policies[j])
                /\ \A k \in DOMAIN h.policies :
                      h.policies[j].id = h.policies[k].id => j = k

Required == {"required_debt", "card_statement", "bill"}
Protected == {"emergency_reserve", "annual_reserve", "tax_reserve", "buffer"}
Consequences == Required \union {"tax_reserve"}

\* Funding recorded by month; a record older than that names one amount and
\* its month, the household's own month when it names none.
FundingFor(p, asOf) ==
    IF Month \in DOMAIN p.funding THEN p.funding[Month]
    ELSE IF Month = Or(p.fundedMonth, asOf) THEN p.fundedThis ELSE 0

\* A target by a date is spread over the months from the household's own month.
MonthlyTarget(p, asOf, income, committed) ==
    LET surplus == ClampMinZero(income - committed)
        base == IF p.base = "surplus_after_commitments" THEN surplus ELSE income
    IN  CASE p.method = "fixed" -> p.amount
          [] p.method = "percent_of_income" -> RoundHalfUp(base * p.percent, 100)
          [] p.method = "surplus_share" -> RoundHalfUp(surplus * p.percent, 100)
          [] p.method = "target_balance" -> p.left
          [] p.method = "target_by_date" ->
                IF p.targetMonth = 0 THEN p.left
                ELSE RoundHalfUp(p.left, Larger(1, p.targetMonth - asOf))

DueDate(p) ==
    CASE p.billDay # 0 -> DayInMonth(Month, p.billDay, "last_day_of_month")
      [] p.billDay = 0 /\ p.loanDay # 0 -> DayInMonth(Month, p.loanDay, "last_day_of_month")
      [] p.billDay = 0 /\ p.loanDay = 0 /\ p.ownDay # 0 -> DayInMonth(Month, p.ownDay, p.dayRule)
      [] OTHER -> NoDate

Rules(h) ==
    LET active == Where(h.policies, LAMBDA p : ~p.paused)
    IN  SortBy(active, [k \in DOMAIN active |-> active[k].priority])
Committed(h) ==
    LET rules == Rules(h)
    IN  SumOf([k \in DOMAIN rules |->
                  IF rules[k].purpose \in Required \union Protected
                  THEN MonthlyTarget(rules[k], h.asOf, Income(h), 0) ELSE 0])

Target(h, p) ==
    [rule |-> p, target |-> MonthlyTarget(p, h.asOf, Income(h), Committed(h)), due |-> DueDate(p),
     funded |-> IF p.purpose \in Required /\ DueDate(p) # NoDate
                THEN Larger(FundingFor(p, h.asOf), p.billFunded)
                ELSE FundingFor(p, h.asOf)]
MonthlyPlan(h) ==
    LET rules == Rules(h)
    IN  Where([k \in DOMAIN rules |-> Target(h, rules[k])], LAMBDA t : t.target # 0)

Remaining(t) == ClampMinZero(t.target - t.funded)
IsRequired(t) == t.rule.purpose \in Required
IsProtected(t) == t.rule.purpose \in Protected

(***************************************************************************)
(* One target of one deposit.                                               *)
(***************************************************************************)
\* Mutant: the buffer, and the last deposit of a month, wait like the rest.
UrgentByAccident(t, nextDate) ==
    t.due # NoDate /\ nextDate # NoDate /\ t.due < nextDate
IsUrgent(t, nextDate) ==
    \/ t.rule.purpose = "buffer"
    \/ t.due # NoDate /\ (nextDate = NoDate \/ t.due < nextDate)

Skipped(t, payDate) ==
    LET trigger == IF t.rule.scheduled /\ t.due # NoDate THEN t.due ELSE payDate
    IN  trigger \in t.rule.skipped

Line(t, give, requested, status, urgency) ==
    [id |-> t.rule.id, purpose |-> t.rule.purpose, amount |-> give, requested |-> requested,
     status |-> status, urgency |-> urgency]

\* A deposit in progress: what is left of it and the lines it has so far.
Give(run, line) == [left |-> run.left - line.amount, lines |-> Append(run.lines, line)]

\* Mutant: the whole target again, whatever an earlier deposit gave it.
FundBeyond(run, t, payDate, cap, urgency) ==
    LET give == Smaller(t.target, run.left)
    IN  Give(run, Line(t, give, give, "funded", urgency))
Fund(run, t, payDate, cap, urgency) ==
    LET want == Smaller(Remaining(t), cap)
        give == Smaller(want, run.left)
        status == CASE give = 0 -> "unfunded_shortfall"
                    [] give > 0 /\ give < want -> "partial"
                    [] OTHER -> "funded"
    IN  CASE Skipped(t, payDate) -> Give(run, Line(t, 0, Remaining(t), "paused", urgency))
          [] ~Skipped(t, payDate) /\ want = 0 -> run
          [] OTHER -> Give(run, Line(t, give, want, status, urgency))

Urgency(t) == IF IsRequired(t) \/ IsProtected(t) THEN "due_this_period" ELSE "optional"
Share(t, after) == IF after = 0 THEN Remaining(t) ELSE RoundHalfUp(Remaining(t), after + 1)

\* What a target gets in a pass, with so many deposits after this one.
Serve(run, t, payDate, after, pass) ==
    CASE pass = "urgent" -> Fund(run, t, payDate, Remaining(t), "due_before_next_income")
      [] pass = "required" /\ after = 0 ->
            Fund(run, t, payDate, Remaining(t), "due_this_period")
      [] pass = "required" /\ after # 0 ->
            Give(run, Line(t, 0, Remaining(t), "deferred", "due_this_period"))
      [] pass = "rest" /\ run.left = 0 ->
            Give(run, Line(t, 0, Remaining(t), "unfunded_shortfall", Urgency(t)))
      [] OTHER -> Fund(run, t, payDate, Share(t, after), Urgency(t))
ServeAll(run, order, payDate, after, pass) ==
    FoldLeft(LAMBDA r, k : Serve(r, plan[k], payDate, after, pass), run, order)

(***************************************************************************)
(* The passes of a deposit.                                                 *)
(***************************************************************************)
Later(date) == IF date = NoDate THEN Day(LastYear, Dec, 31) ELSE date
Elastic(t) == /\ t.rule.method \in {"percent_of_income", "surplus_share"}
              /\ ~IsRequired(t) /\ ~IsProtected(t)
Priorities == [k \in DOMAIN plan |-> plan[k].rule.priority]
ByDeadline(places) == InKeyOrder(places, [k \in DOMAIN plan |-> Later(plan[k].due)], Priorities)
ByPriority(places) ==
    InKeyOrder(places, [k \in DOMAIN plan |-> IF Elastic(plan[k]) THEN 1 ELSE 0], Priorities)

\* What must be paid before the next deposit; the required targets due later,
\* left to a later deposit if there is one; the rest, each with its share.
Short == {k \in DOMAIN plan : Remaining(plan[k]) > 0}
Urgent(nextDate) ==
    {k \in Short : /\ IsRequired(plan[k]) \/ IsProtected(plan[k])
                   /\ IsUrgent(plan[k], nextDate)}
DueLater(nextDate) ==
    {k \in Short : IsRequired(plan[k]) /\ ~IsUrgent(plan[k], nextDate)}
Rest(run) ==
    {k \in Short : \A n \in DOMAIN run.lines : run.lines[n].id # plan[k].rule.id}

\* The floor of the checking account, the target of the first buffer.
HoldFloor(run) ==
    LET buffers == Where(plan, LAMBDA t : t.rule.purpose = "buffer")
        Hold(floor) == Give(run, [id |-> "floor", purpose |-> "buffer",
                                  amount |-> Smaller(floor, run.left), requested |-> floor,
                                  status |-> "funded", urgency |-> "protected_floor"])
    IN  IF DOMAIN buffers = {} THEN run ELSE Hold(buffers[1].target)

Passes(amount, payDate, nextDate, after) ==
    LET start == [left |-> amount, lines |-> <<>>]
        first == ServeAll(start, ByDeadline(Urgent(nextDate)), payDate, after, "urgent")
        second == HoldFloor(first)
        third == ServeAll(second, ByDeadline(DueLater(nextDate)), payDate, after, "required")
    IN  ServeAll(third, ByPriority(Rest(third)), payDate, after, "rest")

\* Mutant: only what was due before the next deposit.
ShortfallNow(line) ==
    /\ line.status \in {"partial", "unfunded_shortfall"}
    /\ line.urgency \in {"due_before_next_income", "protected_floor"}
InShortfall(line) ==
    \/ /\ line.status \in {"partial", "unfunded_shortfall"}
       /\ line.urgency \in {"due_before_next_income", "protected_floor"}
    \/ /\ line.status # "deferred"
       /\ line.amount < line.requested
       /\ line.purpose \in Consequences

Gap(line) == line.requested - line.amount
Allocated(lines) == SumOf(Amounts(lines))

Deposit(e, nextDate, after) ==
    LET closed == Passes(e.amount, e.date, nextDate, after)
    IN  [event |-> e, nextDate |-> nextDate, left |-> closed.left, lines |-> closed.lines,
         shortfalls |-> {line \in ToSet(closed.lines) : InShortfall(line)}]

\* A deposit's allocations are committed to the ledger that the next one reads.
DepositAt(events, n) ==
    LET nextDate == IF n < Len(events) THEN events[n + 1].date ELSE NoDate
    IN  Deposit(events[n], nextDate,
                Cardinality({k \in DOMAIN events : events[k].date > events[n].date}))
GivenTo(t, lines) ==
    SumOf([n \in DOMAIN lines |-> IF lines[n].id = t.rule.id THEN lines[n].amount ELSE 0])
Commit(run) ==
    /\ plan' = [k \in DOMAIN plan |-> [plan[k] EXCEPT !.funded = @ + GivenTo(plan[k], run.lines)]]
    /\ runs' = Append(runs, run)
AllocatePaycheck ==
    /\ place > 0 /\ place <= Len(MonthIncome(home))
    /\ Commit(DepositAt(MonthIncome(home), place))
    /\ place' = place + 1
    /\ UNCHANGED home

PaychecksInit ==
    /\ home \in Homes
    /\ plan = MonthlyPlan(home)
    /\ place = 1
    /\ runs = <<>>
PaychecksSpec == PaychecksInit /\ [][AllocatePaycheck]_paycheckVars
\* Nothing is planned in a behaviour of another planner.
PaychecksOff == home = "none" /\ plan = <<>> /\ place = 0 /\ runs = <<>>
Ended == place > 0 /\ place > Len(MonthIncome(home))

(***************************************************************************)
(* Properties.                                                              *)
(***************************************************************************)
Run == runs[Len(runs)]
Unskipped(t, run) == ~Skipped(t, run.event.date)

\* SC51: however many deposits a month has, together they give a target no
\* more than it lacked when the month was planned, and a deposit is spent on
\* its lines to the cent, never below zero.
SharedLedger ==
    /\ \A k \in DOMAIN plan :
          plan[k].funded <= Larger(plan[k].target, Target(home, plan[k].rule).funded)
    /\ \A k \in DOMAIN runs :
          /\ runs[k].left >= 0
          /\ \A n \in DOMAIN runs[k].lines : runs[k].lines[n].amount >= 0
          /\ runs[k].left + Allocated(runs[k].lines) = runs[k].event.amount

\* SC49: a deposit that leaves short anything due before the next one has
\* been spent to the last cent, and only on targets due no later than it.
DeadlinesFirst ==
    runs # <<>> =>
        \A k \in DOMAIN plan :
            LET t == plan[k] IN
            (/\ IsRequired(t) \/ IsProtected(t)
             /\ t.due # NoDate /\ (Run.nextDate = NoDate \/ t.due < Run.nextDate)
             /\ Unskipped(t, Run) /\ Remaining(t) > 0)
            => /\ Run.left = 0
               /\ \A n \in DOMAIN Run.lines :
                     Run.lines[n].amount > 0 =>
                        \E j \in DOMAIN plan : /\ plan[j].rule.id = Run.lines[n].id
                                               /\ Later(plan[j].due) <= Later(t.due)

\* Section 14: when the month's deposits are done, a required target that is
\* still short is in the last deposit's shortfalls with exactly what it lacks,
\* and the last deposit keeps money only when no target lacks any.
ConflictShown ==
    (Ended /\ runs # <<>>) =>
        \A k \in DOMAIN plan :
            LET t == plan[k] IN
            (Unskipped(t, Run) /\ Remaining(t) > 0)
            => /\ Run.left = 0
               /\ t.rule.purpose \in Consequences =>
                     \E line \in Run.shortfalls :
                        line.id = t.rule.id /\ Gap(line) = Remaining(t)
=============================================================================
