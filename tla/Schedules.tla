----------------------------- MODULE Schedules -----------------------------
(***************************************************************************)
(* Dates, the business-day calendar and the dated occurrences of a bill, an *)
(* income or a rule (dates.py).  A date is its ordinal, as in Python; 0     *)
(* stands for no date.                                                      *)
(***************************************************************************)
EXTENDS Money

CONSTANTS FirstYear, LastYear   \* the years the dates of a run lie in
ASSUME YearsAssumption == FirstYear \in Nat \ {0} /\ LastYear \in Nat /\ FirstYear <= LastYear

NoDate == 0
Jan == 1 Feb == 2 Dec == 12

(***************************************************************************)
(* Python's calendar.                                                       *)
(***************************************************************************)
IsLeap(y) == y % 4 = 0 /\ (y % 100 # 0 \/ y % 400 = 0)
DaysIn(y, m) ==
    CASE m = Feb -> IF IsLeap(y) THEN 29 ELSE 28
      [] m \in {4, 6, 9, 11} -> 30
      [] OTHER -> 31
DaysBefore == [m \in 1..12 |-> SumOf([k \in 1..(m - 1) |-> DaysIn(1, k)])]
Day(y, m, d) ==
    365 * (y - 1) + (y - 1) \div 4 - (y - 1) \div 100 + (y - 1) \div 400
        + DaysBefore[m] + (IF m > Feb /\ IsLeap(y) THEN 1 ELSE 0) + d

\* Months are counted from year 0, so that one follows another across a year.
YearAt(i) == i \div 12
MonthAt(i) == (i % 12) + 1
AllMonths == (12 * FirstYear)..(12 * LastYear + 11)
FirstOf == [i \in AllMonths |-> Day(YearAt(i), MonthAt(i), 1)]
LastOf == [i \in AllMonths |-> FirstOf[i] + DaysIn(YearAt(i), MonthAt(i)) - 1]

AllDays == Day(FirstYear, Jan, 1) .. Day(LastYear, Dec, 31)
MonthIndex == [d \in AllDays |-> CHOOSE i \in AllMonths : FirstOf[i] <= d /\ d <= LastOf[i]]
DayOfMonth(d) == d - FirstOf[MonthIndex[d]] + 1
Weekday(d) == (d + 6) % 7    \* Monday is 0

(***************************************************************************)
(* Business days.                                                           *)
(***************************************************************************)
NthWeekday(y, m, w, n) ==
    LET Seek(first) == first + ((w - Weekday(first)) % 7) + 7 * (n - 1)
    IN  Seek(Day(y, m, 1))
LastWeekday(y, m, w) ==
    LET Seek(last) == last - ((Weekday(last) - w) % 7)
    IN  Seek(Day(y, m, DaysIn(y, m)))

\* The holidays on a date, and the others on the nth weekday of a month.
Fixed == {<<1, 1>>, <<6, 19>>, <<7, 4>>, <<11, 11>>, <<12, 25>>}
Floating == {<<1, 0, 3>>, <<2, 0, 3>>, <<9, 0, 1>>, <<10, 0, 2>>, <<11, 3, 4>>}
UsHolidays(y) ==
    LET days == {Day(y, h[1], h[2]) : h \in Fixed} \union {LastWeekday(y, 5, 0)}
                  \union {NthWeekday(y, h[1], h[2], h[3]) : h \in Floating}
        Observed(d) == CASE Weekday(d) = 5 -> d - 1
                         [] Weekday(d) = 6 -> d + 1
                         [] OTHER -> d
    IN  {Observed(d) : d \in days}

\* The holidays of a year are those its own list observes: a first of January
\* observed on the 31st of December is in the list of the following year.
Holidays == [y \in FirstYear..LastYear |-> UsHolidays(y)]
BusinessDays == {d \in AllDays : Weekday(d) < 5 /\ d \notin Holidays[YearAt(MonthIndex[d])]}

\* The first business day from d on, a day later or earlier at a time.
Nearest(d, step) ==
    LET walk[e \in AllDays] == IF e \in BusinessDays THEN e ELSE walk[e + step]
    IN  walk[d]

Adjust(d, rule) ==
    LET Kept(e) == rule = "modified_following" => MonthIndex[e] = MonthIndex[d]
    IN  CASE rule = "none" -> d
          [] rule # "none" /\ rule # "preceding" /\ Kept(Nearest(d, 1)) -> Nearest(d, 1)
          [] OTHER -> Nearest(d, -1)

\* The nth business day after d, or before it when n is negative.
AddBusinessDays(d, n) ==
    LET step == IF n >= 0 THEN 1 ELSE -1
        walk[k \in 0..(n * step)] == IF k = 0 THEN d ELSE Nearest(walk[k - 1] + step, step)
    IN  walk[n * step]

(***************************************************************************)
(* Schedules.                                                               *)
(***************************************************************************)
Steps == [weekly |-> 7, biweekly |-> 14]
MonthSteps == [monthly |-> 1, quarterly |-> 3, annually |-> 12]

\* A day that the month does not have, by the schedule's rule.
DayInMonth(i, day, rule) ==
    LET Clip(date, last) == CASE date <= last -> date
                              [] date > last /\ rule = "last_day_of_month" -> last
                              [] date > last /\ rule = "skip" -> NoDate
                              [] OTHER -> last + 1
    IN  Clip(FirstOf[i] + day - 1, LastOf[i])

\* day1 and day2 are 0 when the schedule names no day of the month.
Or(day, otherwise) == IF day = 0 THEN otherwise ELSE day
Within(d, s, start, until) ==
    d # NoDate /\ start <= d /\ d <= until /\ (s.end = NoDate \/ d <= s.end)

\* The dates before the business-day rule moves them.
Weekly(s, start, until) ==
    LET step == Steps[s.cadence]
        skipped == IF s.anchor >= start THEN 0 ELSE (start - s.anchor + step - 1) \div step
        first == s.anchor + step * skipped
        last == IF s.end = NoDate \/ until <= s.end THEN until ELSE s.end
    IN  [k \in 1..ClampMinZero((last - first) \div step + 1) |-> first + step * (k - 1)]

Semimonthly(s, start, until) ==
    LET days == SetToSortSeq({Or(s.day1, 1), Or(s.day2, 15)}, <)
        months == [k \in 1..(MonthIndex[until] - MonthIndex[start] + 1) |-> k - 1]
        Both(i) == LET On(month) == [k \in DOMAIN days |-> DayInMonth(month, days[k], s.dayRule)]
                   IN  On(MonthIndex[start] + i)
    IN  SelectSeq(FoldLeft(LAMBDA dates, i : dates \o Both(i), <<>>, months),
                  LAMBDA d : Within(d, s, start, until))

Monthly(s, start, until) ==
    LET day == Or(s.day1, DayOfMonth(s.anchor))
        step == MonthSteps[s.cadence]
        places == (MonthIndex[until] - MonthIndex[s.anchor]) \div step + 1
        dates == [k \in 1..places |->
                    DayInMonth(MonthIndex[s.anchor] + step * (k - 1), day, s.dayRule)]
    IN  SelectSeq(dates, LAMBDA d : Within(d, s, start, until))

Dated(s, start, until) ==
    CASE s.cadence \in {"none", "on_income", "on_dependency"} -> <<>>
      [] s.cadence = "once" ->
            IF start <= s.anchor /\ s.anchor <= until THEN <<s.anchor>> ELSE <<>>
      [] s.cadence \in DOMAIN Steps -> Weekly(s, start, until)
      [] s.cadence = "semimonthly" -> Semimonthly(s, start, until)
      [] s.cadence \in DOMAIN MonthSteps -> Monthly(s, start, until)

Moved(dates, rule) == [k \in DOMAIN dates |-> Adjust(dates[k], rule)]
Occurrences(s, start, until) == Moved(Dated(s, start, until), s.bizRule)

\* A bill's dates in a window.  One with no schedule is due once; open holds
\* the earlier dates that are recorded and not yet paid, which stay visible.
\* Dates lie in the years of the run.
BillDates(s, dueDate, start, until, open) ==
    open \union (AllDays \intersect
                    IF s.cadence = "none" THEN {dueDate} \intersect (start..until)
                    ELSE ToSet(Occurrences(s, start, until)))
============================================================================
