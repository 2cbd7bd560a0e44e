--------------------------- MODULE Figures_proofs ---------------------------
(***************************************************************************)
(* What is proved of the figures a household is shown.  Forecasts: an      *)
(* allowance that is spent and a surplus that is swept leave what they     *)
(* promised to keep (PromiseHolds).  Figures: the break-even yield decides *)
(* (BreakEvenHonest), a settled winner among cards stays the winner        *)
(* (RankingSettled), and every deposit is in one place, which a division   *)
(* does not multiply and a remedy empties (DepositsInOnePlace).            *)
(***************************************************************************)
EXTENDS Planners_proofs, Forecasts, Figures

(***************************************************************************)
(* Sums of amounts.                                                        *)
(***************************************************************************)
LEMMA ProductGrows ==
  ASSUME NEW c \in Nat, NEW x \in Int, NEW y \in Int, x <= y
  PROVE c * x \in Int /\ c * x <= c * y
OBVIOUS

LEMMA TenfoldAdds ==
  ASSUME NEW p \in Int, NEW q \in Int, NEW x \in Int, NEW y \in Int, 10 * p <= q, 10 * x <= y
  PROVE 10 * (p + x) <= q + y
OBVIOUS

LEMMA SumTenfold ==
  ASSUME NEW n \in Nat, NEW a \in [1..n -> Int], NEW b \in [1..n -> Int],
         \A i \in 1..n : 10 * a[i] <= b[i]
  PROVE 10 * SumOf(a) <= SumOf(b)
<1>1. PICK f \in [0..n -> Int] : /\ f[0] = 0 /\ SumOf(a) = f[n]
                                 /\ \A k \in 1..n : f[k] = f[k - 1] + a[k]
  BY SumTrace
<1>2. PICK g \in [0..n -> Int] : /\ g[0] = 0 /\ SumOf(b) = g[n]
                                 /\ \A k \in 1..n : g[k] = g[k - 1] + b[k]
  BY SumTrace
<1> DEFINE Done == {k \in Nat : k <= n => 10 * f[k] <= g[k]}
<1>3. 0 \in Done
  BY <1>1, <1>2
<1>4. ASSUME NEW k \in Nat, k \in Done PROVE k + 1 \in Done
  <2>1. SUFFICES ASSUME k + 1 <= n PROVE 10 * f[k + 1] <= g[k + 1]
    OBVIOUS
  <2>2. /\ k \in 0..n /\ k + 1 \in 1..n /\ (k + 1) - 1 = k
        /\ 10 * f[k] <= g[k]
    BY <1>4, <2>1
  <2>3. f[k + 1] = f[k] + a[k + 1] /\ g[k + 1] = g[k] + b[k + 1]
    BY <1>1, <1>2, <2>2
  <2>4. 10 * a[k + 1] <= b[k + 1] /\ a[k + 1] \in Int /\ b[k + 1] \in Int
        /\ f[k] \in Int /\ g[k] \in Int
    BY <2>2
  <2>5. 10 * (f[k] + a[k + 1]) <= g[k] + b[k + 1]
    BY <2>2, <2>4, TenfoldAdds
  <2>6. QED
    BY <2>3, <2>5
<1>5. Nat \subseteq Done
  <2> HIDE DEF Done
  <2>1. QED
    BY <1>3, <1>4, SetInduction
<1>6. QED
  BY <1>1, <1>2, <1>5

Priced(list, n) == DOMAIN list = 1..n /\ \A k \in 1..n : list[k].amount \in Int

LEMMA AmountType ==
  ASSUME NEW n \in Nat, NEW list, Priced(list, n), NEW some
  PROVE AmountOf(list, some) \in Int
<1> DEFINE a == [k \in 1..n |-> IF k \in some THEN list[k].amount ELSE 0]
<1>1. a \in [1..n -> Int]
  BY DEF Priced
<1>2. AmountOf(list, some) = SumOf(a)
  BY DEF AmountOf, Priced
<1> HIDE DEF a
<1>3. QED
  BY <1>1, <1>2, SumType

LEMMA AmountGrows ==
  ASSUME NEW n \in Nat, NEW list, Priced(list, n), NEW some, NEW more,
         \A k \in 1..n : /\ k \in more \ some => list[k].amount >= 0
                         /\ k \in some \ more => list[k].amount <= 0
  PROVE AmountOf(list, some) <= AmountOf(list, more)
<1> DEFINE a == [k \in 1..n |-> IF k \in some THEN list[k].amount ELSE 0]
           b == [k \in 1..n |-> IF k \in more THEN list[k].amount ELSE 0]
<1>1. a \in [1..n -> Int] /\ b \in [1..n -> Int]
  BY DEF Priced
<1>2. AmountOf(list, some) = SumOf(a) /\ AmountOf(list, more) = SumOf(b)
  BY DEF AmountOf, Priced
<1>3. \A k \in 1..n : a[k] <= b[k]
  BY DEF Priced
<1> HIDE DEF a, b
<1>4. QED
  BY <1>1, <1>2, <1>3, SumMonotone

LEMMA AmountSplits ==
  ASSUME NEW n \in Nat, NEW list, Priced(list, n), NEW some, NEW others, NEW all,
         some \cap others = {}, all = some \union others
  PROVE AmountOf(list, all) = AmountOf(list, some) + AmountOf(list, others)
<1> DEFINE a == [k \in 1..n |-> IF k \in some THEN list[k].amount ELSE 0]
           b == [k \in 1..n |-> IF k \in others THEN list[k].amount ELSE 0]
           c == [k \in 1..n |-> IF k \in all THEN list[k].amount ELSE 0]
<1>1. a \in [1..n -> Int] /\ b \in [1..n -> Int] /\ c \in [1..n -> Int]
  BY DEF Priced
<1>2. /\ AmountOf(list, some) = SumOf(a) /\ AmountOf(list, others) = SumOf(b)
      /\ AmountOf(list, all) = SumOf(c)
  BY DEF AmountOf, Priced
<1>3. \A k \in 1..n : c[k] = a[k] + b[k]
  BY DEF Priced
<1> HIDE DEF a, b, c
<1>4. SumOf(c) = SumOf(a) + SumOf(b)
  BY <1>1, <1>3, SumAdds
<1>5. QED
  BY <1>2, <1>4

LEMMA AmountFalls ==
  ASSUME NEW n \in Nat, NEW list, Priced(list, n), NEW some, NEW all,
         some \subseteq all, \A k \in 1..n : k \in some => list[k].amount <= 0
  PROVE AmountOf(list, some) <= 0
<1> DEFINE a == [k \in 1..n |-> IF k \in some THEN list[k].amount ELSE 0]
           z == [k \in 1..n |-> 0]
<1>1. a \in [1..n -> Int] /\ z \in [1..n -> Int] /\ \A k \in 1..n : z[k] = 0
  BY DEF Priced
<1>2. AmountOf(list, some) = SumOf(a)
  BY DEF AmountOf, Priced
<1>3. \A k \in 1..n : a[k] <= z[k]
  BY DEF Priced
<1> HIDE DEF a, z
<1>4. SumOf(z) = 0 /\ SumOf(a) \in Int
  BY <1>1, SumOfNone, SumType
<1>5. SumOf(a) <= SumOf(z)
  BY <1>1, <1>3, SumMonotone
<1>6. QED
  BY <1>2, <1>4, <1>5

(***************************************************************************)
(* The lowest of a window's balances, and the last of some days.           *)
(***************************************************************************)
LEMMA LowPointIs ==
  ASSUME NEW a \in Int, NEW m \in Nat, NEW f \in [a..(a + m) -> Int]
  PROVE LowPoint(f) \in Int /\ \A d \in a..(a + m) : LowPoint(f) <= f[d]
<1> DEFINE Done == {k \in Nat : k <= m => \E d \in a..(a + k) : \A e \in a..(a + k) : f[d] <= f[e]}
<1>1. 0 \in Done
  <2>1. a..(a + 0) = {a} /\ a \in a..(a + m)
    OBVIOUS
  <2>2. f[a] \in Int
    BY <2>1
  <2>3. QED
    BY <2>1, <2>2
<1>2. ASSUME NEW k \in Nat, k \in Done PROVE k + 1 \in Done
  <2>1. SUFFICES ASSUME k + 1 <= m
                 PROVE  \E d \in a..(a + (k + 1)) : \A e \in a..(a + (k + 1)) : f[d] <= f[e]
    OBVIOUS
  <2>2. PICK d \in a..(a + k) : \A e \in a..(a + k) : f[d] <= f[e]
    BY <1>2, <2>1
  <2> DEFINE b == a + (k + 1)
  <2>3. /\ \A e \in a..b : e = b \/ e \in a..(a + k)
        /\ d \in a..b /\ b \in a..b
        /\ \A e \in a..b : f[e] \in Int
    BY <2>1
  <2> HIDE DEF b
  <2>4. CASE f[d] <= f[b]
    <3>1. f[b] <= f[b]
      BY <2>3
    <3>2. QED
      BY <2>2, <2>3, <2>4, <3>1 DEF b
  <2>5. CASE f[b] <= f[d]
    <3>1. \A e \in a..b : f[b] <= f[e]
      <4>1. f[b] \in Int /\ f[d] \in Int
        BY <2>3
      <4>2. ASSUME NEW e \in a..b PROVE f[b] <= f[e]
        <5>1. CASE e = b
          BY <4>1, <5>1
        <5>2. CASE e \in a..(a + k)
          <6>1. f[d] <= f[e] /\ f[e] \in Int
            BY <2>2, <2>3, <5>2
          <6>2. QED
            BY <4>1, <6>1, <2>5
        <5>3. QED
          BY <2>3, <5>1, <5>2
      <4>3. QED
        BY <4>2
    <3>2. QED
      BY <2>3, <3>1 DEF b
  <2>6. f[d] <= f[b] \/ f[b] <= f[d]
    <3>1. f[b] \in Int /\ f[d] \in Int
      BY <2>3
    <3>2. QED
      BY <3>1
  <2>7. QED
    BY <2>4, <2>5, <2>6
<1>3. Nat \subseteq Done
  <2> HIDE DEF Done
  <2>1. QED
    BY <1>1, <1>2, SetInduction
<1>4. m \in Done
  <2> HIDE DEF Done
  <2>1. QED
    BY <1>3
<1>5. PICK d \in a..(a + m) : \A e \in a..(a + m) : f[d] <= f[e]
  <2>1. m <= m
    OBVIOUS
  <2>2. QED
    BY <1>4, <2>1
<1>6. DOMAIN f = a..(a + m) /\ f[d] \in {f[e] : e \in DOMAIN f}
  BY <1>5
<1>7. LowPoint(f) \in {f[e] : e \in DOMAIN f} /\ \A e \in DOMAIN f : LowPoint(f) <= f[e]
  BY <1>5, <1>6 DEF LowPoint
<1>8. QED
  BY <1>6, <1>7

LEMMA LastOnIs ==
  ASSUME NEW a \in Int, NEW m \in Nat, NEW dates \in SUBSET (a..(a + m)), dates # {}
  PROVE LastOn(dates) \in dates /\ \A d \in dates : d <= LastOn(dates)
<1> DEFINE Done == {k \in Nat : \A T \in SUBSET (a..(a + k)) :
                        T # {} => \E d \in T : \A e \in T : e <= d}
<1>1. 0 \in Done
  <2>1. a..(a + 0) = {a}
    OBVIOUS
  <2>2. ASSUME NEW T \in SUBSET (a..(a + 0)), T # {} PROVE \E d \in T : \A e \in T : e <= d
    <3>1. \A e \in T : e = a
      BY <2>1, <2>2
    <3>2. PICK d \in T : TRUE
      BY <2>2
    <3>3. d = a /\ a <= a
      BY <3>1, <3>2
    <3>4. QED
      BY <3>1, <3>3
  <2>3. QED
    BY <2>2
<1>2. ASSUME NEW k \in Nat, k \in Done PROVE k + 1 \in Done
  <2>1. SUFFICES ASSUME NEW T \in SUBSET (a..(a + (k + 1))), T # {}
                 PROVE \E d \in T : \A e \in T : e <= d
    OBVIOUS
  <2>2. CASE a + (k + 1) \in T
    BY <2>2
  <2>3. CASE a + (k + 1) \notin T
    <3>1. T \in SUBSET (a..(a + k))
      BY <2>3
    <3>2. QED
      BY <3>1, <1>2, <2>1
  <2>4. QED
    BY <2>2, <2>3
<1>3. Nat \subseteq Done
  <2> HIDE DEF Done
  <2>1. QED
    BY <1>1, <1>2, SetInduction
<1>4. \E d \in dates : \A e \in dates : e <= d
  BY <1>3
<1>5. QED
  BY <1>4 DEF LastOn

(***************************************************************************)
(* The dates of a bill lie in the years of the run.                        *)
(***************************************************************************)
LEMMA DaysAreFinite == AllDays \subseteq Int /\ IsFiniteSet(AllDays)
<1>1. Day(FirstYear, Jan, 1) \in Int /\ Day(LastYear, Dec, 31) \in Int
  <2>1. /\ Jan \in 1..12 /\ Dec \in 1..12
        /\ FirstYear \in Int /\ LastYear \in Int /\ 1 \in Int /\ 31 \in Int
    BY YearsAssumption DEF Jan, Dec
  <2>2. QED
    BY <2>1, DayType
<1> DEFINE u == Day(FirstYear, Jan, 1)
           v == Day(LastYear, Dec, 31)
<1>2. AllDays = u..v
  BY DEF AllDays
<1> HIDE DEF u, v
<1>3. u \in Int /\ v \in Int
  BY <1>1 DEF u, v
<1>4. QED
  BY <1>2, <1>3, FS_Interval

LEMMA BillDatesIn ==
  ASSUME NEW s, NEW due, NEW start, NEW until, NEW open \in SUBSET AllDays
  PROVE BillDates(s, due, start, until, open) \subseteq AllDays
BY DEF BillDates

LEMMA CountsOf ==
  ASSUME NEW S \in SUBSET AllDays
  PROVE IsFiniteSet(S) /\ Cardinality(S) \in Nat
BY DaysAreFinite, FS_Subset, FS_CardinalityType

LEMMA CountsGrow ==
  ASSUME NEW S \in SUBSET AllDays, NEW T \in SUBSET S
  PROVE Cardinality(T) <= Cardinality(S)
BY CountsOf, FS_Subset

LEMMA CountsSplit ==
  ASSUME NEW S \in SUBSET AllDays, NEW T \in SUBSET S
  PROVE Cardinality(S) = Cardinality(T) + Cardinality(S \ T)
<1>1. IsFiniteSet(S) /\ S \cap T = T
  BY CountsOf
<1>2. Cardinality(S \ T) = Cardinality(S) - Cardinality(T)
  BY <1>1, FS_Difference
<1>3. Cardinality(S) \in Nat /\ Cardinality(T) \in Nat
  BY CountsOf
<1>4. QED
  BY <1>2, <1>3

(***************************************************************************)
(* What is left of a day in every case: the balance with the deposits that *)
(* are sure and the pending transactions up to it, when every bill owed by *)
(* then is paid at its highest price.                                      *)
(***************************************************************************)
Worst(b) == b.amount + IF b.confirmed THEN 0 ELSE b.amount \div 10
Obliged(l, n) == BillDates(l.bills[n].schedule, l.bills[n].dueDate, l.asOf, l.lastDay, {})
Owed(l, paid, n, day) == {d \in Obliged(l, n) \ paid[n] : d <= day}
Certain(l, t, day) ==
    {k \in DOMAIN l.deposits :
        /\ t <= l.deposits[k].date /\ l.deposits[k].date <= day
        /\ l.deposits[k].received /\ ~l.deposits[k].posted}
Settling(l, t, day) ==
    {k \in DOMAIN l.pending :
        ~l.pending[k].reflected /\ t <= l.pending[k].date /\ l.pending[k].date <= day}
Owing(l, paid, day) ==
    [n \in DOMAIN l.bills |-> Cardinality(Owed(l, paid, n, day)) * Worst(l.bills[n])]
Margin(l, t, cash, paid, day) ==
    cash + AmountOf(l.deposits, Certain(l, t, day)) + AmountOf(l.pending, Settling(l, t, day))
         - SumOf(Owing(l, paid, day))

Funding(l) == [DOMAIN l.bills -> SUBSET AllDays]

LEMMA ListOf ==
  ASSUME NEW T, NEW list \in Seq(T)
  PROVE /\ Len(list) \in Nat /\ DOMAIN list = 1..Len(list)
        /\ \A k \in 1..Len(list) : list[k] \in T
OBVIOUS

\* The types of an account.
LEMMA AccountTypes ==
  ASSUME NEW l, LedgerAmounts(l)
  PROVE /\ Len(l.bills) \in Nat /\ DOMAIN l.bills = 1..Len(l.bills)
        /\ Len(l.deposits) \in Nat /\ Priced(l.deposits, Len(l.deposits))
        /\ Len(l.pending) \in Nat /\ Priced(l.pending, Len(l.pending))
        /\ \A k \in 1..Len(l.deposits) : /\ l.deposits[k].amount \in Nat
                                         /\ l.deposits[k].date \in Int
        /\ \A k \in 1..Len(l.pending) : l.pending[k].date \in Int
        /\ \A n \in 1..Len(l.bills) : /\ l.bills[n].amount \in Nat
                                      /\ l.bills[n].confirmed \in BOOLEAN
<1>1. /\ l.deposits \in Seq([date : Int, amount : Nat, received : BOOLEAN, posted : BOOLEAN])
      /\ l.pending \in Seq([date : Int, amount : Int, reflected : BOOLEAN])
      /\ l.bills \in Seq([schedule : {b.schedule : b \in ToSet(l.bills)},
                          dueDate : Int, amount : Nat \ {0}, confirmed : BOOLEAN])
  BY DEF LedgerAmounts
<1>2. /\ Len(l.deposits) \in Nat /\ DOMAIN l.deposits = 1..Len(l.deposits)
      /\ \A k \in 1..Len(l.deposits) :
            l.deposits[k] \in [date : Int, amount : Nat, received : BOOLEAN, posted : BOOLEAN]
  BY <1>1, ListOf
<1>3. /\ Len(l.pending) \in Nat /\ DOMAIN l.pending = 1..Len(l.pending)
      /\ \A k \in 1..Len(l.pending) :
            l.pending[k] \in [date : Int, amount : Int, reflected : BOOLEAN]
  BY <1>1, ListOf
<1>4. /\ Len(l.bills) \in Nat /\ DOMAIN l.bills = 1..Len(l.bills)
      /\ \A n \in 1..Len(l.bills) :
            l.bills[n] \in [schedule : {b.schedule : b \in ToSet(l.bills)},
                            dueDate : Int, amount : Nat \ {0}, confirmed : BOOLEAN]
  BY <1>1, ListOf
<1>5. Priced(l.deposits, Len(l.deposits)) /\ Priced(l.pending, Len(l.pending))
  BY <1>2, <1>3 DEF Priced
<1>6. \A n \in 1..Len(l.bills) : l.bills[n].amount \in Nat /\ l.bills[n].confirmed \in BOOLEAN
  BY <1>4
<1>7. QED
  BY <1>2, <1>3, <1>4, <1>5, <1>6

LEMMA WorstType ==
  ASSUME NEW b, b.amount \in Nat
  PROVE Worst(b) \in Nat /\ b.amount <= Worst(b) /\ b.amount \div 10 \in Nat
<1>1. b.amount \div 10 \in Nat
  BY Quotient
<1>2. QED
  BY <1>1 DEF Worst

LEMMA OwingType ==
  ASSUME NEW l, LedgerAmounts(l), NEW paid \in Funding(l), NEW day \in Int
  PROVE /\ Owing(l, paid, day) \in [1..Len(l.bills) -> Nat]
        /\ SumOf(Owing(l, paid, day)) \in Nat
        /\ \A n \in 1..Len(l.bills) : Owed(l, paid, n, day) \subseteq AllDays
<1> DEFINE N == Len(l.bills)
<1>1. N \in Nat /\ DOMAIN l.bills = 1..N /\ \A n \in 1..N : l.bills[n].amount \in Nat
  BY AccountTypes
<1>2. ASSUME NEW n \in 1..N
      PROVE /\ Owed(l, paid, n, day) \subseteq AllDays
            /\ Cardinality(Owed(l, paid, n, day)) * Worst(l.bills[n]) \in Nat
  <2>1. Obliged(l, n) \subseteq AllDays
    BY BillDatesIn DEF Obliged
  <2>2. Owed(l, paid, n, day) \subseteq AllDays
    BY <2>1 DEF Owed
  <2>3. Cardinality(Owed(l, paid, n, day)) \in Nat /\ Worst(l.bills[n]) \in Nat
    BY <1>1, <2>2, CountsOf, WorstType
  <2>4. QED
    BY <2>2, <2>3, Product
<1> HIDE DEF N
<1>3. Owing(l, paid, day) \in [1..N -> Nat]
  BY <1>1, <1>2 DEF Owing
<1>4. QED
  BY <1>1, <1>2, <1>3, SumOfAmounts DEF N

LEMMA MarginType ==
  ASSUME NEW l, LedgerAmounts(l), NEW paid \in Funding(l), NEW t \in Int, NEW cash \in Int,
         NEW day \in Int
  PROVE /\ Margin(l, t, cash, paid, day) \in Int
        /\ AmountOf(l.deposits, Certain(l, t, day)) \in Int
        /\ AmountOf(l.pending, Settling(l, t, day)) \in Int
<1>1. /\ AmountOf(l.deposits, Certain(l, t, day)) \in Int
      /\ AmountOf(l.pending, Settling(l, t, day)) \in Int
  BY AccountTypes, AmountType
<1>2. SumOf(Owing(l, paid, day)) \in Nat
  BY OwingType
<1>3. QED
  BY <1>1, <1>2 DEF Margin

(***************************************************************************)
(* The end of a day.  What it pays was owed, at no more than the highest   *)
(* price, and every deposit that is sure lands: no margin shrinks.         *)
(***************************************************************************)
Bought(l, now, price) == [n \in DOMAIN l.bills |-> Cardinality(now[n]) * price[n]]
After(l, t, cash, landing, now, price) ==
    cash + AmountOf(l.deposits, landing) + AmountOf(l.pending, Settling(l, t, t))
         - SumOf(Bought(l, now, price))
PaidWith(l, paid, now) == [n \in DOMAIN l.bills |-> paid[n] \union now[n]]

LEMMA BoughtType ==
  ASSUME NEW l, LedgerAmounts(l), NEW now \in Funding(l), NEW price \in [DOMAIN l.bills -> Nat]
  PROVE /\ Bought(l, now, price) \in [1..Len(l.bills) -> Nat]
        /\ SumOf(Bought(l, now, price)) \in Nat
<1> DEFINE N == Len(l.bills)
<1>1. N \in Nat /\ DOMAIN l.bills = 1..N
  BY AccountTypes
<1>2. ASSUME NEW n \in 1..N PROVE Cardinality(now[n]) * price[n] \in Nat
  <2>1. Cardinality(now[n]) \in Nat /\ price[n] \in Nat
    BY <1>1, CountsOf DEF Funding
  <2>2. QED
    BY <2>1, Product
<1> HIDE DEF N
<1>3. Bought(l, now, price) \in [1..N -> Nat]
  BY <1>1, <1>2 DEF Bought
<1>4. QED
  BY <1>1, <1>3, SumOfAmounts DEF N

LEMMA AfterType ==
  ASSUME NEW l, LedgerAmounts(l), NEW t \in Int, NEW cash \in Int, NEW landing,
         NEW now \in Funding(l), NEW price \in [DOMAIN l.bills -> Nat], NEW paid \in Funding(l)
  PROVE /\ After(l, t, cash, landing, now, price) \in Int
        /\ PaidWith(l, paid, now) \in Funding(l)
<1>1. AmountOf(l.deposits, landing) \in Int /\ AmountOf(l.pending, Settling(l, t, t)) \in Int
  BY AccountTypes, AmountType
<1>2. SumOf(Bought(l, now, price)) \in Nat
  BY BoughtType
<1>3. After(l, t, cash, landing, now, price) \in Int
  BY <1>1, <1>2 DEF After
<1>4. PaidWith(l, paid, now) \in Funding(l)
  BY DEF PaidWith, Funding
<1>5. QED
  BY <1>3, <1>4

LEMMA BillsShrink ==
  ASSUME NEW l, LedgerAmounts(l), NEW t \in Int, NEW paid \in Funding(l),
         NEW now \in Funding(l), \A n \in DOMAIN l.bills : now[n] \subseteq Owed(l, paid, n, t),
         NEW price \in [DOMAIN l.bills -> Nat],
         \A n \in DOMAIN l.bills : price[n] <= Worst(l.bills[n]),
         NEW day \in Int, t <= day
  PROVE SumOf(Bought(l, now, price)) + SumOf(Owing(l, PaidWith(l, paid, now), day))
          <= SumOf(Owing(l, paid, day))
<1> DEFINE N == Len(l.bills)
           paid2 == PaidWith(l, paid, now)
           a == Bought(l, now, price)
           b == Owing(l, paid2, day)
           c == Owing(l, paid, day)
           both == [n \in 1..N |-> a[n] + b[n]]
<1>1. N \in Nat /\ DOMAIN l.bills = 1..N /\ \A n \in 1..N : l.bills[n].amount \in Nat
  BY AccountTypes
<1>2. paid2 \in Funding(l)
  BY DEF PaidWith, Funding
<1>3. a \in [1..N -> Nat] /\ b \in [1..N -> Nat] /\ c \in [1..N -> Nat]
  BY <1>2, BoughtType, OwingType
<1>4. ASSUME NEW n \in 1..N PROVE a[n] + b[n] <= c[n]
  <2> DEFINE old == Owed(l, paid, n, day)
             new == Owed(l, paid2, n, day)
             w == Worst(l.bills[n])
  <2>1. old \subseteq AllDays
    BY OwingType
  <2>2. now[n] \subseteq old
    <3>1. \A d \in Owed(l, paid, n, t) : d \in Int
      BY OwingType, DaysAreFinite
    <3>2. Owed(l, paid, n, t) \subseteq old
      BY <3>1 DEF Owed
    <3>3. QED
      BY <1>1, <3>2
  <2>3. new = old \ now[n]
    <3>1. paid2[n] = paid[n] \union now[n]
      BY <1>1 DEF PaidWith
    <3>2. QED
      BY <3>1 DEF Owed
  <2>4. /\ a[n] = Cardinality(now[n]) * price[n]
        /\ b[n] = Cardinality(new) * w
        /\ c[n] = Cardinality(old) * w
    BY <1>1 DEF Bought, Owing
  <2>5. /\ Cardinality(now[n]) \in Nat /\ Cardinality(new) \in Nat
        /\ Cardinality(old) = Cardinality(now[n]) + Cardinality(new)
    BY <2>1, <2>2, <2>3, CountsOf, CountsSplit
  <2>6. price[n] \in Nat /\ w \in Nat /\ price[n] <= w
    BY <1>1, WorstType
  <2> HIDE DEF old, new, w, a, b, c
  <2>7. /\ Cardinality(now[n]) * price[n] <= Cardinality(now[n]) * w
        /\ Cardinality(now[n]) * price[n] \in Int
    BY <2>5, <2>6, ProductGrows
  <2>8. Cardinality(old) * w = Cardinality(now[n]) * w + Cardinality(new) * w
    BY <2>5, <2>6
  <2>9. Cardinality(now[n]) * w \in Nat /\ Cardinality(new) * w \in Nat
    BY <2>5, <2>6, Product
  <2>10. QED
    BY <2>4, <2>7, <2>8, <2>9
<1> HIDE DEF N, paid2, a, b, c
<1>5. /\ a \in [1..N -> Int] /\ b \in [1..N -> Int] /\ c \in [1..N -> Int]
      /\ both \in [1..N -> Int] /\ \A n \in 1..N : both[n] = a[n] + b[n]
  BY <1>3
<1>6. \A n \in 1..N : both[n] <= c[n]
  BY <1>4
<1> HIDE DEF both
<1>7. SumOf(both) = SumOf(a) + SumOf(b)
  BY <1>1, <1>5, SumAdds
<1>8. SumOf(both) <= SumOf(c)
  BY <1>1, <1>5, <1>6, SumMonotone
<1>9. SumOf(a) + SumOf(b) <= SumOf(c)
  BY <1>7, <1>8
<1>10. QED
  BY <1>9 DEF paid2, a, b, c

LEMMA DayKeepsMargins ==
  ASSUME NEW l, LedgerAmounts(l), NEW t \in Int, NEW cash \in Int, NEW paid \in Funding(l),
         NEW now \in Funding(l), \A n \in DOMAIN l.bills : now[n] \subseteq Owed(l, paid, n, t),
         NEW price \in [DOMAIN l.bills -> Nat],
         \A n \in DOMAIN l.bills : price[n] <= Worst(l.bills[n]),
         NEW landing \in SUBSET DOMAIN l.deposits, Certain(l, t, t) \subseteq landing,
         NEW day \in Int, t <= day
  PROVE Margin(l, t, cash, paid, day)
          <= Margin(l, t + 1, After(l, t, cash, landing, now, price), PaidWith(l, paid, now), day)
<1> DEFINE D == Len(l.deposits)
           P == Len(l.pending)
<1>1. /\ D \in Nat /\ Priced(l.deposits, D) /\ DOMAIN l.deposits = 1..D
      /\ \A k \in 1..D : l.deposits[k].amount \in Nat /\ l.deposits[k].date \in Int
  BY AccountTypes DEF Priced
<1>2. /\ P \in Nat /\ Priced(l.pending, P) /\ DOMAIN l.pending = 1..P
      /\ \A k \in 1..P : l.pending[k].date \in Int
  BY AccountTypes DEF Priced
<1> HIDE DEF D, P
<1>3. AmountOf(l.deposits, Certain(l, t, day))
        = AmountOf(l.deposits, Certain(l, t, t)) + AmountOf(l.deposits, Certain(l, t + 1, day))
  <2>1. Certain(l, t, t) \cap Certain(l, t + 1, day) = {}
    BY <1>1 DEF Certain
  <2>2. Certain(l, t, day) = Certain(l, t, t) \union Certain(l, t + 1, day)
    BY <1>1 DEF Certain
  <2>3. QED
    BY <1>1, <2>1, <2>2, AmountSplits
<1>4. AmountOf(l.pending, Settling(l, t, day))
        = AmountOf(l.pending, Settling(l, t, t)) + AmountOf(l.pending, Settling(l, t + 1, day))
  <2>1. Settling(l, t, t) \cap Settling(l, t + 1, day) = {}
    BY <1>2 DEF Settling
  <2>2. Settling(l, t, day) = Settling(l, t, t) \union Settling(l, t + 1, day)
    BY <1>2 DEF Settling
  <2>3. QED
    BY <1>2, <2>1, <2>2, AmountSplits
<1>5. AmountOf(l.deposits, Certain(l, t, t)) <= AmountOf(l.deposits, landing)
  <2>1. \A k \in 1..D : l.deposits[k].amount >= 0
    BY <1>1
  <2>2. QED
    BY <1>1, <2>1, AmountGrows
<1>6. SumOf(Bought(l, now, price)) + SumOf(Owing(l, PaidWith(l, paid, now), day))
        <= SumOf(Owing(l, paid, day))
  BY BillsShrink
<1> DEFINE d0 == AmountOf(l.deposits, Certain(l, t, t))
           d1 == AmountOf(l.deposits, Certain(l, t + 1, day))
           dl == AmountOf(l.deposits, landing)
           p0 == AmountOf(l.pending, Settling(l, t, t))
           p1 == AmountOf(l.pending, Settling(l, t + 1, day))
           b0 == SumOf(Bought(l, now, price))
           o0 == SumOf(Owing(l, paid, day))
           o1 == SumOf(Owing(l, PaidWith(l, paid, now), day))
<1>7. d0 \in Int /\ d1 \in Int /\ dl \in Int /\ p0 \in Int /\ p1 \in Int
  BY <1>1, <1>2, AmountType
<1>8. b0 \in Nat /\ o0 \in Nat /\ o1 \in Nat
  BY AfterType, BoughtType, OwingType
<1>9. /\ Margin(l, t, cash, paid, day) = cash + (d0 + d1) + (p0 + p1) - o0
      /\ After(l, t, cash, landing, now, price) = cash + dl + p0 - b0
      /\ Margin(l, t + 1, After(l, t, cash, landing, now, price), PaidWith(l, paid, now), day)
           = After(l, t, cash, landing, now, price) + d1 + p1 - o1
      /\ d0 <= dl /\ b0 + o1 <= o0
  BY <1>3, <1>4, <1>5, <1>6 DEF Margin, After
<1> HIDE DEF d0, d1, dl, p0, p1, b0, o0, o1
<1>10. QED
  BY <1>7, <1>8, <1>9

\* The day's own margin is what the balance does not fall below.
LEMMA DayKeepsBalance ==
  ASSUME NEW l, LedgerAmounts(l), NEW t \in Int, NEW cash \in Int, NEW paid \in Funding(l),
         NEW now \in Funding(l), \A n \in DOMAIN l.bills : now[n] \subseteq Owed(l, paid, n, t),
         NEW price \in [DOMAIN l.bills -> Nat],
         \A n \in DOMAIN l.bills : price[n] <= Worst(l.bills[n]),
         NEW landing \in SUBSET DOMAIN l.deposits, Certain(l, t, t) \subseteq landing
  PROVE Margin(l, t, cash, paid, t) <= After(l, t, cash, landing, now, price)
<1> DEFINE cash2 == After(l, t, cash, landing, now, price)
           paid2 == PaidWith(l, paid, now)
<1>1. cash2 \in Int /\ paid2 \in Funding(l)
  BY AfterType
<1>2. Margin(l, t, cash, paid, t) <= Margin(l, t + 1, cash2, paid2, t)
  BY DayKeepsMargins
<1> HIDE DEF cash2, paid2
<1>3. AmountOf(l.deposits, Certain(l, t + 1, t)) <= 0
  <2>1. \A k \in DOMAIN l.deposits : l.deposits[k].date \in Int
    BY AccountTypes DEF Priced
  <2>2. Certain(l, t + 1, t) = {}
    BY <2>1 DEF Certain
  <2>3. QED
    BY <2>2, AccountTypes, AmountFalls
<1>4. AmountOf(l.pending, Settling(l, t + 1, t)) <= 0
  <2>1. \A k \in DOMAIN l.pending : l.pending[k].date \in Int
    BY AccountTypes DEF Priced
  <2>2. Settling(l, t + 1, t) = {}
    BY <2>1 DEF Settling
  <2>3. QED
    BY <2>2, AccountTypes, AmountFalls
<1>5. /\ SumOf(Owing(l, paid2, t)) \in Nat
      /\ AmountOf(l.deposits, Certain(l, t + 1, t)) \in Int
      /\ AmountOf(l.pending, Settling(l, t + 1, t)) \in Int
  <2>1. SumOf(Owing(l, paid2, t)) \in Nat
    BY <1>1, OwingType
  <2>2. /\ AmountOf(l.deposits, Certain(l, t + 1, t)) \in Int
        /\ AmountOf(l.pending, Settling(l, t + 1, t)) \in Int
    BY AccountTypes, AmountType
  <2>3. QED
    BY <2>1, <2>2
<1> DEFINE d == AmountOf(l.deposits, Certain(l, t + 1, t))
           q == AmountOf(l.pending, Settling(l, t + 1, t))
           o == SumOf(Owing(l, paid2, t))
<1>6. Margin(l, t + 1, cash2, paid2, t) <= cash2
  <2>1. Margin(l, t + 1, cash2, paid2, t) = cash2 + d + q - o
    BY DEF Margin
  <2>2. d \in Int /\ q \in Int /\ o \in Nat /\ d <= 0 /\ q <= 0
    BY <1>3, <1>4, <1>5
  <2> HIDE DEF d, q, o
  <2>3. QED
    BY <1>1, <2>1, <2>2
<1>7. Margin(l, t, cash, paid, t) \in Int /\ Margin(l, t + 1, cash2, paid2, t) \in Int
  BY <1>1, MarginType
<1>8. QED
  BY <1>1, <1>2, <1>6, <1>7 DEF cash2

(***************************************************************************)
(* The account, and what its bills, deposits and forecast are.             *)
(***************************************************************************)
Accounted ==
    /\ LedgerAmounts(ledger) /\ today \in Int /\ available \in Int
    /\ funded \in Funding(ledger) /\ recorded \in Funding(ledger)
    /\ promise.since \in Int /\ promise.through \in Int /\ promise.floor \in Int
    /\ promise.sure \in BOOLEAN

LEMMA FloorTypes ==
  ASSUME Accounted
  PROVE /\ SumOf(ledger.protected) \in Int /\ SumOf(ledger.floors) \in Int
        /\ ledger.minimum \in Int
<1>1. /\ ledger.protected \in Seq(Int) /\ ledger.floors \in Seq(Int) /\ ledger.minimum \in Int
  BY DEF Accounted, LedgerAmounts
<1>2. /\ Len(ledger.protected) \in Nat /\ ledger.protected \in [1..Len(ledger.protected) -> Int]
      /\ Len(ledger.floors) \in Nat /\ ledger.floors \in [1..Len(ledger.floors) -> Int]
  BY <1>1
<1>3. QED
  BY <1>1, <1>2, SumType

LEMMA UnpaidType ==
  ASSUME Accounted, NEW n \in 1..Len(ledger.bills), NEW days, NEW day
  PROVE /\ Unpaid(n, days, day) \subseteq AllDays
        /\ Cardinality(Unpaid(n, days, day)) \in Nat
<1>1. funded[n] \subseteq AllDays /\ recorded[n] \subseteq AllDays
  BY AccountTypes DEF Accounted, Funding
<1>2. Open(n, today) \subseteq AllDays
  BY <1>1 DEF Open
<1>3. DueDates(n, today, today + days) \subseteq AllDays
  BY <1>2, BillDatesIn DEF DueDates
<1>4. Unpaid(n, days, day) \subseteq AllDays
  BY <1>3 DEF Unpaid
<1>5. QED
  BY <1>4, CountsOf

Billed(days, day) ==
    [n \in DOMAIN ledger.bills |-> Cardinality(Unpaid(n, days, day)) * ledger.bills[n].amount]

LEMMA BilledType ==
  ASSUME Accounted, NEW days, NEW day
  PROVE /\ BillsBy(days, day) = SumOf(Billed(days, day))
        /\ Billed(days, day) \in [1..Len(ledger.bills) -> Nat]
        /\ BillsBy(days, day) \in Nat
<1> DEFINE N == Len(ledger.bills)
<1>1. N \in Nat /\ DOMAIN ledger.bills = 1..N /\ \A n \in 1..N : ledger.bills[n].amount \in Nat
  BY AccountTypes DEF Accounted
<1>2. ASSUME NEW n \in 1..N
      PROVE Cardinality(Unpaid(n, days, day)) * ledger.bills[n].amount \in Nat
  BY <1>1, UnpaidType, Product
<1>3. BillsBy(days, day) = SumOf(Billed(days, day))
  BY DEF BillsBy, Billed
<1> HIDE DEF N
<1>4. Billed(days, day) \in [1..N -> Nat]
  BY <1>1, <1>2 DEF Billed
<1>5. QED
  BY <1>1, <1>3, <1>4, SumOfAmounts DEF N

LEMMA ClosingType ==
  ASSUME Accounted, NEW days \in Nat
  PROVE Closing(days) \in [today..(today + days) -> Int]
<1>1. ASSUME NEW day
      PROVE /\ AmountOf(ledger.deposits, DepositsIn(today, day)) \in Int
            /\ AmountOf(ledger.pending, PendingIn(today, day)) \in Int
            /\ BillsBy(days, day) \in Nat
  BY AccountTypes, AmountType, BilledType DEF Accounted
<1>2. available \in Int
  BY DEF Accounted
<1>3. QED
  BY <1>1, <1>2 DEF Closing

\* Whatever is owed by a day of the window is in its forecast.
LEMMA OwedIsShown ==
  ASSUME Accounted, NEW n \in 1..Len(ledger.bills), NEW days \in Nat, InSight(n, days),
         NEW day \in today..(today + days), NEW by \in day..(today + days)
  PROVE /\ Owed(ledger, funded, n, day) \subseteq Unpaid(n, days, by)
        /\ Cardinality(Owed(ledger, funded, n, day)) \in Nat
        /\ Cardinality(Owed(ledger, funded, n, day)) <= Cardinality(Unpaid(n, days, by))
<1>1. today \in Int /\ LedgerAmounts(ledger) /\ funded \in Funding(ledger) /\ day \in Int
  BY DEF Accounted
<1>2. Owed(ledger, funded, n, day) \subseteq AllDays
  BY <1>1, OwingType
<1>3. ASSUME NEW d \in Owed(ledger, funded, n, day) PROVE d \in Unpaid(n, days, by)
  <2>1. d \in Int
    BY <1>2, DaysAreFinite
  <2>2. d \in Obligations(n) \ funded[n] /\ d <= day
    BY DEF Owed, Obliged, Obligations
  <2>3. d <= today + days /\ d <= by
    BY <1>1, <2>1, <2>2
  <2>4. d \in DueDates(n, today, today + days)
    BY <2>2, <2>3 DEF InSight
  <2>5. QED
    BY <2>2, <2>3, <2>4 DEF Unpaid
<1>4. QED
  BY <1>2, <1>3, CountsOf, CountsGrow, UnpaidType

(***************************************************************************)
(* The allowance.                                                          *)
(***************************************************************************)
\* When everything in the window is confirmed, no margin is below its balance.
LEMMA ExactBills ==
  ASSUME Accounted, Clear(AllowanceDays), AllowanceExact,
         NEW day \in today..(today + AllowanceDays)
  PROVE SumOf(Owing(ledger, funded, day)) <= BillsBy(AllowanceDays, day)
<1> DEFINE N == Len(ledger.bills)
           a == Owing(ledger, funded, day)
           b == Billed(AllowanceDays, day)
<1>1. /\ LedgerAmounts(ledger) /\ today \in Int /\ AllowanceDays \in Nat /\ funded \in Funding(ledger)
      /\ day \in Int
  BY WindowAssumption DEF Accounted
<1>2. N \in Nat /\ DOMAIN ledger.bills = 1..N /\ \A n \in 1..N : ledger.bills[n].amount \in Nat
  BY <1>1, AccountTypes
<1>3. a \in [1..N -> Nat] /\ b \in [1..N -> Nat] /\ BillsBy(AllowanceDays, day) = SumOf(b)
  BY <1>1, OwingType, BilledType
<1>4. ASSUME NEW n \in 1..N PROVE a[n] <= b[n]
  <2> DEFINE owes == Cardinality(Owed(ledger, funded, n, day))
             shown == Cardinality(Unpaid(n, AllowanceDays, day))
             price == ledger.bills[n].amount
             w == Worst(ledger.bills[n])
  <2>1. InSight(n, AllowanceDays)
    BY <1>2 DEF Clear
  <2>2. day \in day..(today + AllowanceDays) /\ today + AllowanceDays \in day..(today + AllowanceDays)
    BY <1>1
  <2>3. owes \in Nat /\ owes <= shown /\ shown \in Nat
    BY <2>1, <2>2, <1>1, OwedIsShown, UnpaidType
  <2>4. Owed(ledger, funded, n, day) \subseteq Unpaid(n, AllowanceDays, today + AllowanceDays)
    BY <2>1, <2>2, <1>1, OwedIsShown
  <2>5. a[n] = owes * w /\ b[n] = shown * price
    BY <1>2 DEF Owing, Billed
  <2>6. price \in Nat
    BY <1>2
  <2>7. CASE Owed(ledger, funded, n, day) = {}
    <3>1. owes = 0
      BY <2>7, FS_EmptySet
    <3>2. w \in Nat /\ shown * price \in Nat
      BY <2>3, <2>6, WorstType, Product
    <3>3. a[n] = 0
      BY <2>5, <3>1, <3>2
    <3>4. QED
      BY <2>5, <3>2, <3>3
  <2>8. CASE Owed(ledger, funded, n, day) # {}
    <3>1. ledger.bills[n].confirmed
      BY <2>4, <2>8, <1>2 DEF AllowanceExact
    <3>2. w = price
      BY <3>1, <2>6 DEF Worst
    <3>3. price * owes <= price * shown
      <4>1. price \in Nat /\ owes \in Int /\ shown \in Int /\ owes <= shown
        BY <2>3, <2>6
      <4> HIDE DEF price, owes, shown
      <4>2. QED
        BY <4>1, ProductGrows
    <3>4. QED
      BY <2>3, <2>5, <2>6, <3>2, <3>3
  <2>9. QED
    BY <2>7, <2>8
<1> HIDE DEF N, a, b
<1>5. SumOf(a) <= SumOf(b)
  <2>1. a \in [1..N -> Int] /\ b \in [1..N -> Int]
    BY <1>3
  <2>2. QED
    BY <1>2, <1>4, <2>1, SumMonotone
<1>6. QED
  BY <1>3, <1>5 DEF a

LEMMA AllowanceKeeps ==
  ASSUME Accounted, SpendingAllowance > 0, Clear(AllowanceDays), AllowanceExact,
         NEW day \in today..(today + AllowanceDays)
  PROVE /\ SpendingAllowance \in Int
        /\ SumOf(ledger.protected)
             <= Margin(ledger, today, available - SpendingAllowance, funded, day)
<1> DEFINE low == LowPoint(Closing(AllowanceDays))
           kept == SumOf(ledger.protected)
<1>1. AllowanceDays \in Nat /\ today \in Int /\ available \in Int /\ LedgerAmounts(ledger)
      /\ funded \in Funding(ledger) /\ day \in Int
  BY WindowAssumption DEF Accounted
<1>2. low \in Int /\ low <= Closing(AllowanceDays)[day]
  BY <1>1, ClosingType, LowPointIs
<1>3. kept \in Int
  BY FloorTypes
<1> HIDE DEF low, kept
<1>4. SpendingAllowance = low - kept
  <2>1. SpendingAllowance = ClampMinZero(low - kept)
    BY DEF SpendingAllowance, low, kept
  <2>2. QED
    BY <1>2, <1>3, <2>1 DEF ClampMinZero, Larger
<1>5. Certain(ledger, today, day) = DepositsIn(today, day)
  <2>1. ASSUME NEW k \in DepositsIn(today, day)
        PROVE ledger.deposits[k].received /\ ~ledger.deposits[k].posted
    <3>1. k \in DOMAIN ledger.deposits /\ ledger.deposits[k].date \in Int
          /\ today <= ledger.deposits[k].date /\ ledger.deposits[k].date <= day
      BY <1>1, AccountTypes DEF DepositsIn, Priced
    <3>2. k \in DepositsIn(today, today + AllowanceDays)
      BY <1>1, <3>1 DEF DepositsIn
    <3>3. ledger.deposits[k].received
      BY <3>2 DEF AllowanceExact
    <3>4. ~ledger.deposits[k].posted
      <4>1. ledger.deposits[k].posted => ledger.deposits[k].date < today
        BY <3>1 DEF Clear
      <4>2. QED
        BY <1>1, <3>1, <4>1
    <3>5. QED
      BY <3>3, <3>4
  <2>2. QED
    BY <2>1 DEF Certain, DepositsIn
<1>6. Settling(ledger, today, day) = PendingIn(today, day)
  <2>1. \A k \in DOMAIN ledger.pending : k \in Settling(ledger, today, day) <=> k \in PendingIn(today, day)
    BY DEF Settling, PendingIn
  <2>2. QED
    BY <2>1 DEF Settling, PendingIn
<1>7. SumOf(Owing(ledger, funded, day)) <= BillsBy(AllowanceDays, day)
  BY ExactBills
<1> DEFINE d == AmountOf(ledger.deposits, DepositsIn(today, day))
           q == AmountOf(ledger.pending, PendingIn(today, day))
           o == SumOf(Owing(ledger, funded, day))
           b == BillsBy(AllowanceDays, day)
<1>8. d \in Int /\ q \in Int /\ o \in Nat /\ b \in Nat
  BY <1>1, AccountTypes, AmountType, OwingType, BilledType
<1>9. Closing(AllowanceDays)[day] = available + d + q - b
  BY DEF Closing
<1>10. Margin(ledger, today, available - SpendingAllowance, funded, day)
         = (available - SpendingAllowance) + d + q - o
  BY <1>5, <1>6 DEF Margin
<1> HIDE DEF d, q, o, b
<1>11. o <= b
  BY <1>7 DEF o, b
<1>12. QED
  BY <1>1, <1>2, <1>3, <1>4, <1>8, <1>9, <1>10, <1>11 DEF kept

(***************************************************************************)
(* The sweep.                                                              *)
(***************************************************************************)
\* What the uncertainty allowance has to cover: a tenth of each bill.
Tenths(days, day) ==
    [n \in DOMAIN ledger.bills |->
        Cardinality(Unpaid(n, days, day)) * (ledger.bills[n].amount \div 10)]

LEMMA TenthOf ==
  ASSUME NEW x \in Nat
  PROVE x \div 10 \in Nat /\ 10 * (x \div 10) <= x
OBVIOUS

LEMMA RoundedTenth ==
  ASSUME NEW x \in Nat, NEW y \in Nat, 10 * y <= x
  PROVE RoundHalfUp(x, 10) \in Nat /\ y <= RoundHalfUp(x, 10)
<1>1. RoundHalfUp(x, 10) = (2 * x + 10) \div 20
  BY DEF RoundHalfUp
<1>2. 20 * y <= 2 * x + 10
  OBVIOUS
<1>3. QED
  BY <1>1, <1>2

LEMMA TenthsFacts ==
  ASSUME Accounted, NEW days, NEW day
  PROVE /\ Tenths(days, day) \in [1..Len(ledger.bills) -> Nat]
        /\ SumOf(Tenths(days, day)) \in Nat
        /\ 10 * SumOf(Tenths(days, day)) <= BillsBy(days, day)
<1> DEFINE N == Len(ledger.bills)
           a == Tenths(days, day)
           b == Billed(days, day)
<1>1. N \in Nat /\ DOMAIN ledger.bills = 1..N /\ \A n \in 1..N : ledger.bills[n].amount \in Nat
  BY AccountTypes DEF Accounted
<1>2. b \in [1..N -> Nat] /\ BillsBy(days, day) = SumOf(b)
  BY BilledType
<1>3. ASSUME NEW n \in 1..N PROVE a[n] \in Nat /\ 10 * a[n] <= b[n]
  <2> DEFINE c == Cardinality(Unpaid(n, days, day))
             price == ledger.bills[n].amount
             tenth == price \div 10
  <2>1. c \in Nat /\ price \in Nat
    BY <1>1, UnpaidType
  <2>2. a[n] = c * tenth /\ b[n] = c * price
    BY <1>1 DEF Tenths, Billed
  <2>3. tenth \in Nat /\ 10 * tenth <= price
    BY <2>1, TenthOf
  <2> HIDE DEF c, price, tenth, a, b
  <2>4. c * (10 * tenth) <= c * price
    <3>1. 10 * tenth \in Int /\ price \in Int
      BY <2>1, <2>3
    <3>2. QED
      BY <2>1, <2>3, <3>1, ProductGrows
  <2>5. c * (10 * tenth) = 10 * (c * tenth) /\ c * tenth \in Nat
    BY <2>1, <2>3, Product
  <2>6. QED
    BY <2>2, <2>4, <2>5
<1>4. a \in [1..N -> Nat]
  BY <1>1, <1>3 DEF Tenths
<1> HIDE DEF N, a, b
<1>5. SumOf(a) \in Nat
  BY <1>1, <1>4, SumOfAmounts
<1>6. 10 * SumOf(a) <= SumOf(b)
  <2>1. a \in [1..N -> Int] /\ b \in [1..N -> Int]
    BY <1>2, <1>4
  <2>2. QED
    BY <1>1, <1>3, <2>1, SumTenfold
<1>7. QED
  BY <1>2, <1>4, <1>5, <1>6 DEF N, a

LEMMA DearestBills ==
  ASSUME Accounted, Clear(BufferDays), NEW day \in today..(today + BufferDays)
  PROVE SumOf(Owing(ledger, funded, day))
          <= BillsBy(BufferDays, today + BufferDays)
               + SumOf(Tenths(BufferDays, today + BufferDays))
<1> DEFINE N == Len(ledger.bills)
           until == today + BufferDays
           a == Owing(ledger, funded, day)
           b == Billed(BufferDays, until)
           c == Tenths(BufferDays, until)
           both == [n \in 1..N |-> b[n] + c[n]]
<1>1. /\ LedgerAmounts(ledger) /\ today \in Int /\ BufferDays \in Nat /\ funded \in Funding(ledger)
      /\ day \in Int /\ until \in day..until
  BY WindowAssumption DEF Accounted
<1>2. N \in Nat /\ DOMAIN ledger.bills = 1..N
      /\ \A n \in 1..N : ledger.bills[n].amount \in Nat
  BY <1>1, AccountTypes
<1>3. /\ a \in [1..N -> Nat] /\ b \in [1..N -> Nat] /\ c \in [1..N -> Nat]
      /\ BillsBy(BufferDays, until) = SumOf(b)
  BY <1>1, OwingType, BilledType, TenthsFacts
<1>4. ASSUME NEW n \in 1..N PROVE a[n] <= b[n] + c[n]
  <2> DEFINE owes == Cardinality(Owed(ledger, funded, n, day))
             shown == Cardinality(Unpaid(n, BufferDays, until))
             price == ledger.bills[n].amount
             tenth == price \div 10
             w == Worst(ledger.bills[n])
  <2>1. InSight(n, BufferDays)
    BY <1>2 DEF Clear
  <2>2. owes \in Nat /\ owes <= shown /\ shown \in Nat
    BY <1>1, <2>1, OwedIsShown, UnpaidType
  <2>3. a[n] = owes * w /\ b[n] = shown * price /\ c[n] = shown * tenth
    BY <1>2 DEF Owing, Billed, Tenths
  <2>4. price \in Nat /\ tenth \in Nat /\ w \in Nat
    BY <1>2, WorstType
  <2>5. w <= price + tenth
    BY <2>4 DEF Worst
  <2> HIDE DEF owes, shown, price, tenth, w, a, b, c
  <2>6. w * owes <= w * shown
    <3>1. owes \in Int /\ shown \in Int
      BY <2>2
    <3>2. QED
      BY <2>2, <2>4, <3>1, ProductGrows
  <2>7. shown * w <= shown * (price + tenth)
    <3>1. w \in Int /\ price + tenth \in Int
      BY <2>4
    <3>2. QED
      BY <2>2, <2>5, <3>1, ProductGrows
  <2>8. shown * (price + tenth) = shown * price + shown * tenth
    BY <2>2, <2>4
  <2>9. w * owes = owes * w /\ w * shown = shown * w
    BY <2>2, <2>4
  <2>10. owes * w \in Nat /\ shown * w \in Nat /\ shown * price \in Nat /\ shown * tenth \in Nat
    BY <2>2, <2>4, Product
  <2>11. QED
    BY <2>3, <2>6, <2>7, <2>8, <2>9, <2>10
<1> HIDE DEF N, until, a, b, c
<1>5. /\ a \in [1..N -> Int] /\ b \in [1..N -> Int] /\ c \in [1..N -> Int]
      /\ both \in [1..N -> Int] /\ \A n \in 1..N : both[n] = b[n] + c[n]
  BY <1>3
<1>6. \A n \in 1..N : a[n] <= both[n]
  BY <1>4
<1> HIDE DEF both
<1>7. SumOf(both) = SumOf(b) + SumOf(c)
  BY <1>2, <1>5, SumAdds
<1>8. SumOf(a) <= SumOf(both)
  BY <1>2, <1>5, <1>6, SumMonotone
<1>9. QED
  BY <1>3, <1>7, <1>8 DEF a, c, until

LEMMA LandedIs ==
  ASSUME Accounted
  PROVE /\ Landed \in today..(today + BufferDays)
        /\ \A k \in Qualifying : ledger.deposits[k].date <= Landed
<1> DEFINE m == Smaller(WindowDays, BufferDays)
           dates == {today} \union {ledger.deposits[k].date : k \in Qualifying}
<1>1. /\ today \in Int /\ m \in Nat /\ m <= BufferDays /\ BufferDays \in Nat
      /\ \A k \in DOMAIN ledger.deposits : ledger.deposits[k].date \in Int
  BY WindowAssumption, AccountTypes DEF Accounted, Smaller, Priced
<1>2. \A k \in Qualifying : /\ k \in DOMAIN ledger.deposits
                            /\ today <= ledger.deposits[k].date
                            /\ ledger.deposits[k].date <= today + m
  BY DEF Qualifying, DepositsIn
<1>3. today \in today..(today + m)
  BY <1>1
<1>4. dates \in SUBSET (today..(today + m)) /\ dates # {}
  BY <1>1, <1>2, <1>3
<1>5. Landed = LastOn(dates)
  BY DEF Landed
<1> HIDE DEF m, dates
<1>6. Landed \in dates /\ \A d \in dates : d <= Landed
  BY <1>1, <1>4, <1>5, LastOnIs
<1>7. Landed \in today..(today + BufferDays)
  BY <1>1, <1>4, <1>6
<1>8. QED
  BY <1>6, <1>7 DEF dates

\* The deposits that the buffer nets are there by the day the last one lands.
LEMMA NettedIsCertain ==
  ASSUME Accounted, Clear(BufferDays), NEW day \in today..(today + BufferDays), Landed <= day
  PROVE /\ AmountOf(ledger.deposits, Qualifying) \in Int
        /\ AmountOf(ledger.deposits, Qualifying)
             <= AmountOf(ledger.deposits, Certain(ledger, today, day))
<1> DEFINE D == Len(ledger.deposits)
<1>1. /\ D \in Nat /\ Priced(ledger.deposits, D) /\ DOMAIN ledger.deposits = 1..D
      /\ \A k \in 1..D : ledger.deposits[k].amount \in Nat /\ ledger.deposits[k].date \in Int
  BY AccountTypes DEF Accounted, Priced
<1>2. today \in Int /\ BufferDays \in Nat /\ Landed \in Int /\ day \in Int
  BY WindowAssumption, LandedIs DEF Accounted
<1> HIDE DEF D
<1>3. ASSUME NEW k \in Qualifying PROVE k \in Certain(ledger, today, day)
  <2>1. /\ k \in DOMAIN ledger.deposits /\ today <= ledger.deposits[k].date
        /\ ledger.deposits[k].received
    BY DEF Qualifying, DepositsIn
  <2>2. ledger.deposits[k].date <= Landed
    BY LandedIs
  <2>3. ledger.deposits[k].date <= day
    BY <1>1, <1>2, <2>1, <2>2
  <2>4. ledger.deposits[k].posted => ledger.deposits[k].date < today
    BY <2>1 DEF Clear
  <2>5. ~ledger.deposits[k].posted
    BY <1>1, <1>2, <2>1, <2>4
  <2>6. QED
    BY <2>1, <2>3, <2>5 DEF Certain
<1>4. \A k \in 1..D : ledger.deposits[k].amount >= 0
  BY <1>1
<1>5. QED
  BY <1>1, <1>3, <1>4, AmountGrows, AmountType

\* It counts every charge that settles in its window, and no credit.
LEMMA ChargesAreLeast ==
  ASSUME Accounted, NEW day \in today..(today + BufferDays)
  PROVE /\ AmountOf(ledger.pending, Charges(today + BufferDays)) \in Int
        /\ AmountOf(ledger.pending, Charges(today + BufferDays)) <= 0
        /\ AmountOf(ledger.pending, Charges(today + BufferDays))
             <= AmountOf(ledger.pending, Settling(ledger, today, day))
<1> DEFINE P == Len(ledger.pending)
           until == today + BufferDays
<1>1. /\ P \in Nat /\ Priced(ledger.pending, P) /\ DOMAIN ledger.pending = 1..P
      /\ \A k \in 1..P : ledger.pending[k].amount \in Int /\ ledger.pending[k].date \in Int
  BY AccountTypes DEF Accounted, Priced
<1>2. today \in Int /\ BufferDays \in Nat /\ day \in Int /\ until \in Int /\ day <= until
  BY WindowAssumption DEF Accounted
<1> HIDE DEF P, until
<1>3. Charges(until) \subseteq 1..P /\ \A k \in Charges(until) : ledger.pending[k].amount < 0
  BY <1>1 DEF Charges, PendingIn
<1>4. \A k \in 1..P : k \in Charges(until) => ledger.pending[k].amount <= 0
  BY <1>1, <1>3
<1>5. ASSUME NEW k \in 1..P, k \in Settling(ledger, today, day), k \notin Charges(until)
      PROVE ledger.pending[k].amount >= 0
  <2>1. k \in PendingIn(today, until)
    BY <1>1, <1>2, <1>5 DEF Settling, PendingIn
  <2>2. ~(ledger.pending[k].amount < 0)
    BY <1>5, <2>1 DEF Charges
  <2>3. QED
    BY <1>1, <2>2
<1>6. /\ AmountOf(ledger.pending, Charges(until)) \in Int
      /\ AmountOf(ledger.pending, Charges(until))
           <= AmountOf(ledger.pending, Settling(ledger, today, day))
  BY <1>1, <1>4, <1>5, AmountGrows, AmountType
<1>7. AmountOf(ledger.pending, Charges(until)) <= 0
  BY <1>1, <1>3, <1>4, AmountFalls
<1>8. QED
  BY <1>6, <1>7 DEF until

LEMMA SweepType ==
  ASSUME Accounted
  PROVE BufferFor.sweepable \in Int
<1> DEFINE bills == BillsBy(BufferDays, today + BufferDays)
           charges == AmountOf(ledger.pending, Charges(today + BufferDays))
           sure == AmountOf(ledger.deposits, Qualifying)
           kept == Larger(SumOf(ledger.floors), ledger.minimum)
           slack == RoundHalfUp(Outflows, 10)
           required == ClampMinZero(Outflows - sure) + kept + slack
<1>1. BufferFor = [required |-> required, sweepable |-> ClampMinZero(available - required)]
  BY DEF BufferFor, ComputeBuffer
<1>2. bills \in Nat
  BY BilledType
<1>3. charges \in Int /\ charges <= 0
  <2>1. today \in today..(today + BufferDays)
    BY WindowAssumption DEF Accounted
  <2>2. QED
    BY <2>1, ChargesAreLeast
<1>4. sure \in Int
  BY AccountTypes, AmountType DEF Accounted
<1>5. kept \in Int
  BY FloorTypes DEF Larger
<1>6. Outflows = bills - charges
  BY DEF Outflows
<1> HIDE DEF bills, charges, sure, kept, slack
<1>7. Outflows \in Nat
  BY <1>2, <1>3, <1>6
<1>8. slack \in Int
  <2>1. 0 \in Nat /\ 10 * 0 <= Outflows
    BY <1>7
  <2>2. QED
    BY <1>7, <2>1, RoundedTenth DEF slack
<1>9. required \in Int
  BY <1>4, <1>5, <1>7, <1>8 DEF ClampMinZero, Larger
<1> HIDE DEF required
<1>10. available - required \in Int
  BY <1>9 DEF Accounted
<1>11. QED
  BY <1>1, <1>10 DEF ClampMinZero, Larger

LEMMA SweepKeeps ==
  ASSUME Accounted, BufferFor.sweepable > 0, Clear(BufferDays),
         NEW day \in today..(today + BufferDays), Landed <= day
  PROVE Larger(SumOf(ledger.floors), ledger.minimum)
          <= Margin(ledger, today, available - BufferFor.sweepable, funded, day)
<1> DEFINE bills == BillsBy(BufferDays, today + BufferDays)
           tenths == SumOf(Tenths(BufferDays, today + BufferDays))
           charges == AmountOf(ledger.pending, Charges(today + BufferDays))
           sure == AmountOf(ledger.deposits, Qualifying)
           landed == AmountOf(ledger.deposits, Certain(ledger, today, day))
           settled == AmountOf(ledger.pending, Settling(ledger, today, day))
           worst == SumOf(Owing(ledger, funded, day))
           kept == Larger(SumOf(ledger.floors), ledger.minimum)
           slack == RoundHalfUp(Outflows, 10)
           left == available - BufferFor.sweepable
<1>1. /\ today \in Int /\ BufferDays \in Nat /\ day \in Int /\ available \in Int
      /\ LedgerAmounts(ledger) /\ funded \in Funding(ledger)
  BY WindowAssumption DEF Accounted
<1>2. bills \in Nat /\ tenths \in Nat /\ 10 * tenths <= bills
  BY BilledType, TenthsFacts
<1>3. charges \in Int /\ charges <= 0 /\ charges <= settled
  BY ChargesAreLeast
<1>4. sure \in Int /\ sure <= landed
  BY NettedIsCertain
<1>5. landed \in Int /\ settled \in Int
  BY <1>1, MarginType
<1>6. worst \in Nat /\ worst <= bills + tenths
  BY <1>1, OwingType, DearestBills
<1>7. kept \in Int
  BY FloorTypes DEF Larger
<1>8. Outflows = bills - charges
  BY DEF Outflows
<1>9. Margin(ledger, today, left, funded, day) = left + landed + settled - worst
  BY DEF Margin
<1>10. BufferFor = [required |-> ClampMinZero(Outflows - sure) + kept + slack,
                    sweepable |-> ClampMinZero(available
                                     - (ClampMinZero(Outflows - sure) + kept + slack))]
  BY DEF BufferFor, ComputeBuffer
<1> HIDE DEF bills, tenths, charges, sure, landed, settled, worst, kept, slack
<1>11. Outflows \in Nat /\ 10 * tenths <= Outflows
  BY <1>2, <1>3, <1>8
<1>12. slack \in Nat /\ tenths <= slack
  BY <1>2, <1>11, RoundedTenth DEF slack
<1> DEFINE net == ClampMinZero(Outflows - sure)
<1>13. net \in Int /\ Outflows - sure <= net
  BY <1>4, <1>11 DEF ClampMinZero, Larger
<1>14. BufferFor.sweepable = ClampMinZero(available - (net + kept + slack))
  BY <1>10
<1> HIDE DEF net
<1>15. BufferFor.sweepable = available - (net + kept + slack)
  BY <1>1, <1>7, <1>12, <1>13, <1>14 DEF ClampMinZero, Larger
<1>16. left = net + kept + slack
  BY <1>1, <1>7, <1>12, <1>13, <1>15
<1> HIDE DEF left
<1>17. kept <= left + landed + settled - worst
  BY <1>2, <1>3, <1>4, <1>5, <1>6, <1>7, <1>8, <1>12, <1>13, <1>16
<1>18. QED
  BY <1>9, <1>17 DEF kept, left

(***************************************************************************)
(* What a promise rests on: on every day that it covers and that has not   *)
(* ended, the margin is above what was to be kept.  PromiseHolds alone says *)
(* nothing of the days to come, so no step keeps it by itself.             *)
(***************************************************************************)
Kept(l, t, cash, paid, word) ==
    word.sure => \A day \in t..word.through :
                    word.since <= day => word.floor <= Margin(l, t, cash, paid, day)
AccountInv == Accounted /\ Kept(ledger, today, available, funded, promise) /\ PromiseHolds

LEMMA AccountStarts ==
  ForecastsInit => AccountInv
<1>1. SUFFICES ASSUME ForecastsInit PROVE AccountInv
  OBVIOUS
<1>2. LedgerAmounts(ledger)
  BY <1>1, LedgerAssumption DEF ForecastsInit
<1>3. today \in Int /\ available \in Int
  BY <1>1, <1>2 DEF ForecastsInit, LedgerAmounts
<1>4. funded \in Funding(ledger) /\ recorded \in Funding(ledger)
  BY <1>1 DEF ForecastsInit, Funding
<1>5. /\ promise.since \in Int /\ promise.through \in Int /\ promise.floor \in Int
      /\ promise.sure = FALSE
  BY <1>1 DEF ForecastsInit, None, NoDate
<1>6. Accounted
  BY <1>2, <1>3, <1>4, <1>5 DEF Accounted
<1>7. QED
  BY <1>5, <1>6 DEF AccountInv, Kept, PromiseHolds

(***************************************************************************)
(* Each step.                                                              *)
(***************************************************************************)
LEMMA AllowanceStep ==
  ASSUME AccountInv, SpendAllowance PROVE AccountInv'
<1> DEFINE until == today + AllowanceDays
<1>1. /\ Accounted /\ today \in Int /\ AllowanceDays \in Nat /\ available \in Int
      /\ SpendingAllowance > 0
  BY WindowAssumption DEF AccountInv, Accounted, SpendAllowance
<1>2. /\ ledger' = ledger /\ today' = today /\ funded' = funded /\ recorded' = recorded
      /\ available' = available - SpendingAllowance
      /\ promise' = [since |-> today, through |-> until, floor |-> SumOf(ledger.protected),
                     sure |-> Clear(AllowanceDays) /\ AllowanceExact]
  BY DEF SpendAllowance
<1>3. /\ promise'.since = today /\ promise'.through = until
      /\ promise'.floor = SumOf(ledger.protected)
      /\ promise'.sure = (Clear(AllowanceDays) /\ AllowanceExact)
  BY <1>2
<1>4. SpendingAllowance \in Int
  <2>1. LowPoint(Closing(AllowanceDays)) \in Int
    BY <1>1, ClosingType, LowPointIs
  <2>2. QED
    BY <2>1, FloorTypes, <1>1 DEF SpendingAllowance, ClampMinZero, Larger
<1>5. promise'.since \in Int /\ promise'.through \in Int /\ promise'.floor \in Int
      /\ promise'.sure \in BOOLEAN
  BY <1>1, <1>3, FloorTypes
<1>6. Accounted'
  <2>1. available' \in Int
    BY <1>1, <1>2, <1>4
  <2>2. QED
    BY <1>1, <1>2, <1>5, <2>1 DEF Accounted, LedgerAmounts, Funding
<1>7. Kept(ledger, today, available', funded, promise')
  <2>1. SUFFICES ASSUME promise'.sure, NEW day \in today..until
                 PROVE  promise'.floor <= Margin(ledger, today, available', funded, day)
    BY <1>3 DEF Kept
  <2>2. Clear(AllowanceDays) /\ AllowanceExact
    BY <1>3, <2>1
  <2>3. SumOf(ledger.protected)
          <= Margin(ledger, today, available - SpendingAllowance, funded, day)
    BY <1>1, <2>2, AllowanceKeeps
  <2>4. QED
    BY <1>2, <1>3, <2>3
<1>8. Kept(ledger, today, available, funded, promise)'
  BY <1>2, <1>7
<1>9. PromiseHolds'
  BY <1>1, <1>2, <1>3 DEF PromiseHolds
<1>10. QED
  BY <1>6, <1>8, <1>9 DEF AccountInv

LEMMA SweepStep ==
  ASSUME AccountInv, Sweep PROVE AccountInv'
<1> DEFINE until == today + BufferDays
           kept == Larger(SumOf(ledger.floors), ledger.minimum)
<1>1. /\ Accounted /\ today \in Int /\ BufferDays \in Nat /\ available \in Int
      /\ BufferFor.sweepable > 0
  BY WindowAssumption DEF AccountInv, Accounted, Sweep
<1>2. /\ ledger' = ledger /\ today' = today /\ funded' = funded /\ recorded' = recorded
      /\ available' = available - BufferFor.sweepable
      /\ promise' = [since |-> Landed, through |-> until, sure |-> Clear(BufferDays),
                     floor |-> kept]
  BY DEF Sweep
<1>3. /\ promise'.since = Landed /\ promise'.through = until /\ promise'.floor = kept
      /\ promise'.sure = Clear(BufferDays)
  BY <1>2
<1>4. Landed \in today..until /\ Landed \in Int /\ kept \in Int
  BY <1>1, LandedIs, FloorTypes DEF Larger
<1>5. BufferFor.sweepable \in Int
  BY <1>1, SweepType
<1>6. promise'.since \in Int /\ promise'.through \in Int /\ promise'.floor \in Int
      /\ promise'.sure \in BOOLEAN
  BY <1>1, <1>3, <1>4 DEF Clear
<1>7. Accounted'
  <2>1. available' \in Int
    BY <1>1, <1>2, <1>5
  <2>2. QED
    BY <1>1, <1>2, <1>6, <2>1 DEF Accounted, LedgerAmounts, Funding
<1>8. Kept(ledger, today, available', funded, promise')
  <2>1. SUFFICES ASSUME promise'.sure, NEW day \in today..until, Landed <= day
                 PROVE  promise'.floor <= Margin(ledger, today, available', funded, day)
    BY <1>3 DEF Kept
  <2>2. Clear(BufferDays)
    BY <1>3, <2>1
  <2>3. kept <= Margin(ledger, today, available - BufferFor.sweepable, funded, day)
    BY <1>1, <2>1, <2>2, SweepKeeps
  <2>4. QED
    BY <1>2, <1>3, <2>3
<1>9. Kept(ledger, today, available, funded, promise)'
  BY <1>2, <1>8
<1>10. PromiseHolds'
  <2>1. ~(promise'.since < today')
    BY <1>1, <1>2, <1>3, <1>4
  <2>2. QED
    BY <2>1 DEF PromiseHolds
<1>11. QED
  BY <1>7, <1>9, <1>10 DEF AccountInv

LEMMA DraftStep ==
  ASSUME AccountInv, NEW n \in DOMAIN recorded, DraftPayment(n) PROVE AccountInv'
<1>1. /\ Accounted /\ UNCHANGED <<ledger, today, available, funded, promise>>
  BY DEF AccountInv, DraftPayment
<1>2. PICK d \in DueDates(n, today, today + BufferDays) :
          recorded' = [recorded EXCEPT ![n] = @ \union {d}]
  BY DEF DraftPayment
<1>3. /\ funded \in Funding(ledger) /\ recorded \in Funding(ledger)
      /\ n \in DOMAIN ledger.bills
  BY <1>1 DEF Accounted, Funding
<1>4. d \in AllDays
  <2>1. recorded[n] \subseteq AllDays
    BY <1>3 DEF Funding
  <2>2. Open(n, today) \subseteq AllDays
    BY <2>1 DEF Open
  <2>3. QED
    BY <1>2, <2>2, BillDatesIn DEF DueDates
<1>5. recorded' \in Funding(ledger)
  BY <1>2, <1>3, <1>4 DEF Funding
<1>6. Accounted'
  BY <1>1, <1>5 DEF Accounted, LedgerAmounts, Funding
<1>7. Kept(ledger, today, available, funded, promise)' /\ PromiseHolds'
  BY <1>1 DEF AccountInv, Kept, PromiseHolds
<1>8. QED
  BY <1>6, <1>7 DEF AccountInv

LEMMA StandStill ==
  ASSUME AccountInv, UNCHANGED ledgerVars PROVE AccountInv'
BY DEF AccountInv, Accounted, LedgerAmounts, Funding, Kept, PromiseHolds, ledgerVars

\* A day that ends pays what was owed, at no more than the highest price, and
\* lands what was sure to land.
LEMMA DayIs ==
  ASSUME AccountInv, DayEnds
  PROVE \E now \in Funding(ledger), price \in [DOMAIN ledger.bills -> Nat],
           landing \in SUBSET DOMAIN ledger.deposits :
          /\ \A n \in DOMAIN ledger.bills :
                /\ now[n] \subseteq Owed(ledger, funded, n, today)
                /\ price[n] <= Worst(ledger.bills[n])
          /\ Certain(ledger, today, today) \subseteq landing
          /\ available' = After(ledger, today, available, landing, now, price)
          /\ funded' = PaidWith(ledger, funded, now)
<1> DEFINE Unsettled(n) == {d \in Obligations(n) : d <= today} \ funded[n]
           Lands(any) == {k \in DOMAIN ledger.deposits :
                             /\ ledger.deposits[k].date = today /\ ~ledger.deposits[k].posted
                             /\ ledger.deposits[k].received \/ any}
           Price(b, more) == IF more /\ ~b.confirmed THEN b.amount + b.amount \div 10
                             ELSE b.amount
<1>1. PICK pays \in [DOMAIN ledger.bills -> BOOLEAN], more \in BOOLEAN, lands \in BOOLEAN :
        /\ available' = available + AmountOf(ledger.deposits, Lands(lands))
              + AmountOf(ledger.pending, PendingIn(today, today))
              - SumOf([n \in DOMAIN ledger.bills |->
                         Cardinality(IF pays[n] THEN Unsettled(n) ELSE {}) * Price(ledger.bills[n], more)])
        /\ funded' = [n \in DOMAIN funded |-> funded[n] \union (IF pays[n] THEN Unsettled(n) ELSE {})]
  BY DEF DayEnds
<1> DEFINE now == [n \in DOMAIN ledger.bills |-> IF pays[n] THEN Unsettled(n) ELSE {}]
           price == [n \in DOMAIN ledger.bills |-> Price(ledger.bills[n], more)]
           landing == Lands(lands)
<1>2. /\ LedgerAmounts(ledger) /\ today \in Int /\ funded \in Funding(ledger)
      /\ \A n \in DOMAIN ledger.bills : ledger.bills[n].amount \in Nat
      /\ \A k \in DOMAIN ledger.deposits : ledger.deposits[k].date \in Int
  BY AccountTypes DEF AccountInv, Accounted, Priced
<1>3. ASSUME NEW n \in DOMAIN ledger.bills
      PROVE /\ now[n] \subseteq Owed(ledger, funded, n, today)
            /\ Unsettled(n) \subseteq AllDays
            /\ price[n] \in Nat /\ price[n] <= Worst(ledger.bills[n])
  <2>1. Unsettled(n) = Owed(ledger, funded, n, today)
    BY DEF Owed, Obliged, Obligations
  <2>2. Unsettled(n) \subseteq AllDays
    BY <1>2, <2>1, OwingType, AccountTypes
  <2>3. ledger.bills[n].amount \in Nat /\ ledger.bills[n].amount \div 10 \in Nat
    BY <1>2, WorstType
  <2>4. price[n] \in Nat /\ price[n] <= Worst(ledger.bills[n])
    BY <2>3 DEF Worst
  <2>5. QED
    BY <2>1, <2>2, <2>4
<1>4. now \in Funding(ledger) /\ price \in [DOMAIN ledger.bills -> Nat]
  BY <1>3 DEF Funding
<1>5. landing \in SUBSET DOMAIN ledger.deposits
  OBVIOUS
<1>6. Certain(ledger, today, today) \subseteq landing
  BY <1>2 DEF Certain
<1>7. available' = After(ledger, today, available, landing, now, price)
  <2>1. Settling(ledger, today, today) = PendingIn(today, today)
    <3>1. \A k \in DOMAIN ledger.pending :
             k \in Settling(ledger, today, today) <=> k \in PendingIn(today, today)
      BY DEF Settling, PendingIn
    <3>2. QED
      BY <3>1 DEF Settling, PendingIn
  <2>2. Bought(ledger, now, price)
          = [n \in DOMAIN ledger.bills |->
               Cardinality(IF pays[n] THEN Unsettled(n) ELSE {}) * Price(ledger.bills[n], more)]
    BY DEF Bought
  <2>3. QED
    BY <1>1, <2>1, <2>2 DEF After
<1>8. funded' = PaidWith(ledger, funded, now)
  <2>1. DOMAIN funded = DOMAIN ledger.bills
    BY <1>2 DEF Funding
  <2>2. QED
    BY <1>1, <2>1 DEF PaidWith
<1> HIDE DEF now, price, landing
<1>9. QED
  BY <1>3, <1>4, <1>5, <1>6, <1>7, <1>8

LEMMA DayStep ==
  ASSUME AccountInv, DayEnds PROVE AccountInv'
<1>1. PICK now \in Funding(ledger), price \in [DOMAIN ledger.bills -> Nat],
           landing \in SUBSET DOMAIN ledger.deposits :
          /\ \A n \in DOMAIN ledger.bills :
                /\ now[n] \subseteq Owed(ledger, funded, n, today)
                /\ price[n] <= Worst(ledger.bills[n])
          /\ Certain(ledger, today, today) \subseteq landing
          /\ available' = After(ledger, today, available, landing, now, price)
          /\ funded' = PaidWith(ledger, funded, now)
  BY DayIs
<1>2. /\ Accounted /\ LedgerAmounts(ledger) /\ today \in Int /\ available \in Int
      /\ funded \in Funding(ledger)
      /\ promise.since \in Int /\ promise.through \in Int /\ promise.floor \in Int
      /\ Kept(ledger, today, available, funded, promise)
  BY DEF AccountInv, Accounted
<1>3. UNCHANGED <<ledger, recorded, promise>> /\ today' = today + 1
  BY DEF DayEnds
<1>4. available' \in Int /\ funded' \in Funding(ledger)
  BY <1>1, <1>2, AfterType
<1>5. Accounted'
  BY <1>2, <1>3, <1>4 DEF Accounted, LedgerAmounts, Funding
<1>6. Kept(ledger, today + 1, available', funded', promise)
  <2>1. SUFFICES ASSUME promise.sure, NEW day \in (today + 1)..promise.through,
                        promise.since <= day
                 PROVE  promise.floor <= Margin(ledger, today + 1, available', funded', day)
    BY DEF Kept
  <2>2. day \in Int /\ today <= day /\ day \in today..promise.through
    BY <1>2
  <2>3. promise.floor <= Margin(ledger, today, available, funded, day)
    BY <1>2, <2>1, <2>2 DEF Kept
  <2>4. Margin(ledger, today, available, funded, day)
          <= Margin(ledger, today + 1, available', funded', day)
    BY <1>1, <1>2, <2>2, DayKeepsMargins
  <2>5. /\ Margin(ledger, today, available, funded, day) \in Int
        /\ Margin(ledger, today + 1, available', funded', day) \in Int
    BY <1>2, <1>4, <2>2, MarginType
  <2>6. QED
    BY <1>2, <2>3, <2>4, <2>5
<1>7. Kept(ledger, today, available, funded, promise)'
  BY <1>3, <1>6
<1>8. PromiseHolds'
  <2>1. SUFFICES ASSUME promise.sure, promise.since < today + 1, today + 1 <= promise.through + 1
                 PROVE  available' >= promise.floor
    BY <1>3 DEF PromiseHolds
  <2>2. today \in today..promise.through /\ promise.since <= today
    BY <1>2, <2>1
  <2>3. promise.floor <= Margin(ledger, today, available, funded, today)
    BY <1>2, <2>1, <2>2 DEF Kept
  <2>4. Margin(ledger, today, available, funded, today) <= available'
    BY <1>1, <1>2, DayKeepsBalance
  <2>5. Margin(ledger, today, available, funded, today) \in Int
    BY <1>2, MarginType
  <2>6. QED
    BY <1>2, <1>4, <2>3, <2>4, <2>5
<1>9. QED
  BY <1>5, <1>7, <1>8 DEF AccountInv

LEMMA AccountSteps ==
  AccountInv /\ [ForecastsNext]_ledgerVars => AccountInv'
<1>1. SUFFICES ASSUME AccountInv, [ForecastsNext]_ledgerVars PROVE AccountInv'
  OBVIOUS
<1>2. CASE SpendAllowance
  BY <1>1, <1>2, AllowanceStep
<1>3. CASE Sweep
  BY <1>1, <1>3, SweepStep
<1>4. CASE DayEnds
  BY <1>1, <1>4, DayStep
<1>5. CASE \E n \in DOMAIN recorded : DraftPayment(n)
  BY <1>1, <1>5, DraftStep
<1>6. CASE UNCHANGED ledgerVars
  BY <1>1, <1>6, StandStill
<1>7. QED
  BY <1>1, <1>2, <1>3, <1>4, <1>5, <1>6 DEF ForecastsNext

\* PL05: for every account, calendar and window, an exact allowance that is
\* spent and a surplus that is swept leave the account above what was to be
\* kept at the close of each day that the figure looked at (for a sweep, from
\* the last deposit it counts on), whichever bills are paid late or cost more
\* and whether expected deposits land.
THEOREM PromiseCorrect == ForecastsSpec => []PromiseHolds
<1>1. AccountInv => PromiseHolds
  BY DEF AccountInv
<1>2. QED
  BY AccountStarts, AccountSteps, <1>1, PTL DEF ForecastsSpec

(***************************************************************************)
(* Rounding.                                                               *)
(***************************************************************************)
LEMMA Remainder ==
  ASSUME NEW x \in Nat, NEW d \in Nat, d > 0
  PROVE d * (x \div d) <= x /\ x < d * (x \div d) + d
OBVIOUS

LEMMA RoundsUp ==
  ASSUME NEW n \in Nat, NEW d \in Nat, d > 0
  PROVE /\ RoundHalfUp(n, d) \in Nat
        /\ 2 * n - d <= 2 * (d * RoundHalfUp(n, d))
        /\ 2 * (d * RoundHalfUp(n, d)) <= 2 * n + d
<1> DEFINE q == (2 * n + d) \div (2 * d)
<1>1. RoundHalfUp(n, d) = q
  BY DEF RoundHalfUp
<1>2. 2 * n + d \in Nat /\ 2 * d \in Nat /\ 2 * d > 0
  OBVIOUS
<1>3. q \in Nat /\ (2 * d) * q <= 2 * n + d /\ 2 * n + d < (2 * d) * q + 2 * d
  BY <1>2, Quotient, Remainder
<1> HIDE DEF q
<1>4. (2 * d) * q = 2 * (d * q)
  BY <1>3
<1>5. QED
  BY <1>1, <1>3, <1>4

LEMMA TimesKeepsOrder ==
  ASSUME NEW x \in Int, NEW y \in Int, NEW t \in Nat, x <= y
  PROVE x * t <= y * t
OBVIOUS

(***************************************************************************)
(* Taxes.  The interest that is kept is within a cent of the exact one, so *)
(* what a debt of a given amount takes from it is within two.              *)
(***************************************************************************)
KeptOf(x, t, year) == RoundHalfUp(RoundHalfUp(x, year) * t, 100)

LEMMA InterestNear ==
  ASSUME NEW x \in Nat, NEW t \in 0..100, NEW year \in Nat, year > 0
  PROVE /\ KeptOf(x, t, year) \in Nat
        /\ 2 * (x * t) - 200 * year <= 200 * (year * KeptOf(x, t, year))
        /\ 200 * (year * KeptOf(x, t, year)) <= 2 * (x * t) + 200 * year
<1> DEFINE s == RoundHalfUp(x, year)
           st == s * t
           k == RoundHalfUp(st, 100)
<1>1. s \in Nat /\ 2 * x - year <= 2 * (year * s) /\ 2 * (year * s) <= 2 * x + year
  BY RoundsUp
<1> HIDE DEF s
<1>2. t \in Nat /\ s * t \in Nat /\ x * t \in Nat /\ year * s \in Nat
  BY <1>1, Product
<1> DEFINE ys == year * s
<1>3. /\ ys \in Nat /\ (2 * x - year) * t <= (2 * ys) * t
      /\ (2 * ys) * t <= (2 * x + year) * t
  BY <1>1, <1>2, TimesKeepsOrder
<1>4. ys * t = year * (s * t)
  BY <1>1, <1>2
<1> DEFINE xt == x * t
           yt == year * t
<1>5. st \in Nat /\ xt \in Nat /\ yt \in Nat /\ yt <= 100 * year
  BY <1>2, Product
<1>6. 2 * xt - yt <= 2 * (year * st) /\ 2 * (year * st) <= 2 * xt + yt
  <2> HIDE DEF ys
  <2>1. (2 * x - year) * t = 2 * xt - yt /\ (2 * x + year) * t = 2 * xt + yt
    BY <1>2
  <2>2. (2 * ys) * t = 2 * (ys * t)
    BY <1>2, <1>3
  <2>3. QED
    BY <1>3, <1>4, <2>1, <2>2
<1>7. k \in Nat /\ 2 * st - 100 <= 200 * k /\ 200 * k <= 2 * st + 100
  <2> HIDE DEF st
  <2>1. k \in Nat /\ 2 * st - 100 <= 2 * (100 * k) /\ 2 * (100 * k) <= 2 * st + 100
    BY <1>5, RoundsUp
  <2> HIDE DEF k
  <2>2. QED
    BY <2>1, <1>5
<1> HIDE DEF k, st, xt, yt
<1>8. year * (2 * st - 100) <= year * (200 * k) /\ year * (200 * k) <= year * (2 * st + 100)
  <2>1. /\ (2 * st - 100) * year <= (200 * k) * year
        /\ (200 * k) * year <= (2 * st + 100) * year
    BY <1>5, <1>7, TimesKeepsOrder
  <2>2. QED
    BY <2>1, <1>5, <1>7
<1> DEFINE yk == year * k
           yst == year * st
<1>9. yk \in Nat /\ yst \in Nat
  BY <1>5, <1>7, Product
<1>10. 2 * yst - 100 * year <= 200 * yk /\ 200 * yk <= 2 * yst + 100 * year
  BY <1>5, <1>7, <1>8
<1> HIDE DEF yk, yst
<1>11. 2 * xt - 200 * year <= 200 * yk /\ 200 * yk <= 2 * xt + 200 * year
  <2>1. 2 * xt - yt <= 2 * yst /\ 2 * yst <= 2 * xt + yt
    BY <1>6 DEF yst
  <2>2. QED
    BY <2>1, <1>5, <1>9, <1>10
<1>12. QED
  BY <1>7, <1>11 DEF k, xt, s, st, yk, KeptOf

Missed(apy, rate, applied, days) == apy * (100 - rate) * applied * days
WithinTwoCents(kept, earned, missed) ==
    /\ kept \in Nat /\ earned \in Nat /\ missed \in Nat
    /\ missed - 200 * 36500 <= 100 * (36500 * (kept - earned))
    /\ 100 * (36500 * (kept - earned)) <= missed + 200 * 36500

LEMMA RowAgainstBaseline ==
  ASSUME NEW amount \in Nat, NEW applied \in Nat, NEW rest \in Nat, amount = rest + applied,
         NEW apy \in Nat, NEW days \in Nat, NEW rate \in 0..100
  PROVE LET kept == AfterTaxInterest(SimpleInterest(amount, apy, days), rate)
            earned == AfterTaxInterest(SimpleInterest(rest, apy, days), rate)
            missed == Missed(apy, rate, applied, days)
        IN  WithinTwoCents(kept, earned, missed)
<1> DEFINE t == 100 - rate
           x == amount * apy * days
           y == rest * apy * days
           z == applied * apy * days
           kept == AfterTaxInterest(SimpleInterest(amount, apy, days), rate)
           earned == AfterTaxInterest(SimpleInterest(rest, apy, days), rate)
           missed == apy * t * applied * days
<1>1. t \in 0..100 /\ t \in Nat
  OBVIOUS
<1>2. x \in Nat /\ y \in Nat /\ z \in Nat
  <2>1. amount * apy \in Nat /\ rest * apy \in Nat /\ applied * apy \in Nat
    BY <1>1, Product
  <2>2. QED
    BY <2>1, Product
<1>3. x * t = y * t + missed /\ missed \in Nat
  <2>1. x = y + z
    <3>1. (rest + applied) * apy * days = rest * apy * days + applied * apy * days
      OBVIOUS
    <3>2. QED
      BY <3>1
  <2> HIDE DEF t
  <2>2. z * t = missed
    BY <1>1
  <2> HIDE DEF x, y, z
  <2>3. (y + z) * t = y * t + z * t
    BY <1>1, <1>2
  <2>4. z * t \in Nat
    BY <1>1, <1>2, Product
  <2>5. QED
    BY <2>1, <2>2, <2>3, <2>4
<1>4. PICK year \in Nat : year > 0 /\ year = 36500
  BY SMT
<1>5. kept = KeptOf(x, t, year) /\ earned = KeptOf(y, t, year)
  BY SMT, <1>4 DEF AfterTaxInterest, SimpleInterest, KeptOf
<1> DEFINE xt == x * t
           yt == y * t
<1>6. xt \in Nat /\ yt \in Nat
  BY <1>1, <1>2, Product
<1> HIDE DEF kept, earned, missed, x, y, t
<1>7. /\ kept \in Nat /\ earned \in Nat
      /\ 2 * xt - 200 * year <= 200 * (year * kept)
      /\ 200 * (year * kept) <= 2 * xt + 200 * year
      /\ 2 * yt - 200 * year <= 200 * (year * earned)
      /\ 200 * (year * earned) <= 2 * yt + 200 * year
  <2>1. year > 0 /\ t \in 0..100 /\ x \in Nat /\ y \in Nat
    BY <1>1, <1>2, <1>4
  <2>2. /\ KeptOf(x, t, year) \in Nat
        /\ 2 * (x * t) - 200 * year <= 200 * (year * KeptOf(x, t, year))
        /\ 200 * (year * KeptOf(x, t, year)) <= 2 * (x * t) + 200 * year
    BY <2>1, InterestNear
  <2>3. /\ KeptOf(y, t, year) \in Nat
        /\ 2 * (y * t) - 200 * year <= 200 * (year * KeptOf(y, t, year))
        /\ 200 * (year * KeptOf(y, t, year)) <= 2 * (y * t) + 200 * year
    BY <2>1, InterestNear
  <2>4. QED
    BY <2>2, <2>3, <1>5
<1>8. xt = yt + missed /\ missed \in Nat
  BY <1>3
<1> HIDE DEF xt, yt
<1>9. year * (kept - earned) = year * kept - year * earned
      /\ year * kept \in Nat /\ year * earned \in Nat
  BY <1>7, Product
<1> DEFINE yk == year * kept
           yi == year * earned
<1>10. /\ missed - 200 * year <= 100 * (yk - yi)
       /\ 100 * (yk - yi) <= missed + 200 * year
  <2>1. yk \in Nat /\ yi \in Nat
    BY <1>9
  <2>2. /\ 2 * xt - 200 * year <= 200 * yk /\ 200 * yk <= 2 * xt + 200 * year
        /\ 2 * yt - 200 * year <= 200 * yi /\ 200 * yi <= 2 * yt + 200 * year
    BY <1>7
  <2> HIDE DEF yk, yi
  <2>3. QED
    BY <2>1, <2>2, <1>6, <1>8
<1>11. /\ missed - 200 * year <= 100 * (year * (kept - earned))
       /\ 100 * (year * (kept - earned)) <= missed + 200 * year
  BY <1>9, <1>10
<1>12. /\ missed - 200 * 36500 <= 100 * (36500 * (kept - earned))
       /\ 100 * (36500 * (kept - earned)) <= missed + 200 * 36500
  BY SMT, <1>4, <1>11
<1>13. WithinTwoCents(kept, earned, missed)
  BY SMT, <1>7, <1>8, <1>12 DEF WithinTwoCents
<1>14. QED
  BY SMT, <1>13 DEF kept, earned, missed, t, Missed

LEMMA RateIsAmount ==
  ASSUME NEW profile \in TaxProfiles
  PROVE RateOnInterest(profile, FALSE) \in Nat
BY DEF RateOnInterest, TaxProfiles

LEMMA BenefitIsWhole ==
  ASSUME NEW a \in Nat, NEW r \in Nat, NEW days \in Nat, NEW f \in Nat
  PROVE /\ SimpleInterest(a, r, days) \in Nat
        /\ RoundHalfUp(SimpleInterest(a, r, days) * f, 100) \in Nat
<1>1. a * r \in Nat
  BY Product
<1>2. a * r * days \in Nat
  BY <1>1, Product
<1>3. SimpleInterest(a, r, days) \in Nat
  BY <1>2, RoundsUp DEF SimpleInterest
<1>4. SimpleInterest(a, r, days) * f \in Nat
  BY <1>3, Product
<1>5. QED
  BY <1>3, <1>4, RoundsUp

(* What a row of the comparison says of its debt.                          *)
RowSays(r, amount, apy, days, rate, kept) ==
    /\ r.applied \in Nat /\ r.applied <= amount /\ r.applied + r.retained = amount
    /\ r.left >= 0 /\ r.debtBenefit \in Int
    /\ r.breaksEven => rate < 100
    /\ r.versusBaseline =
         r.debtBenefit + AfterTaxInterest(SimpleInterest(amount - r.applied, apy, days), rate) - kept

LEMMA PayoffSays ==
  ASSUME NEW amount \in Nat, NEW apy \in Nat, NEW days \in Nat, NEW d \in DebtRecords, d.balance > 0,
         NEW profile \in TaxProfiles, NEW rate \in Nat, NEW kept, NEW all
  PROVE RowSays(Payoff(amount, apy, d, profile, days, rate, kept, all), amount, apy, days, rate, kept)
<1> DEFINE applied == Smaller(amount, d.balance)
           avoided == SimpleInterest(applied, d.rate, days)
           lost == IF d.deductible /\ profile.itemizes
                   THEN RoundHalfUp(avoided * profile.federal, 100) ELSE 0
           earned == AfterTaxInterest(SimpleInterest(amount - applied, apy, days), rate)
           benefit == avoided - lost
           r == Payoff(amount, apy, d, profile, days, rate, kept, all)
<1>1. d.balance \in Int /\ d.rate \in Nat /\ profile.federal \in Nat
  BY DEF DebtRecords, TaxProfiles
<1>2. applied \in Nat /\ applied <= amount /\ applied <= d.balance
  BY <1>1 DEF Smaller
<1>3. avoided \in Nat /\ lost \in Nat
  <2> HIDE DEF applied
  <2>1. QED
    BY <1>1, <1>2, BenefitIsWhole
<1>4. r = [applied |-> applied, retained |-> amount - applied, debtBenefit |-> benefit,
           benefit |-> benefit + earned, versusBaseline |-> benefit + earned - kept,
           residualDebt |-> ClampMinZero(all - applied), left |-> d.balance - applied,
           breaksEven |-> applied > 0 /\ days > 0 /\ rate < 100]
  BY DEF Payoff
<1> HIDE DEF applied, avoided, lost, r
<1>5. /\ r.applied = applied /\ r.retained = amount - applied /\ r.debtBenefit = benefit
      /\ r.left = d.balance - applied /\ r.breaksEven = (applied > 0 /\ days > 0 /\ rate < 100)
      /\ r.versusBaseline = benefit + earned - kept
  BY <1>4
<1>6. applied + (amount - applied) = amount /\ d.balance - applied >= 0 /\ benefit \in Int
  BY <1>1, <1>2, <1>3
<1> HIDE DEF benefit
<1>7. RowSays(r, amount, apy, days, rate, kept)
  BY <1>2, <1>5, <1>6 DEF RowSays
<1>8. QED
  BY <1>7 DEF r

LEMMA RowDecides ==
  ASSUME NEW amount \in Nat, NEW apy \in Nat, NEW days \in Nat, NEW rate \in Nat,
         NEW kept, kept = AfterTaxInterest(SimpleInterest(amount, apy, days), rate),
         NEW r, RowSays(r, amount, apy, days, rate, kept), r.breaksEven
  PROVE IF AtOrAbove(apy, r, rate, days) THEN r.versusBaseline <= 2 ELSE r.versusBaseline >= -2
<1>1. PICK a \in Nat, b \in Int, rest \in Nat :
         /\ a = r.applied /\ b = r.debtBenefit /\ amount = rest + a /\ rest = amount - a
         /\ rate \in 0..100
  BY DEF RowSays
<1> DEFINE earned == AfterTaxInterest(SimpleInterest(rest, apy, days), rate)
           missed == Missed(apy, rate, a, days)
<1>2. r.versusBaseline = b + earned - kept
  BY <1>1 DEF RowSays
<1>3. /\ kept \in Nat /\ earned \in Nat /\ missed \in Nat
      /\ missed - 200 * 36500 <= 100 * (36500 * (kept - earned))
      /\ 100 * (36500 * (kept - earned)) <= missed + 200 * 36500
  <2>1. amount = rest + a /\ rate \in 0..100
    BY <1>1
  <2>2. WithinTwoCents(AfterTaxInterest(SimpleInterest(amount, apy, days), rate), earned, missed)
    BY <2>1, RowAgainstBaseline
  <2>3. QED
    BY SMT, <2>2 DEF WithinTwoCents
<1>4. AtOrAbove(apy, r, rate, days) <=> b * 36500 * 100 <= missed
  BY SMT, <1>1 DEF AtOrAbove, Missed
<1> HIDE DEF earned, missed
<1>5. IF b * 36500 * 100 <= missed THEN b + earned - kept <= 2 ELSE b + earned - kept >= -2
  BY SMT, <1>1, <1>3
<1>6. QED
  BY SMT, <1>2, <1>4, <1>5

LEMMA RowsCompared ==
  ASSUME NEW amount \in Nat, NEW apy \in Nat, NEW days \in Nat, NEW debts \in Seq(DebtRecords),
         NEW profile \in TaxProfiles
  PROVE LET rate == RateOnInterest(profile, FALSE)
            table == CompareSavingsVsDebt(amount, apy, debts, profile, days, FALSE).rows
            kept == AfterTaxInterest(SimpleInterest(amount, apy, days), rate)
        IN  \A k \in DOMAIN table : RowSays(table[k], amount, apy, days, rate, kept)
<1> DEFINE rate == RateOnInterest(profile, FALSE)
           kept == AfterTaxInterest(SimpleInterest(amount, apy, days), rate)
           S == {i \in DOMAIN debts : debts[i].balance > 0}
           live == [k \in DOMAIN Ascending(S) |-> debts[Ascending(S)[k]]]
           all == SumOf([k \in DOMAIN live |-> live[k].balance])
           table == CompareSavingsVsDebt(amount, apy, debts, profile, days, FALSE).rows
<1>1. table = [k \in DOMAIN live |-> Payoff(amount, apy, live[k], profile, days, rate, kept, all)]
  BY SMT DEF CompareSavingsVsDebt, Where
<1>2. \A k \in DOMAIN live : live[k] \in DebtRecords /\ live[k].balance > 0
  <2>1. DOMAIN debts = 1..Len(debts) /\ Len(debts) \in Nat
    OBVIOUS
  <2>2. S \in SUBSET (1..Len(debts))
    BY <2>1
  <2> DEFINE q == Ascending(S)
  <2>3. Picks([k \in DOMAIN q |-> debts[q[k]]], debts, S, Cardinality(S), q)
    <3> HIDE DEF S
    <3>1. QED
      BY <2>1, <2>2, AscendingPicks
  <2> HIDE DEF q
  <2>4. DOMAIN q = 1..Cardinality(S) /\ \A k \in DOMAIN q : q[k] \in S
    BY <2>3 DEF Picks
  <2>5. \A k \in DOMAIN q : debts[q[k]] \in DebtRecords /\ debts[q[k]].balance > 0
    BY <2>4
  <2>6. QED
    BY <2>5 DEF q
<1> HIDE DEF live, all
<1>3. rate \in Nat
  BY RateIsAmount
<1> HIDE DEF rate, kept
<1>4. ASSUME NEW k \in DOMAIN live
      PROVE RowSays(Payoff(amount, apy, live[k], profile, days, rate, kept, all),
                    amount, apy, days, rate, kept)
  BY <1>2, <1>3, PayoffSays
<1> HIDE DEF table
<1>5. \A k \in DOMAIN table : RowSays(table[k], amount, apy, days, rate, kept)
  BY <1>1, <1>4
<1>6. QED
  BY <1>5 DEF rate, kept, table

(* For every amount, yield, horizon, list of debts and tax profile.        *)
LEMMA EveryComparison ==
  ASSUME NEW amount \in Nat, NEW apy \in Nat, NEW days \in Nat, NEW debts \in Seq(DebtRecords),
         NEW profile \in TaxProfiles
  PROVE BreakEvenDecides(amount, apy, debts, profile, days)
<1> DEFINE rate == RateOnInterest(profile, FALSE)
           table == CompareSavingsVsDebt(amount, apy, debts, profile, days, FALSE).rows
           kept == AfterTaxInterest(SimpleInterest(amount, apy, days), rate)
<1>1. \A k \in DOMAIN table : RowSays(table[k], amount, apy, days, rate, kept)
  BY RowsCompared
<1>2. rate \in Nat
  BY RateIsAmount
<1> HIDE DEF table, rate
<1>3. ASSUME NEW k \in DOMAIN table, table[k].breaksEven
      PROVE IF AtOrAbove(apy, table[k], rate, days)
            THEN table[k].versusBaseline <= 2 ELSE table[k].versusBaseline >= -2
  BY <1>1, <1>2, <1>3, RowDecides
<1> HIDE DEF kept
<1>4. (\A k \in DOMAIN table : table[k].breaksEven) =>
        /\ \A k \in DOMAIN table : table[k].applied + table[k].retained = amount /\ table[k].left >= 0
        /\ IF AboveBreakEven(apy, table, rate, days)
           THEN \A k \in DOMAIN table : table[k].versusBaseline <= 2
           ELSE \E k \in DOMAIN table : table[k].versusBaseline >= -2
  <2>1. SUFFICES ASSUME \A k \in DOMAIN table : table[k].breaksEven
                 PROVE /\ \A k \in DOMAIN table :
                             table[k].applied + table[k].retained = amount /\ table[k].left >= 0
                       /\ IF AboveBreakEven(apy, table, rate, days)
                          THEN \A k \in DOMAIN table : table[k].versusBaseline <= 2
                          ELSE \E k \in DOMAIN table : table[k].versusBaseline >= -2
    OBVIOUS
  <2>2. \A k \in DOMAIN table : table[k].applied + table[k].retained = amount /\ table[k].left >= 0
    BY <1>1 DEF RowSays
  <2>3. CASE AboveBreakEven(apy, table, rate, days)
    BY <1>3, <2>1, <2>2, <2>3 DEF AboveBreakEven
  <2>4. CASE ~ AboveBreakEven(apy, table, rate, days)
    <3>1. PICK k \in DOMAIN table : ~ AtOrAbove(apy, table[k], rate, days)
      BY <2>4 DEF AboveBreakEven
    <3>2. table[k].versusBaseline >= -2
      BY <1>3, <2>1, <3>1
    <3>3. QED
      BY <2>2, <2>4, <3>2
  <2>5. QED
    BY <2>3, <2>4
<1>5. QED
  BY <1>4 DEF BreakEvenDecides, table, rate

(***************************************************************************)
(* The break-even yield that is shown decides the comparison: cash that     *)
(* earns it or more is beaten by no debt by over two cents, and cash that   *)
(* earns less beats every debt by over two cents in no comparison           *)
(* (compare_savings_vs_debt).                                               *)
(***************************************************************************)
THEOREM BreakEvenCorrect == FiguresSpec => []BreakEvenHonest
<1>1. FiguresInit => BreakEvenHonest
  <2>1. SUFFICES ASSUME FiguresInit, figure.kind = "taxes"
                 PROVE BreakEvenDecides(figure.amount, figure.apy, figure.debts,
                                        figure.profile, figure.days)
    BY DEF BreakEvenHonest
  <2>2. figure \in Comparisons
    BY <2>1, PurchasesTyped, HouseholdsTyped DEF FiguresInit
  <2>3. QED
    BY <2>2, ComparisonsTyped, EveryComparison
<1>2. BreakEvenHonest /\ [UNCHANGED figure]_figure => BreakEvenHonest'
  BY DEF BreakEvenHonest
<1>3. QED
  BY <1>1, <1>2, PTL DEF FiguresSpec

(***************************************************************************)
(* Cards.  What a card earns on a purchase.                                *)
(***************************************************************************)
MatchAt(card, p) == {i \in DOMAIN card.rules : Applies(card.rules[i], p)}
BaseAt(card) == {i \in DOMAIN card.rules : card.rules[i].category = "base"}

(* The rules at c places of a card.                                        *)
RulesAt(card, c, kept, rules) ==
    /\ c \in Nat /\ kept \in [1..c -> DOMAIN card.rules]
    /\ rules = [k \in 1..c |-> card.rules[kept[k]]]

LEMMA RulesPicked ==
  ASSUME NEW card \in CardRecords, NEW S \in SUBSET (DOMAIN card.rules)
  PROVE LET q == Ascending(S)
        IN  /\ RulesAt(card, Cardinality(S), q, [k \in DOMAIN q |-> card.rules[q[k]]])
            /\ \A k \in 1..Cardinality(S) : q[k] \in S
<1> DEFINE q == Ascending(S)
<1>1. DOMAIN card.rules = 1..Len(card.rules) /\ Len(card.rules) \in Nat
  BY DEF CardRecords
<1>2. Picks([k \in DOMAIN q |-> card.rules[q[k]]], card.rules, S, Cardinality(S), q)
  BY <1>1, AscendingPicks
<1> HIDE DEF q
<1>3. RulesAt(card, Cardinality(S), q, [k \in DOMAIN q |-> card.rules[q[k]]])
      /\ \A k \in 1..Cardinality(S) : q[k] \in S
  BY <1>2 DEF Picks, RulesAt
<1>4. QED
  BY <1>3 DEF q

LEMMA Matched ==
  ASSUME NEW card \in CardRecords, NEW p
  PROVE /\ RulesAt(card, Cardinality(MatchAt(card, p)), Ascending(MatchAt(card, p)),
                   MatchingRules(card, p))
        /\ \A k \in 1..Cardinality(MatchAt(card, p)) :
              Ascending(MatchAt(card, p))[k] \in MatchAt(card, p)
<1> DEFINE S == MatchAt(card, p)
           q == Ascending(S)
<1>1. MatchingRules(card, p) = [k \in DOMAIN q |-> card.rules[q[k]]]
  BY DEF MatchingRules, Where, MatchAt
<1>2. S \in SUBSET (DOMAIN card.rules)
  BY DEF MatchAt
<1> HIDE DEF S
<1>3. /\ RulesAt(card, Cardinality(S), q, [k \in DOMAIN q |-> card.rules[q[k]]])
      /\ \A k \in 1..Cardinality(S) : q[k] \in S
  BY <1>2, RulesPicked
<1> HIDE DEF q
<1>4. /\ RulesAt(card, Cardinality(S), q, MatchingRules(card, p))
      /\ \A k \in 1..Cardinality(S) : q[k] \in S
  BY <1>1, <1>3
<1>5. QED
  BY <1>4 DEF q, S

LEMMA EmptyList ==
  ASSUME NEW c \in Nat, NEW f, f = [k \in 1..c |-> f[k]]
  PROVE c = 0 <=> (f = <<>>)
<1>1. ASSUME f = <<>>, c # 0 PROVE FALSE
  <2>1. 1 \in DOMAIN f
    BY <1>1
  <2>2. QED
    BY <1>1, <2>1
<1>2. c = 0 => f = <<>>
  OBVIOUS
<1>3. QED
  BY <1>1, <1>2

(* The first of the highest rates.                                         *)
Tops(k, rules) ==
    /\ k \in DOMAIN rules
    /\ \A j \in DOMAIN rules : rules[j].rate <= rules[k].rate
    /\ \A j \in 1..(k - 1) : rules[j].rate < rules[k].rate

LEMMA OneIsHighest ==
  ASSUME NEW n \in Nat \ {0}, NEW rate \in [1..n -> Nat]
  PROVE \E k \in 1..n : /\ \A j \in 1..n : rate[j] <= rate[k]
                        /\ \A j \in 1..(k - 1) : rate[j] < rate[k]
<1> DEFINE Highest(m, k) == /\ k \in 1..m
                            /\ \A j \in 1..m : rate[j] <= rate[k]
                            /\ \A j \in 1..(k - 1) : rate[j] < rate[k]
           Done == {m \in Nat : m \in 1..n => \E k : Highest(m, k)}
<1>1. 0 \in Done
  OBVIOUS
<1>2. ASSUME NEW m \in Nat, m \in Done PROVE m + 1 \in Done
  <2>1. SUFFICES ASSUME m + 1 \in 1..n PROVE \E k : Highest(m + 1, k)
    OBVIOUS
  <2>2. CASE m = 0
    <3>1. Highest(m + 1, 1)
      BY <2>1, <2>2
    <3>2. QED
      BY <3>1
  <2>3. CASE m > 0
    <3>1. PICK k : Highest(m, k)
      BY <1>2, <2>1, <2>3
    <3>2. CASE rate[m + 1] <= rate[k]
      <4>1. Highest(m + 1, k)
        BY <2>1, <3>1, <3>2
      <4>2. QED
        BY <4>1
    <3>3. CASE rate[m + 1] > rate[k]
      <4>1. Highest(m + 1, m + 1)
        BY <2>1, <3>1, <3>3
      <4>2. QED
        BY <4>1
    <3>4. rate[m + 1] \in Nat /\ rate[k] \in Nat
      BY <2>1, <3>1
    <3>5. QED
      BY <3>2, <3>3, <3>4
  <2>4. QED
    BY <1>2, <2>2, <2>3
<1> HIDE DEF Done
<1>3. n \in Done
  BY <1>1, <1>2, SetInduction
<1>4. QED
  BY <1>3 DEF Done

LEMMA BestTops ==
  ASSUME NEW n \in Nat \ {0}, NEW rules, rules = [k \in 1..n |-> rules[k]],
         \A k \in 1..n : rules[k] \in RewardRules
  PROVE \E k \in 1..n : Tops(k, rules) /\ Best(rules) = rules[k]
<1> DEFINE rate == [k \in 1..n |-> rules[k].rate]
           best == CHOOSE k \in DOMAIN rules :
                     /\ \A j \in DOMAIN rules : rules[j].rate <= rules[k].rate
                     /\ \A j \in 1..(k - 1) : rules[j].rate < rules[k].rate
<1>1. rate \in [1..n -> Nat] /\ DOMAIN rules = 1..n
  BY DEF RewardRules
<1>2. PICK k \in 1..n : /\ \A j \in 1..n : rate[j] <= rate[k]
                        /\ \A j \in 1..(k - 1) : rate[j] < rate[k]
  <2> HIDE DEF rate
  <2>1. QED
    BY <1>1, OneIsHighest
<1>3. Tops(k, rules)
  <2>1. \A j \in 1..n : rate[j] = rules[j].rate
    OBVIOUS
  <2> HIDE DEF rate
  <2>2. 1..(k - 1) \subseteq 1..n
    BY <1>2
  <2>3. (\A j \in 1..n : rules[j].rate <= rules[k].rate)
        /\ \A j \in 1..(k - 1) : rules[j].rate < rules[k].rate
    BY <1>2, <2>1, <2>2
  <2>4. QED
    BY <1>1, <1>2, <2>3 DEF Tops
<1>4. Tops(best, rules)
  <2>1. \E i \in DOMAIN rules : Tops(i, rules)
    BY <1>3 DEF Tops
  <2>2. QED
    BY <2>1 DEF Tops
<1>5. Best(rules) = rules[best]
  BY DEF Best
<1> HIDE DEF best
<1>6. best \in 1..n
  BY <1>1, <1>4 DEF Tops
<1>7. QED
  BY <1>4, <1>5, <1>6

LEMMA OneTop ==
  ASSUME NEW n \in Nat, NEW rules, DOMAIN rules = 1..n, \A i \in 1..n : rules[i].rate \in Nat,
         NEW j, NEW k, Tops(j, rules), Tops(k, rules)
  PROVE j = k
<1>1. j \in 1..n /\ k \in 1..n
  BY DEF Tops
<1>2. ~ (j < k) /\ ~ (k < j)
  BY <1>1 DEF Tops
<1>3. QED
  BY <1>1, <1>2

LEMMA BaseRateType ==
  ASSUME NEW card \in CardRecords
  PROVE /\ BaseRate(card) \in Nat
        /\ BaseAt(card) = {} => BaseRate(card) = 10
        /\ BaseAt(card) # {} => /\ Ascending(BaseAt(card))[1] \in DOMAIN card.rules
                                /\ BaseRate(card) = card.rules[Ascending(BaseAt(card))[1]].rate
<1> DEFINE S == BaseAt(card)
           q == Ascending(S)
           base == [k \in DOMAIN q |-> card.rules[q[k]]]
<1>1. BaseRate(card) = IF base = <<>> THEN 10 ELSE base[1].rate
  BY DEF BaseRate, Where, BaseAt
<1>2. S \in SUBSET (DOMAIN card.rules)
  BY DEF BaseAt
<1>3. RulesAt(card, Cardinality(S), q, base) /\ \A k \in 1..Cardinality(S) : q[k] \in S
  <2> HIDE DEF S
  <2>1. QED
    BY <1>2, RulesPicked
<1> HIDE DEF q, base
<1>4. Cardinality(S) \in Nat /\ base = [k \in 1..Cardinality(S) |-> base[k]]
  BY <1>3 DEF RulesAt
<1>5. Cardinality(S) = 0 <=> base = <<>>
  <2> HIDE DEF S
  <2>1. QED
    BY <1>4, EmptyList
<1>6. S = {} <=> Cardinality(S) = 0
  <2>1. DOMAIN card.rules = 1..Len(card.rules) /\ Len(card.rules) \in Nat
    BY DEF CardRecords
  <2> HIDE DEF S
  <2>2. IsFiniteSet(S)
    BY <1>2, <2>1, AscendingLists
  <2>3. QED
    BY <2>2, FS_EmptySet
<1>7. CASE S = {}
  BY <1>1, <1>5, <1>6, <1>7
<1>8. CASE S # {}
  <2>1. 1 \in 1..Cardinality(S)
    BY <1>4, <1>6, <1>8
  <2>2. q[1] \in DOMAIN card.rules /\ base[1] = card.rules[q[1]]
    BY <1>3, <2>1 DEF RulesAt
  <2>3. card.rules[q[1]].rate \in Nat
    <3>1. card.rules[q[1]] \in RewardRules
      BY <2>2 DEF CardRecords
    <3>2. QED
      BY <3>1 DEF RewardRules
  <2>4. BaseRate(card) = card.rules[q[1]].rate
    BY <1>1, <1>5, <1>6, <1>8, <2>2
  <2>5. QED
    BY <1>8, <2>2, <2>3, <2>4 DEF q
<1>9. QED
  BY <1>7, <1>8

(* What an amount earns: a bonus on what fits under what is left of a cap, *)
(* and the base rate on the rest.                                          *)
Earned(amount, rate, left, base) ==
    LET bonus == IF Bounded(left) THEN Smaller(amount, left) ELSE amount
    IN  bonus * rate + (amount - bonus) * base

LEMMA UnitsOfNone ==
  ASSUME NEW card \in CardRecords, NEW p, Cardinality(MatchAt(card, p)) = 0
  PROVE Units(card, p) = p.amount * BaseRate(card)
<1> DEFINE rules == MatchingRules(card, p)
<1>1. RulesAt(card, 0, Ascending(MatchAt(card, p)), rules)
  BY Matched
<1> HIDE DEF rules
<1>2. rules = [k \in 1..0 |-> rules[k]]
  BY <1>1 DEF RulesAt
<1>3. rules = <<>>
  BY <1>2, EmptyList
<1>4. QED
  BY <1>3 DEF Units, rules

LEMMA UnitsOfTop ==
  ASSUME NEW card \in CardRecords, NEW p, NEW n \in Nat \ {0}, NEW kept, NEW rules,
         rules = MatchingRules(card, p), RulesAt(card, n, kept, rules),
         NEW k, Tops(k, rules)
  PROVE /\ kept[k] \in DOMAIN card.rules
        /\ Units(card, p) = Earned(p.amount, card.rules[kept[k]].rate,
                                   CapRemaining(card.rules[kept[k]]), BaseRate(card))
<1>1. /\ rules = [i \in 1..n |-> rules[i]] /\ DOMAIN rules = 1..n
      /\ \A i \in 1..n : rules[i] \in RewardRules /\ rules[i] = card.rules[kept[i]]
                            /\ kept[i] \in DOMAIN card.rules
  BY DEF RulesAt, CardRecords
<1>2. PICK j \in 1..n : Tops(j, rules) /\ Best(rules) = rules[j]
  BY <1>1, BestTops
<1>3. j = k
  <2>1. \A i \in 1..n : rules[i].rate \in Nat
    BY <1>1 DEF RewardRules
  <2>2. QED
    BY <1>1, <1>2, <2>1, OneTop
<1>4. rules # <<>>
  BY <1>1, EmptyList
<1>5. Best(rules) = card.rules[kept[k]] /\ kept[k] \in DOMAIN card.rules
  BY <1>1, <1>2, <1>3
<1>6. QED
  BY <1>4, <1>5 DEF Units, Earned

(***************************************************************************)
(* Two purchases in a row.                                                 *)
(***************************************************************************)
LEMMA EarnedType ==
  ASSUME NEW a \in Nat, NEW rate \in Nat, NEW base \in Nat, NEW left \in Nat \union {NoCap}
  PROVE Earned(a, rate, left, base) \in Nat
<1> DEFINE bonus == IF Bounded(left) THEN Smaller(a, left) ELSE a
<1>1. bonus \in Nat /\ a - bonus \in Nat
  BY DEF Bounded, Smaller, NoCap
<1> HIDE DEF bonus
<1>2. bonus * rate \in Nat /\ (a - bonus) * base \in Nat
  BY <1>1, Product
<1>3. QED
  BY <1>2 DEF Earned, bonus

LeftAfter(left, a) == IF Bounded(left) THEN ClampMinZero(left - a) ELSE NoCap

LEMMA EarnedInParts ==
  ASSUME NEW a \in Nat, NEW b \in Nat, NEW c \in Nat, c = a + b,
         NEW rate \in Nat, NEW base \in Nat,
         NEW left \in Nat \union {NoCap}, NEW then \in Nat \union {NoCap}, then = LeftAfter(left, a)
  PROVE Earned(a, rate, left, base) + Earned(b, rate, then, base) = Earned(c, rate, left, base)
<1> DEFINE one == IF Bounded(left) THEN Smaller(a, left) ELSE a
           two == IF Bounded(then) THEN Smaller(b, then) ELSE b
           all == IF Bounded(left) THEN Smaller(c, left) ELSE c
<1>1. one \in Nat /\ two \in Nat /\ one <= a /\ two <= b /\ all = one + two
  <2>1. CASE left = NoCap
    BY <2>1 DEF Bounded, LeftAfter
  <2>2. CASE left # NoCap
    <3>1. left \in Nat /\ then = IF left - a >= 0 THEN left - a ELSE 0
      BY <2>2 DEF Bounded, ClampMinZero, Larger, LeftAfter
    <3>2. then # NoCap
      BY <3>1 DEF NoCap
    <3>3. QED
      BY <2>2, <3>1, <3>2 DEF Bounded, Smaller
  <2>3. QED
    BY <2>1, <2>2
<1> HIDE DEF one, two, all
<1>2. all * rate = one * rate + two * rate
  BY <1>1
<1>3. (c - all) * base = (a - one) * base + (b - two) * base
  <2>1. PICK u \in Nat, v \in Nat : u = a - one /\ v = b - two /\ c - all = u + v
    BY <1>1
  <2>2. (u + v) * base = u * base + v * base
    OBVIOUS
  <2>3. QED
    BY <2>1, <2>2
<1>4. one * rate \in Int /\ two * rate \in Int /\ (a - one) * base \in Int /\ (b - two) * base \in Int
  <2>1. a - one \in Nat /\ b - two \in Nat
    BY <1>1
  <2>2. QED
    BY <1>1, <2>1, Product
<1>5. (one * rate + (a - one) * base) + (two * rate + (b - two) * base)
         = all * rate + (c - all) * base
  BY <1>2, <1>3, <1>4
<1>6. /\ Earned(a, rate, left, base) = one * rate + (a - one) * base
      /\ Earned(b, rate, then, base) = two * rate + (b - two) * base
      /\ Earned(c, rate, left, base) = all * rate + (c - all) * base
  <2>1. Earned(a, rate, left, base) = one * rate + (a - one) * base
    BY DEF Earned, one
  <2>2. Earned(b, rate, then, base) = two * rate + (b - two) * base
    BY DEF Earned, two
  <2>3. Earned(c, rate, left, base) = all * rate + (c - all) * base
    BY DEF Earned, all
  <2>4. QED
    BY <2>1, <2>2, <2>3
<1>7. QED
  BY <1>5, <1>6

LEMMA RoundedParts ==
  ASSUME NEW x \in Nat, NEW y \in Nat, NEW d \in Nat, d > 0
  PROVE RoundHalfUp(x, d) + RoundHalfUp(y, d) - RoundHalfUp(x + y, d) \in -1..1
<1> DEFINE r == RoundHalfUp(x, d)
           s == RoundHalfUp(y, d)
           t == RoundHalfUp(x + y, d)
           e == r + s - t
<1>1. /\ r \in Nat /\ 2 * x - d <= 2 * (d * r) /\ 2 * (d * r) <= 2 * x + d
      /\ s \in Nat /\ 2 * y - d <= 2 * (d * s) /\ 2 * (d * s) <= 2 * y + d
  BY RoundsUp
<1>2. /\ t \in Nat /\ 2 * (x + y) - d <= 2 * (d * t) /\ 2 * (d * t) <= 2 * (x + y) + d
  BY x + y \in Nat, RoundsUp
<1> HIDE DEF r, s, t
<1>3. d * e = d * r + d * s - d * t /\ e \in Int
  BY <1>1, <1>2
<1>4. d * r \in Nat /\ d * s \in Nat /\ d * t \in Nat
  BY <1>1, <1>2, Product
<1>5. 2 * (d * e) <= 3 * d /\ -(3 * d) <= 2 * (d * e)
  BY <1>1, <1>2, <1>3, <1>4
<1> HIDE DEF e
<1>6. ASSUME e >= 2 PROVE FALSE
  <2>1. 2 * d <= e * d
    BY <1>3, <1>6, TimesKeepsOrder
  <2>2. QED
    BY <1>3, <1>5, <2>1
<1>7. ASSUME e <= -2 PROVE FALSE
  <2>1. e * d <= -2 * d
    BY <1>3, <1>7, TimesKeepsOrder
  <2>2. QED
    BY <1>3, <1>5, <2>1
<1>8. e \in -1..1
  BY <1>3, <1>6, <1>7
<1>9. QED
  BY <1>8 DEF e, r, s, t

LEMMA CapLeft ==
  ASSUME NEW r \in RewardRules, NEW a \in Nat
  PROVE /\ CapRemaining(r) \in Nat \union {NoCap}
        /\ CapRemaining([r EXCEPT !.used = @ + a]) = LeftAfter(CapRemaining(r), a)
        /\ LeftAfter(CapRemaining(r), a) \in Nat \union {NoCap}
        /\ [r EXCEPT !.used = @ + a] \in RewardRules
<1> DEFINE s == [r EXCEPT !.used = @ + a]
<1>1. r.cap \in Nat \union {NoCap} /\ r.used \in Int
  BY DEF RewardRules
<1>2. s \in RewardRules /\ s.cap = r.cap /\ s.used = r.used + a
  BY DEF RewardRules
<1> HIDE DEF s
<1>3. CASE r.cap = NoCap
  BY <1>2, <1>3 DEF CapRemaining, Bounded, LeftAfter, s
<1>4. CASE r.cap # NoCap
  <2>1. r.cap \in Nat /\ CapRemaining(r) = ClampMinZero(r.cap - r.used)
        /\ CapRemaining(s) = ClampMinZero(r.cap - (r.used + a))
    BY <1>1, <1>2, <1>4 DEF CapRemaining, Bounded
  <2>2. CapRemaining(r) \in Nat
    BY <1>1, <2>1 DEF ClampMinZero, Larger
  <2>3. Bounded(CapRemaining(r))
    BY <2>2 DEF Bounded, NoCap
  <2>4. CapRemaining(s) = ClampMinZero(CapRemaining(r) - a)
    BY <1>1, <2>1 DEF ClampMinZero, Larger
  <2>5. ClampMinZero(CapRemaining(r) - a) \in Nat
    BY <2>2 DEF ClampMinZero, Larger
  <2>6. QED
    BY <1>2, <2>2, <2>3, <2>4, <2>5 DEF s, LeftAfter
<1>5. QED
  BY <1>3, <1>4

(* A card after part of a purchase: only the used caps have changed.       *)
LEMMA SpentCard ==
  ASSUME NEW card \in CardRecords, NEW p \in PurchaseRecords
  PROVE /\ AfterBuying(card, p) \in CardRecords
        /\ DOMAIN AfterBuying(card, p).rules = DOMAIN card.rules
        /\ \A i \in DOMAIN card.rules : AfterBuying(card, p).rules[i] = SpentRule(card.rules[i], p)
        /\ AfterBuying(card, p).cashback = card.cashback
        /\ AfterBuying(card, p).pointValue = card.pointValue
<1> DEFINE list == [k \in DOMAIN card.rules |-> SpentRule(card.rules[k], p)]
<1>1. AfterBuying(card, p) = [card EXCEPT !.rules = list]
  BY DEF AfterBuying
<1>2. card.rules \in Seq(RewardRules) /\ p.amount \in Nat
  BY DEF CardRecords, PurchaseRecords
<1>3. \A k \in DOMAIN card.rules : SpentRule(card.rules[k], p) \in RewardRules
  <2>1. ASSUME NEW k \in DOMAIN card.rules PROVE SpentRule(card.rules[k], p) \in RewardRules
    <3>1. PICK r \in RewardRules : r = card.rules[k]
      BY <1>2
    <3>2. [r EXCEPT !.used = @ + p.amount] \in RewardRules
      BY <1>2, CapLeft
    <3>3. SpentRule(r, p) \in RewardRules
      BY <3>2 DEF SpentRule
    <3>4. QED
      BY <3>1, <3>3
  <2>2. QED
    BY <2>1
<1>4. list \in Seq(RewardRules)
  <2>1. DOMAIN card.rules = 1..Len(card.rules) /\ Len(card.rules) \in Nat
    BY <1>2
  <2>2. list \in [1..Len(card.rules) -> RewardRules]
    BY <1>3, <2>1
  <2> HIDE DEF list
  <2>3. QED
    BY <2>1, <2>2, ListsAreSequences
<1>5. DOMAIN list = DOMAIN card.rules
      /\ \A k \in DOMAIN card.rules : list[k] = SpentRule(card.rules[k], p)
  OBVIOUS
<1> HIDE DEF list
<1>6. QED
  BY <1>1, <1>4, <1>5 DEF CardRecords

LEMMA SameRule ==
  ASSUME NEW r \in RewardRules, NEW p \in PurchaseRecords, NEW q \in PurchaseRecords,
         q.category = p.category, q.date = p.date, q.merchant = p.merchant, q.channel = p.channel,
         NEW o \in PurchaseRecords
  PROVE /\ SpentRule(r, o).rate = r.rate /\ SpentRule(r, o).category = r.category
        /\ Applies(SpentRule(r, o), q) <=> Applies(r, p)
        /\ Applies(r, q) <=> Applies(r, p)
<1> DEFINE s == SpentRule(r, o)
<1>1. /\ s.category = r.category /\ s.rate = r.rate /\ s.from = r.from /\ s.until = r.until
      /\ s.merchants = r.merchants /\ s.channels = r.channels
      /\ s.needsActivation = r.needsActivation /\ s.activated = r.activated
  BY DEF SpentRule, RewardRules
<1> HIDE DEF s
<1>2. Applies(s, q) <=> Applies(r, p)
  BY <1>1 DEF Applies
<1>3. Applies(r, q) <=> Applies(r, p)
  BY DEF Applies
<1>4. QED
  BY <1>1, <1>2, <1>3 DEF s

LEMMA PartsTyped ==
  ASSUME NEW p \in PurchaseRecords, NEW first \in 0..p.amount
  PROVE LET one == PartOf(p, first)
            two == PartOf(p, p.amount - first)
        IN  /\ one \in PurchaseRecords /\ two \in PurchaseRecords
            /\ one.amount = first /\ two.amount = p.amount - first
            /\ one.category = p.category /\ two.category = p.category
            /\ one.date = p.date /\ one.merchant = p.merchant /\ one.channel = p.channel
            /\ two.date = p.date /\ two.merchant = p.merchant /\ two.channel = p.channel
BY DEF PurchaseRecords, PartOf

(* The same places match, before and after a part is spent.                *)
LEMMA SameMatch ==
  ASSUME NEW card \in CardRecords, NEW p \in PurchaseRecords, NEW q \in PurchaseRecords,
         q.category = p.category, q.date = p.date, q.merchant = p.merchant, q.channel = p.channel,
         NEW o \in PurchaseRecords
  PROVE /\ MatchAt(card, q) = MatchAt(card, p)
        /\ MatchAt(AfterBuying(card, o), q) = MatchAt(card, p)
        /\ BaseAt(AfterBuying(card, o)) = BaseAt(card)
        /\ BaseRate(AfterBuying(card, o)) = BaseRate(card)
<1>1. /\ AfterBuying(card, o) \in CardRecords /\ DOMAIN AfterBuying(card, o).rules = DOMAIN card.rules
      /\ \A i \in DOMAIN card.rules : AfterBuying(card, o).rules[i] = SpentRule(card.rules[i], o)
  BY SpentCard
<1>2. \A i \in DOMAIN card.rules : card.rules[i] \in RewardRules
  BY DEF CardRecords
<1>3. ASSUME NEW i \in DOMAIN card.rules
      PROVE /\ AfterBuying(card, o).rules[i].rate = card.rules[i].rate
            /\ AfterBuying(card, o).rules[i].category = card.rules[i].category
            /\ Applies(AfterBuying(card, o).rules[i], q) <=> Applies(card.rules[i], p)
            /\ Applies(card.rules[i], q) <=> Applies(card.rules[i], p)
  BY <1>1, <1>2, SameRule
<1>4. MatchAt(card, q) = MatchAt(card, p) /\ MatchAt(AfterBuying(card, o), q) = MatchAt(card, p)
  BY <1>1, <1>3 DEF MatchAt
<1>5. BaseAt(AfterBuying(card, o)) = BaseAt(card)
  BY <1>1, <1>3 DEF BaseAt
<1>6. BaseRate(AfterBuying(card, o)) = BaseRate(card)
  BY <1>1, <1>3, <1>5, BaseRateType
<1>7. QED
  BY <1>4, <1>5, <1>6

LEMMA UnitsType ==
  ASSUME NEW card \in CardRecords, NEW p \in PurchaseRecords
  PROVE Units(card, p) \in Nat
<1> DEFINE S == MatchAt(card, p)
           n == Cardinality(S)
           rules == MatchingRules(card, p)
           kept == Ascending(S)
<1>1. RulesAt(card, n, kept, rules) /\ n \in Nat
  BY Matched DEF RulesAt
<1>2. p.amount \in Nat /\ BaseRate(card) \in Nat
  BY BaseRateType DEF PurchaseRecords
<1>3. CASE n = 0
  BY <1>2, <1>3, UnitsOfNone, Product
<1>4. CASE n # 0
  <2> HIDE DEF n, kept, rules
  <2>1. /\ rules = [i \in 1..n |-> rules[i]]
        /\ \A i \in 1..n : rules[i] \in RewardRules
    BY <1>1 DEF RulesAt, CardRecords
  <2>2. PICK k \in 1..n : Tops(k, rules)
    BY <1>1, <1>4, <2>1, BestTops
  <2>3. /\ kept[k] \in DOMAIN card.rules
        /\ Units(card, p) = Earned(p.amount, card.rules[kept[k]].rate,
                                   CapRemaining(card.rules[kept[k]]), BaseRate(card))
    BY <1>1, <1>4, <2>2, UnitsOfTop DEF rules
  <2>4. card.rules[kept[k]] \in RewardRules
    BY <2>3 DEF CardRecords
  <2>5. /\ card.rules[kept[k]].rate \in Nat
        /\ CapRemaining(card.rules[kept[k]]) \in Nat \union {NoCap}
    BY <2>4, CapLeft, 0 \in Nat DEF RewardRules
  <2>6. QED
    BY <1>2, <2>3, <2>5, EarnedType
<1>5. QED
  BY <1>3, <1>4

LEMMA UnitsInParts ==
  ASSUME NEW card \in CardRecords, NEW p \in PurchaseRecords,
         NEW one \in PurchaseRecords, NEW two \in PurchaseRecords,
         one.amount + two.amount = p.amount,
         one.category = p.category, one.date = p.date, one.merchant = p.merchant,
         one.channel = p.channel,
         two.category = p.category, two.date = p.date, two.merchant = p.merchant,
         two.channel = p.channel
  PROVE Units(card, one) + Units(AfterBuying(card, one), two) = Units(card, p)
<1> DEFINE S == MatchAt(card, p)
           n == Cardinality(S)
           kept == Ascending(S)
           after == AfterBuying(card, one)
           base == BaseRate(card)
<1>1. /\ after \in CardRecords /\ DOMAIN after.rules = DOMAIN card.rules
      /\ \A i \in DOMAIN card.rules : after.rules[i] = SpentRule(card.rules[i], one)
  BY SpentCard
<1>2. /\ MatchAt(card, one) = S /\ MatchAt(after, two) = S
      /\ BaseRate(after) = base /\ base \in Nat
  BY SameMatch, BaseRateType
<1> HIDE DEF after, S, base
<1>3. /\ RulesAt(card, n, kept, MatchingRules(card, p))
      /\ RulesAt(card, n, kept, MatchingRules(card, one))
      /\ RulesAt(after, n, kept, MatchingRules(after, two))
  BY <1>1, <1>2, Matched DEF S
<1>4. /\ p.amount \in Nat /\ one.amount \in Nat /\ two.amount \in Nat
      /\ p.amount = one.amount + two.amount
  BY DEF PurchaseRecords
<1>5. n \in Nat
  BY <1>3 DEF RulesAt
<1>6. CASE n = 0
  <2>1. /\ Units(card, one) = one.amount * base /\ Units(after, two) = two.amount * base
        /\ Units(card, p) = p.amount * base
    BY <1>1, <1>2, <1>6, UnitsOfNone DEF S, base
  <2>2. (one.amount + two.amount) * base = one.amount * base + two.amount * base
    BY <1>2, <1>4
  <2>3. QED
    BY <1>4, <2>1, <2>2 DEF after
<1>7. CASE n # 0
  <2> DEFINE before == MatchingRules(card, p)
             then == MatchingRules(after, two)
  <2>1. before = MatchingRules(card, one)
    BY <1>3 DEF RulesAt
  <2> HIDE DEF n, kept, before, then
  <2>2. /\ before = [i \in 1..n |-> before[i]] /\ DOMAIN before = 1..n
        /\ \A i \in 1..n : /\ before[i] \in RewardRules /\ before[i] = card.rules[kept[i]]
                           /\ kept[i] \in DOMAIN card.rules
    BY <1>3 DEF RulesAt, CardRecords, before
  <2>3. /\ then = [i \in 1..n |-> then[i]] /\ DOMAIN then = 1..n
        /\ \A i \in 1..n : then[i] = after.rules[kept[i]]
    BY <1>3 DEF RulesAt, then
  <2>4. \A i \in 1..n : then[i] = SpentRule(before[i], one) /\ then[i].rate = before[i].rate
    <3>1. ASSUME NEW i \in 1..n
          PROVE then[i] = SpentRule(before[i], one) /\ then[i].rate = before[i].rate
      <4>1. then[i] = SpentRule(before[i], one) /\ before[i] \in RewardRules
        BY <1>1, <2>2, <2>3
      <4>2. QED
        BY <4>1, SameRule
    <3>2. QED
      BY <3>1
  <2>5. PICK k \in 1..n : Tops(k, before)
    BY <1>5, <1>7, <2>2, BestTops
  <2>6. Tops(k, then)
    <3>1. 1..(k - 1) \subseteq 1..n
      BY <1>5, <2>5
    <3>2. QED
      BY <2>2, <2>3, <2>4, <2>5, <3>1 DEF Tops
  <2> DEFINE r == card.rules[kept[k]]
             s == after.rules[kept[k]]
  <2>7. /\ Units(card, p) = Earned(p.amount, r.rate, CapRemaining(r), base)
        /\ Units(card, one) = Earned(one.amount, r.rate, CapRemaining(r), base)
    BY <1>3, <1>5, <1>7, <2>1, <2>5, UnitsOfTop DEF before, base
  <2>8. Units(after, two) = Earned(two.amount, s.rate, CapRemaining(s), base)
    <3>1. Units(after, two) = Earned(two.amount, s.rate, CapRemaining(s), BaseRate(after))
      BY <1>1, <1>3, <1>5, <1>7, <2>6, UnitsOfTop DEF then
    <3>2. QED
      BY <1>2, <3>1
  <2>9. r \in RewardRules /\ r = before[k] /\ s = SpentRule(r, one) /\ r.rate \in Nat
        /\ s.rate = r.rate
    BY <2>2, <2>3, <2>4, <2>5 DEF RewardRules
  <2>10. r.category = one.category
    <3>1. kept[k] \in MatchAt(card, p)
      BY <2>5, Matched DEF n, kept, S
    <3>2. Applies(card.rules[kept[k]], p)
      BY <3>1 DEF MatchAt
    <3>3. QED
      BY <3>2 DEF Applies
  <2> HIDE DEF r, s
  <2>11. s = [r EXCEPT !.used = @ + one.amount]
    BY <2>9, <2>10 DEF SpentRule
  <2>12. /\ CapRemaining(r) \in Nat \union {NoCap}
         /\ CapRemaining(s) = LeftAfter(CapRemaining(r), one.amount)
         /\ CapRemaining(s) \in Nat \union {NoCap}
    BY <1>4, <2>9, <2>11, CapLeft
  <2>13. Earned(one.amount, r.rate, CapRemaining(r), base)
            + Earned(two.amount, r.rate, CapRemaining(s), base)
            = Earned(p.amount, r.rate, CapRemaining(r), base)
    <3> DEFINE l == CapRemaining(r)
               m == CapRemaining(s)
               a == one.amount
               b == two.amount
               c == p.amount
               rate == r.rate
    <3>1. /\ a \in Nat /\ b \in Nat /\ c \in Nat /\ c = a + b /\ rate \in Nat /\ base \in Nat
          /\ l \in Nat \union {NoCap} /\ m \in Nat \union {NoCap}
          /\ m = LeftAfter(l, a)
      BY <1>2, <1>4, <2>9, <2>12
    <3> HIDE DEF l, m, a, b, c, rate
    <3>2. Earned(a, rate, l, base) + Earned(b, rate, m, base) = Earned(c, rate, l, base)
      BY <3>1, EarnedInParts
    <3>3. QED
      BY <3>2 DEF l, m, a, b, c, rate
  <2>14. QED
    BY <2>7, <2>8, <2>9, <2>13 DEF after
<1>8. QED
  BY <1>6, <1>7

LEMMA RewardType ==
  ASSUME NEW card \in CardRecords, NEW p \in PurchaseRecords
  PROVE Reward(card, p) \in Nat
<1>1. Units(card, p) \in Nat /\ card.pointValue \in Nat
  BY UnitsType DEF CardRecords
<1>2. Units(card, p) * card.pointValue \in Nat
  BY <1>1, Product
<1>3. RoundHalfUp(Units(card, p), 1000) \in Nat
  BY <1>1, RoundsUp
<1>4. PICK million \in Nat : million > 0 /\ million = 1000000
  BY SMT
<1>5. RoundHalfUp(Units(card, p) * card.pointValue, million) \in Nat
  BY SMT, <1>2, <1>4, RoundsUp
<1>6. QED
  BY SMT, <1>3, <1>4, <1>5 DEF Reward

LEMMA CapsAreMarginal ==
  ASSUME NEW card \in CardRecords, NEW p \in PurchaseRecords, NEW first \in 0..p.amount
  PROVE CapIsMarginal(card, p, first)
<1> DEFINE one == PartOf(p, first)
           two == PartOf(p, p.amount - first)
           after == AfterBuying(card, one)
           u == Units(card, one)
           v == Units(after, two)
           w == Units(card, p)
<1>1. /\ one \in PurchaseRecords /\ two \in PurchaseRecords
      /\ one.amount = first /\ two.amount = p.amount - first
      /\ one.category = p.category /\ two.category = p.category
      /\ one.date = p.date /\ one.merchant = p.merchant /\ one.channel = p.channel
      /\ two.date = p.date /\ two.merchant = p.merchant /\ two.channel = p.channel
      /\ p.amount \in Nat
  BY PartsTyped DEF PurchaseRecords
<1> HIDE DEF one, two
<1>2. after \in CardRecords /\ after.cashback = card.cashback /\ after.pointValue = card.pointValue
      /\ card.pointValue \in Nat
  BY <1>1, SpentCard DEF CardRecords
<1>3. one.amount + two.amount = p.amount
  BY <1>1
<1>4. u + v = w
  BY <1>1, <1>3, UnitsInParts
<1> HIDE DEF after
<1>5. u \in Nat /\ v \in Nat /\ w \in Nat
  BY <1>1, <1>2, UnitsType
<1> HIDE DEF u, v, w
<1>6. Reward(card, one) + Reward(after, two) - Reward(card, p) \in -1..1
  <2>1. CASE card.cashback
    <3>1. RoundHalfUp(u, 1000) + RoundHalfUp(v, 1000) - RoundHalfUp(u + v, 1000) \in -1..1
      BY <1>5, RoundedParts
    <3>2. QED
      BY <1>2, <1>4, <2>1, <3>1 DEF Reward, u, v, w
  <2>2. CASE ~ card.cashback
    <3> DEFINE value == card.pointValue
               x == u * value
               y == v * value
               z == w * value
    <3>1. x \in Nat /\ y \in Nat
      BY <1>2, <1>5, Product
    <3>2. z = x + y
      <4>1. (u + v) * value = u * value + v * value
        BY <1>2, <1>5
      <4>2. QED
        BY <1>4, <4>1
    <3>3. PICK million \in Nat : million > 0 /\ million = 1000000
      BY SMT
    <3>4. /\ Reward(card, one) = RoundHalfUp(x, million)
          /\ Reward(after, two) = RoundHalfUp(y, million)
          /\ Reward(card, p) = RoundHalfUp(z, million)
      BY SMT, <1>2, <2>2, <3>3 DEF Reward, u, v, w
    <3> HIDE DEF x, y, z
    <3>5. RoundHalfUp(x, million) + RoundHalfUp(y, million) - RoundHalfUp(x + y, million) \in -1..1
      BY SMT, <3>1, <3>3, RoundedParts
    <3>6. QED
      BY SMT, <3>2, <3>4, <3>5
  <2>3. QED
    BY <2>1, <2>2
<1>7. (Reward(card, one) + Reward(AfterBuying(card, one), two)) - Reward(card, p) \in -1..1
  <2>1. Reward(card, one) \in Nat /\ Reward(after, two) \in Nat /\ Reward(card, p) \in Nat
    BY <1>1, <1>2, RewardType
  <2>2. QED
    BY <1>6, <2>1 DEF after
<1>8. QED
  BY <1>7 DEF CapIsMarginal, one, two

(***************************************************************************)
(* The ranking.  What is still unknown of a card can only lower its net.   *)
(***************************************************************************)
LEMMA InterestIsAmount ==
  ASSUME NEW amount \in Nat, NEW apr \in Nat, NEW days \in Nat
  PROVE InterestFor(amount, apr, days) \in Nat
<1>1. amount * apr \in Nat
  BY Product
<1>2. amount * apr * days \in Nat
  BY <1>1, Product
<1>3. PICK year \in Nat : year > 0 /\ year = 365000
  BY SMT
<1>4. RoundHalfUp(amount * apr * days, year) \in Nat
  BY SMT, <1>2, <1>3, RoundsUp
<1>5. QED
  BY SMT, <1>3, <1>4 DEF InterestFor

LEMMA CostIsAmount ==
  ASSUME NEW card \in CardRecords, NEW p \in PurchaseRecords
  PROVE BorrowingCost(card, p) \in Nat
<1>1. card.apr \in Nat /\ card.grace \in {"intact", "lost", "unknown"}
      /\ p.amount \in Nat /\ p.carried \in Nat
  BY DEF CardRecords, GraceStates, PurchaseRecords
<1>2. /\ InterestFor(p.amount, card.apr, p.carried) \in Nat
      /\ InterestFor(p.amount, card.apr, 30) \in Nat
  BY <1>1, InterestIsAmount
<1>3. QED
  BY <1>1, <1>2 DEF BorrowingCost

LEMMA NetType ==
  ASSUME NEW card \in CardRecords, NEW p \in PurchaseRecords
  PROVE LET fee == RoundHalfUp(p.amount * p.feeRate, 1000)
            foreign == IF p.foreign THEN RoundHalfUp(p.amount * card.foreignFee, 1000) ELSE 0
        IN  fee \in Nat /\ foreign \in Nat /\ Reward(card, p) \in Nat
              /\ p.lostDiscount \in Int /\ EvaluateCard(card, p).net \in Int
<1> DEFINE fee == RoundHalfUp(p.amount * p.feeRate, 1000)
           foreign == IF p.foreign THEN RoundHalfUp(p.amount * card.foreignFee, 1000) ELSE 0
<1>1. p.amount \in Nat /\ p.feeRate \in Nat /\ card.foreignFee \in Nat /\ p.lostDiscount \in Int
  BY DEF CardRecords, PurchaseRecords
<1>2. p.amount * p.feeRate \in Nat /\ p.amount * card.foreignFee \in Nat
  BY <1>1, Product
<1>3. fee \in Nat /\ foreign \in Nat
  BY <1>2, RoundsUp
<1>4. Reward(card, p) \in Nat /\ BorrowingCost(card, p) \in Nat
  BY RewardType, CostIsAmount
<1>5. EvaluateCard(card, p).net
         = Reward(card, p) - fee - foreign - p.lostDiscount - BorrowingCost(card, p)
  BY DEF EvaluateCard
<1> HIDE DEF fee, foreign
<1>6. EvaluateCard(card, p).net \in Int
  BY <1>1, <1>3, <1>4, <1>5
<1>7. QED
  BY <1>1, <1>3, <1>4, <1>6 DEF fee, foreign

(* A card whose grace period turned out to be s.                           *)
Turned(card, s) == IF card.grace = "unknown" THEN [card EXCEPT !.grace = s] ELSE card

LEMMA TurnedCard ==
  ASSUME NEW card \in CardRecords, NEW s \in GraceStates
  PROVE /\ Turned(card, s) \in CardRecords
        /\ Turned(card, s).rules = card.rules /\ Turned(card, s).cashback = card.cashback
        /\ Turned(card, s).pointValue = card.pointValue
        /\ Turned(card, s).foreignFee = card.foreignFee
        /\ Turned(card, s).excluded = card.excluded
        /\ card.grace # "unknown" => Turned(card, s) = card
BY DEF Turned, CardRecords, GraceStates

LEMMA SameReward ==
  ASSUME NEW card, NEW other, NEW p, other.rules = card.rules,
         other.cashback = card.cashback, other.pointValue = card.pointValue
  PROVE Reward(other, p) = Reward(card, p)
<1>1. MatchingRules(other, p) = MatchingRules(card, p)
  BY DEF MatchingRules, Where
<1>2. BaseRate(other) = BaseRate(card)
  BY DEF BaseRate, Where
<1>3. Units(other, p) = Units(card, p)
  BY <1>1, <1>2 DEF Units
<1>4. QED
  BY <1>3 DEF Reward

LEMMA NetFalls ==
  ASSUME NEW card \in CardRecords, NEW p \in PurchaseRecords, NEW s \in GraceStates
  PROVE /\ EvaluateCard(Turned(card, s), p).net <= EvaluateCard(card, p).net
        /\ EvaluateCard(Turned(card, s), p).net \in Int /\ EvaluateCard(card, p).net \in Int
        /\ card.grace # "unknown" =>
              EvaluateCard(Turned(card, s), p).net = EvaluateCard(card, p).net
<1> DEFINE then == Turned(card, s)
           fee == RoundHalfUp(p.amount * p.feeRate, 1000)
           foreign == IF p.foreign THEN RoundHalfUp(p.amount * card.foreignFee, 1000) ELSE 0
<1>1. then \in CardRecords /\ then.foreignFee = card.foreignFee
      /\ Reward(then, p) = Reward(card, p) /\ (card.grace # "unknown" => then = card)
  BY TurnedCard, SameReward
<1> HIDE DEF then
<1>2. fee \in Nat /\ foreign \in Nat /\ Reward(card, p) \in Nat /\ p.lostDiscount \in Int
      /\ EvaluateCard(card, p).net \in Int /\ EvaluateCard(then, p).net \in Int
  BY <1>1, NetType
<1>3. EvaluateCard(card, p).net
         = Reward(card, p) - fee - foreign - p.lostDiscount - BorrowingCost(card, p)
  BY DEF EvaluateCard
<1>4. EvaluateCard(then, p).net
         = Reward(card, p) - fee - foreign - p.lostDiscount - BorrowingCost(then, p)
  BY <1>1 DEF EvaluateCard
<1> HIDE DEF fee, foreign
<1>5. BorrowingCost(card, p) \in Nat /\ BorrowingCost(then, p) \in Nat
  BY <1>1, CostIsAmount
<1>6. CASE card.grace = "unknown"
  <2>1. BorrowingCost(card, p) = 0
    BY <1>6 DEF BorrowingCost
  <2>2. QED
    BY <1>2, <1>3, <1>4, <1>5, <1>6, <2>1 DEF then
<1>7. CASE card.grace # "unknown"
  BY <1>1, <1>2, <1>7 DEF then
<1>8. QED
  BY <1>6, <1>7

EligibleAt(cards) == {i \in DOMAIN cards : ~ cards[i].excluded}
NetAt(cards, p, i) == EvaluateCard(cards[i], p).net
(* The card at place i is the first of the ranking.                        *)
Leads(cards, p, i) ==
    /\ i \in EligibleAt(cards)
    /\ Usable(cards, p) # <<>> /\ Usable(cards, p)[1] = EvaluateCard(cards[i], p)
    /\ \A j \in EligibleAt(cards) : NetAt(cards, p, j) <= NetAt(cards, p, i)

LEMMA UsableLeads ==
  ASSUME NEW cards \in Seq(CardRecords), NEW p \in PurchaseRecords
  PROVE /\ EligibleAt(cards) = {} => Usable(cards, p) = <<>>
        /\ EligibleAt(cards) # {} => \E i : Leads(cards, p, i)
<1> DEFINE n == Len(cards)
           options == [k \in DOMAIN cards |-> EvaluateCard(cards[k], p)]
           S == EligibleAt(cards)
           q == Ascending(S)
           c == Cardinality(S)
           usable == [k \in DOMAIN q |-> options[q[k]]]
           key == [k \in DOMAIN usable |-> -usable[k].net]
<1>1. n \in Nat /\ DOMAIN cards = 1..n /\ S \in SUBSET (1..n)
      /\ \A i \in 1..n : cards[i] \in CardRecords
  BY DEF EligibleAt
<1>2. Usable(cards, p) = SortBy(usable, key)
  <2>1. S = {i \in DOMAIN options : options[i].eligible}
    BY DEF EligibleAt, EvaluateCard
  <2>2. Where(options, LAMBDA o : o.eligible)
           = [k \in DOMAIN Ascending({i \in DOMAIN options : options[i].eligible}) |->
                options[Ascending({i \in DOMAIN options : options[i].eligible})[k]]]
    BY DEF Where
  <2> DEFINE picked == Where(options, LAMBDA o : o.eligible)
  <2>3. picked = usable
    <3> HIDE DEF S, options
    <3>1. QED
      BY <2>1, <2>2
  <2>4. Usable(cards, p) = SortBy(picked, [k \in DOMAIN picked |-> -picked[k].net])
    BY DEF Usable
  <2> HIDE DEF picked, usable
  <2>5. QED
    BY <2>3, <2>4
<1>3. /\ c \in Nat /\ q \in [1..c -> S]
      /\ \A x \in S : \E k \in 1..c : q[k] = x
      /\ c = 0 <=> S = {}
  <2> HIDE DEF S, q
  <2>1. Lists(Ascending(S), S, [x \in S |-> {y \in S : y < x}]) /\ IsFiniteSet(S)
    BY <1>1, AscendingLists
  <2>2. c = 0 <=> S = {}
    BY <2>1, FS_EmptySet
  <2>3. QED
    BY <2>1, <2>2 DEF Lists, q
<1>4. \A i \in 1..n : options[i] = EvaluateCard(cards[i], p) /\ options[i].net = NetAt(cards, p, i)
                      /\ options[i].net \in Int
  <2>1. ASSUME NEW i \in 1..n PROVE EvaluateCard(cards[i], p).net \in Int
    BY <1>1, NetType
  <2>2. QED
    BY <1>1, <2>1 DEF NetAt
<1> HIDE DEF options, q, c, S, n
<1>5. DOMAIN usable = 1..c /\ usable = [k \in 1..c |-> usable[k]]
      /\ \A k \in 1..c : usable[k] = options[q[k]] /\ q[k] \in S /\ q[k] \in 1..n
  BY <1>1, <1>3
<1> HIDE DEF usable
<1>6. key \in [1..c -> Int] /\ \A k \in 1..c : key[k] = -usable[k].net
  <2>1. \A k \in 1..c : usable[k].net \in Int
    BY <1>4, <1>5
  <2>2. QED
    BY <1>5, <2>1
<1> HIDE DEF key
<1>7. PICK order : Arranges(SortBy(usable, key), usable, c, key, order)
  BY <1>3, <1>5, <1>6, SortByArranges
<1> DEFINE r == SortBy(usable, key)
<1>8. /\ r = [k \in 1..c |-> usable[order[k]]] /\ r = [k \in 1..c |-> r[k]]
      /\ order \in [1..c -> 1..c]
      /\ \A j, k \in 1..c : order[j] = order[k] => j = k
      /\ \A j, k \in 1..c : j < k => key[order[j]] <= key[order[k]]
  BY <1>7 DEF Arranges
<1> HIDE DEF r
<1>9. CASE S = {}
  <2>1. r = <<>>
    BY <1>3, <1>8, <1>9, EmptyList
  <2>2. QED
    BY <1>2, <1>9, <2>1 DEF r, S
<1>10. CASE S # {}
  <2>1. c # 0 /\ 1 \in 1..c
    BY <1>3, <1>10
  <2>2. r # <<>>
    BY <1>3, <1>8, <2>1, EmptyList
  <2> DEFINE i == q[order[1]]
  <2>3. r[1] = options[i] /\ i \in S /\ i \in 1..n /\ order[1] \in 1..c
    BY <1>5, <1>8, <2>1
  <2>4. ASSUME NEW j \in S PROVE NetAt(cards, p, j) <= NetAt(cards, p, i)
    <3>1. PICK k \in 1..c : q[k] = j
      BY <1>3
    <3>2. PICK m \in 1..c : order[m] = k
      <4>1. order \in Injection(1..c, 1..c)
        BY <1>8 DEF Injection, IsInjective
      <4>2. IsFiniteSet(1..c) /\ Cardinality(1..c) = c
        BY <1>3, 1 \in Int, c \in Int, FS_Interval
      <4>3. order \in Surjection(1..c, 1..c)
        BY <4>1, <4>2, FS_Injection
      <4>4. QED
        BY <4>3 DEF Surjection
    <3>3. key[order[1]] <= key[k]
      <4>1. CASE m = 1
        BY <1>6, <2>3, <3>2, <4>1
      <4>2. CASE m # 1
        <5>1. 1 < m
          BY <1>3, <3>2, <4>2
        <5>2. QED
          BY <1>8, <2>1, <3>2, <5>1
      <4>3. QED
        BY <4>1, <4>2
    <3>4. usable[k].net = NetAt(cards, p, j) /\ usable[order[1]].net = NetAt(cards, p, i)
          /\ usable[k].net \in Int /\ usable[order[1]].net \in Int
      BY <1>4, <1>5, <2>3, <3>1
    <3>5. key[order[1]] = -usable[order[1]].net /\ key[k] = -usable[k].net
      BY <1>6, <2>3
    <3>6. QED
      BY <3>3, <3>4, <3>5
  <2> HIDE DEF i
  <2>5. Leads(cards, p, i)
    BY <1>2, <1>4, <2>2, <2>3, <2>4 DEF Leads, r, S
  <2>6. QED
    BY <1>10, <2>5 DEF S
<1>11. QED
  BY <1>9, <1>10

LEMMA ConfirmedCards ==
  ASSUME NEW cards \in Seq(CardRecords), NEW states \in [DOMAIN cards -> GraceStates]
  PROVE /\ Confirmed(cards, states) \in Seq(CardRecords)
        /\ DOMAIN Confirmed(cards, states) = DOMAIN cards
        /\ \A i \in DOMAIN cards : Confirmed(cards, states)[i] = Turned(cards[i], states[i])
<1> DEFINE n == Len(cards)
           f == Confirmed(cards, states)
<1>1. n \in Nat /\ DOMAIN cards = 1..n /\ \A i \in 1..n : cards[i] \in CardRecords
  OBVIOUS
<1>2. DOMAIN f = 1..n /\ f = [k \in 1..n |-> f[k]]
      /\ \A i \in 1..n : f[i] = Turned(cards[i], states[i])
  BY <1>1 DEF Confirmed, Turned
<1>3. \A i \in 1..n : f[i] \in CardRecords
  BY <1>1, <1>2, TurnedCard
<1> HIDE DEF f, n
<1>4. f \in [1..n -> CardRecords]
  BY <1>2, <1>3
<1>5. f \in Seq(CardRecords)
  BY <1>1, <1>4, ListsAreSequences
<1>6. QED
  BY <1>1, <1>2, <1>5 DEF f

LEMMA ChosenSays ==
  ASSUME NEW usable, NEW p
  PROVE /\ Chosen(usable, p, 0).winner = usable[1]
        /\ Chosen(usable, p, 0).card = (usable[1].net > 0)
        /\ Chosen(usable, p, 0).qualified = (~ usable[1].exact \/ ~ p.codingCertain)
<1> DEFINE margin == usable[1].net - (IF Len(usable) > 1 THEN usable[2].net ELSE 0)
<1>1. Chosen(usable, p, 0) =
        [winner |-> usable[1], margin |-> margin,
         qualified |-> ~ usable[1].exact \/ ~ p.codingCertain, card |-> usable[1].net > 0]
  BY DEF Chosen
<1> HIDE DEF margin
<1>2. QED
  BY <1>1

LEMMA EverySettledWinner ==
  ASSUME NEW cards \in Seq(CardRecords), NEW p \in PurchaseRecords
  PROVE SettledWinner(cards, p)
<1> DEFINE now == RankCards(cards, p, 0, TRUE)
<1>1. SUFFICES ASSUME ~ now.qualified
               PROVE /\ p.codingCertain
                     /\ \A states \in [DOMAIN cards -> GraceStates] :
                          LET then == RankCards(Confirmed(cards, states), p, 0, TRUE)
                          IN  then.winner.net = now.winner.net /\ then.card = now.card
  BY DEF SettledWinner
<1>2. Usable(cards, p) # <<>>
  BY <1>1 DEF RankCards, NoWinner
<1>3. now = Chosen(Usable(cards, p), p, 0)
  BY <1>2 DEF RankCards
<1>4. PICK i : Leads(cards, p, i)
  BY <1>2, UsableLeads
<1>5. i \in DOMAIN cards /\ cards[i] \in CardRecords
  BY <1>4 DEF Leads, EligibleAt
<1>6. now.winner = EvaluateCard(cards[i], p) /\ now.card = (NetAt(cards, p, i) > 0)
      /\ p.codingCertain /\ cards[i].grace # "unknown"
  <2>1. now.qualified = (~ EvaluateCard(cards[i], p).exact \/ ~ p.codingCertain)
        /\ now.winner = EvaluateCard(cards[i], p) /\ now.card = (NetAt(cards, p, i) > 0)
    BY <1>3, <1>4, ChosenSays DEF Leads, NetAt
  <2>2. EvaluateCard(cards[i], p).exact = (cards[i].grace # "unknown" /\ p.codingCertain)
    BY DEF EvaluateCard
  <2>3. QED
    BY <1>1, <2>1, <2>2
<1>7. ASSUME NEW states \in [DOMAIN cards -> GraceStates]
      PROVE LET then == RankCards(Confirmed(cards, states), p, 0, TRUE)
            IN  then.winner.net = now.winner.net /\ then.card = now.card
  <2> DEFINE turned == Confirmed(cards, states)
             then == RankCards(turned, p, 0, TRUE)
  <2>1. /\ turned \in Seq(CardRecords) /\ DOMAIN turned = DOMAIN cards
        /\ \A k \in DOMAIN cards : turned[k] = Turned(cards[k], states[k])
    BY ConfirmedCards
  <2> HIDE DEF turned
  <2>2. \A k \in DOMAIN cards : /\ states[k] \in GraceStates /\ cards[k] \in CardRecords
                                /\ turned[k].excluded = cards[k].excluded
    BY <2>1, TurnedCard
  <2>3. EligibleAt(turned) = EligibleAt(cards)
    BY <2>1, <2>2 DEF EligibleAt
  <2>4. i \in EligibleAt(turned)
    BY <1>4, <2>3 DEF Leads
  <2>5. PICK j : Leads(turned, p, j)
    BY <2>1, <2>4, UsableLeads
  <2>6. j \in EligibleAt(cards) /\ j \in DOMAIN cards
    BY <2>3, <2>5 DEF Leads, EligibleAt
  <2>7. /\ NetAt(turned, p, i) = NetAt(cards, p, i) /\ NetAt(cards, p, i) \in Int
        /\ NetAt(turned, p, j) <= NetAt(cards, p, j)
        /\ NetAt(turned, p, j) \in Int /\ NetAt(cards, p, j) \in Int
    <3>1. turned[i] = Turned(cards[i], states[i]) /\ turned[j] = Turned(cards[j], states[j])
      BY <1>5, <2>1, <2>6
    <3>2. states[i] \in GraceStates /\ states[j] \in GraceStates /\ cards[j] \in CardRecords
      BY <1>5, <2>2, <2>6
    <3>3. /\ EvaluateCard(turned[i], p).net = EvaluateCard(cards[i], p).net
          /\ EvaluateCard(cards[i], p).net \in Int
      BY <1>5, <1>6, <3>1, <3>2, NetFalls
    <3>4. /\ EvaluateCard(turned[j], p).net <= EvaluateCard(cards[j], p).net
          /\ EvaluateCard(turned[j], p).net \in Int /\ EvaluateCard(cards[j], p).net \in Int
      BY <3>1, <3>2, NetFalls
    <3>5. QED
      BY <3>3, <3>4 DEF NetAt
  <2>8. NetAt(cards, p, j) <= NetAt(cards, p, i) /\ NetAt(turned, p, i) <= NetAt(turned, p, j)
    BY <1>4, <2>4, <2>5, <2>6 DEF Leads
  <2>9. NetAt(turned, p, j) = NetAt(cards, p, i)
    BY <2>7, <2>8
  <2>10. then.winner = EvaluateCard(turned[j], p) /\ then.card = (NetAt(turned, p, j) > 0)
    <3>1. then = Chosen(Usable(turned, p), p, 0)
      BY <2>5 DEF Leads, RankCards
    <3>2. QED
      BY <2>5, <3>1, ChosenSays DEF Leads, NetAt
  <2>11. QED
    BY <1>6, <2>9, <2>10 DEF NetAt, turned
<1>8. QED
  BY <1>6, <1>7

(***************************************************************************)
(* A winner that is shown as settled stays the winner whatever the grace of *)
(* the cards turns out to be, and a purchase made in two parts earns on any *)
(* card what it earns in one, to the rounding of the parts (rank_cards,     *)
(* evaluate_card).                                                          *)
(***************************************************************************)
THEOREM RankingCorrect == FiguresSpec => []RankingSettled
<1>1. FiguresInit => RankingSettled
  <2>1. SUFFICES ASSUME FiguresInit, figure.kind = "purchase"
                 PROVE /\ SettledWinner(figure.cards, figure.purchase)
                       /\ \A k \in DOMAIN figure.cards :
                             CapIsMarginal(figure.cards[k], figure.purchase, figure.part)
    BY DEF RankingSettled
  <2>2. figure \in Purchases
    BY <2>1, HouseholdsTyped, ComparisonsTyped DEF FiguresInit
  <2>3. /\ figure.cards \in Seq(CardRecords) /\ figure.purchase \in PurchaseRecords
        /\ figure.part \in 0..figure.purchase.amount
    BY <2>2, PurchasesTyped
  <2>4. \A k \in DOMAIN figure.cards : figure.cards[k] \in CardRecords
    BY <2>3
  <2>5. QED
    BY <2>3, <2>4, EverySettledWinner, CapsAreMarginal
<1>2. RankingSettled /\ [UNCHANGED figure]_figure => RankingSettled'
  BY DEF RankingSettled
<1>3. QED
  BY <1>1, <1>2, PTL DEF FiguresSpec

(***************************************************************************)
(* Deposits.  Sums over the keys of a dict, in whatever order they come.    *)
(***************************************************************************)
\* q names every member of S once.
ListsOnce(q, n, S) ==
    /\ q \in [1..n -> S]
    /\ \A i, j \in 1..n : q[i] = q[j] => i = j
    /\ \A s \in S : \E i \in 1..n : q[i] = s

LEMMA KeysListed ==
  ASSUME NEW S, IsFiniteSet(S)
  PROVE /\ Cardinality(S) \in Nat
        /\ ListsOnce(SetToSeq(S), Cardinality(S), S)
<1> DEFINE n == Cardinality(S)
<1>1. n \in Nat /\ ExistsBijection(1..n, S)
  BY FS_CardinalityType
<1>2. PICK f \in Bijection(1..n, S) : TRUE
  BY <1>1 DEF ExistsBijection
<1>3. f \in [1..n -> S] /\ IsInjective(f)
  BY <1>2 DEF Bijection, Injection
<1>4. SetToSeq(S) \in [1..n -> S] /\ IsInjective(SetToSeq(S))
  BY <1>3 DEF SetToSeq
<1>5. IsFiniteSet(1..n) /\ Cardinality(1..n) = n
  <2>1. 0 \in Int /\ 1 \in Int /\ n \in Int
    BY <1>1
  <2>2. QED
    BY <1>1, <2>1, FS_Interval
<1>6. SetToSeq(S) \in Surjection(1..n, S)
  <2>1. SetToSeq(S) \in Injection(1..n, S)
    BY <1>4 DEF Injection
  <2>2. QED
    BY <2>1, <1>5, FS_Injection
<1>7. QED
  BY <1>1, <1>4, <1>6 DEF ListsOnce, IsInjective, Surjection

LEMMA SumOverIs ==
  ASSUME NEW S, IsFiniteSet(S), NEW f \in [S -> Int]
  PROVE /\ [k \in 1..Cardinality(S) |-> f[SetToSeq(S)[k]]] \in [1..Cardinality(S) -> Int]
        /\ SumOver(f) = SumOf([k \in 1..Cardinality(S) |-> f[SetToSeq(S)[k]]])
        /\ SumOver(f) \in Int
<1> DEFINE n == Cardinality(S)
           q == SetToSeq(S)
<1>1. n \in Nat /\ q \in [1..n -> S] /\ DOMAIN q = 1..n /\ DOMAIN f = S
  BY KeysListed DEF ListsOnce
<1>2. [k \in 1..n |-> f[q[k]]] \in [1..n -> Int]
  BY <1>1
<1>3. SumOver(f) = SumOf([k \in 1..n |-> f[q[k]]])
  BY <1>1 DEF SumOver
<1>4. QED
  BY <1>1, <1>2, <1>3, SumType

LEMMA SumOverAdds ==
  ASSUME NEW S, IsFiniteSet(S), NEW a \in [S -> Int], NEW b \in [S -> Int], NEW c \in [S -> Int],
         \A s \in S : c[s] = a[s] + b[s]
  PROVE SumOver(c) = SumOver(a) + SumOver(b)
<1> DEFINE n == Cardinality(S)
           q == SetToSeq(S)
           A == [k \in 1..n |-> a[q[k]]]
           B == [k \in 1..n |-> b[q[k]]]
           C == [k \in 1..n |-> c[q[k]]]
<1>1. n \in Nat /\ q \in [1..n -> S]
  BY KeysListed DEF ListsOnce
<1>2. /\ A \in [1..n -> Int] /\ B \in [1..n -> Int] /\ C \in [1..n -> Int]
      /\ SumOver(a) = SumOf(A) /\ SumOver(b) = SumOf(B) /\ SumOver(c) = SumOf(C)
  BY SumOverIs
<1>3. \A k \in 1..n : C[k] = A[k] + B[k]
  BY <1>1
<1>4. SumOf(C) = SumOf(A) + SumOf(B)
  <2> HIDE DEF A, B, C, n, q
  <2>1. QED BY <1>1, <1>2, <1>3, SumAdds
<1>5. QED
  BY <1>2, <1>4

LEMMA SumOverMonotone ==
  ASSUME NEW S, IsFiniteSet(S), NEW a \in [S -> Int], NEW b \in [S -> Int],
         \A s \in S : a[s] <= b[s]
  PROVE SumOver(a) <= SumOver(b)
<1> DEFINE n == Cardinality(S)
           q == SetToSeq(S)
           A == [k \in 1..n |-> a[q[k]]]
           B == [k \in 1..n |-> b[q[k]]]
<1>1. n \in Nat /\ q \in [1..n -> S]
  BY KeysListed DEF ListsOnce
<1>2. /\ A \in [1..n -> Int] /\ B \in [1..n -> Int]
      /\ SumOver(a) = SumOf(A) /\ SumOver(b) = SumOf(B)
  BY SumOverIs
<1>3. \A k \in 1..n : A[k] <= B[k]
  BY <1>1
<1> HIDE DEF A, B, n, q
<1>4. QED
  BY <1>1, <1>2, <1>3, SumMonotone

LEMMA SumOverOne ==
  ASSUME NEW S, IsFiniteSet(S), NEW key \in S, NEW f \in [S -> Int],
         \A s \in S : s # key => f[s] = 0
  PROVE SumOver(f) = f[key]
<1> DEFINE n == Cardinality(S)
           q == SetToSeq(S)
           F == [k \in 1..n |-> f[q[k]]]
<1>1. n \in Nat /\ ListsOnce(q, n, S)
  BY KeysListed
<1>2. F \in [1..n -> Int] /\ SumOver(f) = SumOf(F)
  BY SumOverIs
<1>3. PICK i \in 1..n : q[i] = key
  BY <1>1 DEF ListsOnce
<1>4. \A k \in 1..n : F[k] = IF k = i THEN f[key] ELSE 0
  BY <1>1, <1>3 DEF ListsOnce
<1> DEFINE x == f[key]
           one == [k \in 1..n |-> IF k = i THEN x ELSE 0]
<1>5. F = one /\ x \in Int /\ i \in 1..n
  BY <1>4
<1>6. SumOf(one) = x
  <2> HIDE DEF x, n
  <2>1. QED BY <1>1, <1>5, SumOfOne
<1>7. QED
  BY <1>2, <1>5, <1>6

LEMMA SumOverNone ==
  ASSUME NEW S, IsFiniteSet(S), NEW f \in [S -> Int], \A s \in S : f[s] = 0
  PROVE SumOver(f) = 0
<1> DEFINE x == SumOver(f)
<1>1. x = x + x
  BY SumOverAdds
<1>2. x \in Int
  BY SumOverIs
<1> HIDE DEF x
<1>3. x = 0
  BY <1>1, <1>2
<1>4. QED
  BY <1>3 DEF x

LEMMA SumOverLess ==
  ASSUME NEW S, IsFiniteSet(S), NEW a \in [S -> Int], NEW b \in [S -> Int],
         \A s \in S : a[s] <= b[s], NEW key \in S, a[key] < b[key]
  PROVE SumOver(a) < SumOver(b)
<1> DEFINE one == [s \in S |-> IF s = key THEN 1 ELSE 0]
           c == [s \in S |-> a[s] + one[s]]
<1>1. one \in [S -> Int] /\ c \in [S -> Int] /\ one[key] = 1
      /\ (\A s \in S : s # key => one[s] = 0) /\ (\A s \in S : c[s] = a[s] + one[s])
  OBVIOUS
<1>2. \A s \in S : c[s] <= b[s]
  OBVIOUS
<1> HIDE DEF one, c
<1>3. SumOver(one) = 1
  BY <1>1, SumOverOne
<1>4. SumOver(c) = SumOver(a) + SumOver(one) /\ SumOver(c) <= SumOver(b)
  BY <1>1, <1>2, SumOverAdds, SumOverMonotone
<1>5. SumOver(a) \in Int /\ SumOver(b) \in Int
  BY SumOverIs
<1>6. QED
  BY <1>3, <1>4, <1>5

\* An amount for every key, at each of n places.
IsTable(A, n, S) == A \in [1..n -> [S -> Int]]
SumsAcross(A, n, S) == [s \in S |-> SumOf([i \in 1..n |-> A[i][s]])]
SumsDown(A, n) == [i \in 1..n |-> SumOver(A[i])]

\* Summed by rows what is summed by columns.
LEMMA SumsExchange ==
  ASSUME NEW S, IsFiniteSet(S), NEW n \in Nat, NEW A, IsTable(A, n, S)
  PROVE SumOver(SumsAcross(A, n, S)) = SumOf(SumsDown(A, n))
<1> DEFINE Column(m, s) == [i \in 1..m |-> A[i][s]]
           Across(m) == [s \in S |-> SumOf(Column(m, s))]
           Down(m) == [i \in 1..m |-> SumOver(A[i])]
           Done == {m \in Nat : m <= n => SumOver(Across(m)) = SumOf(Down(m))}
<1>1. ASSUME NEW m \in Nat, m <= n
      PROVE /\ \A s \in S : Column(m, s) \in [1..m -> Int]
            /\ Across(m) \in [S -> Int] /\ Down(m) \in [1..m -> Int]
  <2>1. \A i \in 1..m : A[i] \in [S -> Int]
    BY <1>1 DEF IsTable
  <2>2. \A s \in S : Column(m, s) \in [1..m -> Int]
    BY <2>1
  <2>3. \A s \in S : SumOf(Column(m, s)) \in Int
    <3> HIDE DEF Column
    <3>1. QED BY <2>2, SumType
  <2>4. \A i \in 1..m : SumOver(A[i]) \in Int
    <3>1. TAKE i \in 1..m
    <3>2. QED
      BY <2>1, SumOverIs
  <2>5. QED
    BY <2>2, <2>3, <2>4
<1>2. 0 \in Done
  <2>1. 0 \in Nat /\ 0 <= n
    OBVIOUS
  <2>2. \A s \in S : SumOf(Column(0, s)) = 0
    <3>1. TAKE s \in S
    <3>2. Column(0, s) \in [1..0 -> Int] /\ \A i \in 1..0 : Column(0, s)[i] = 0
      OBVIOUS
    <3> HIDE DEF Column
    <3>3. QED
      BY <2>1, <3>2, SumOfNone
  <2>3. SumOf(Down(0)) = 0
    <3>1. Down(0) \in [1..0 -> Int] /\ \A i \in 1..0 : Down(0)[i] = 0
      OBVIOUS
    <3> HIDE DEF Down
    <3>2. QED
      BY <2>1, <3>1, SumOfNone
  <2>4. SumOver(Across(0)) = 0
    <3>1. Across(0) \in [S -> Int]
      BY <2>1, <1>1
    <3>2. \A s \in S : Across(0)[s] = 0
      BY <2>2
    <3> HIDE DEF Across
    <3>3. QED
      BY <3>1, <3>2, SumOverNone
  <2> HIDE DEF Across, Down
  <2>5. QED
    BY <2>3, <2>4
<1>3. ASSUME NEW m \in Nat, m \in Done PROVE m + 1 \in Done
  <2> SUFFICES ASSUME m + 1 <= n PROVE SumOver(Across(m + 1)) = SumOf(Down(m + 1))
    OBVIOUS
  <2> DEFINE k == m + 1
  <2>1. k \in Nat /\ k <= n /\ m <= n /\ k \in 1..n /\ A[k] \in [S -> Int]
    BY DEF IsTable
  <2>2. /\ \A s \in S : Column(m, s) \in [1..m -> Int] /\ Column(k, s) \in [1..k -> Int]
        /\ Across(m) \in [S -> Int] /\ Across(k) \in [S -> Int]
        /\ Down(m) \in [1..m -> Int] /\ Down(k) \in [1..k -> Int]
    <3> HIDE DEF Column, Across, Down, k
    <3>1. QED BY <2>1, <1>1
  <2>3. SumOver(A[k]) \in Int
    BY <2>1, SumOverIs
  <2>4. ASSUME NEW s \in S PROVE Across(k)[s] = Across(m)[s] + A[k][s]
    <3> DEFINE a == Column(m, s)
               b == Column(k, s)
               x == A[k][s]
    <3>1. a \in [1..m -> Int] /\ b \in [1..(m + 1) -> Int] /\ x \in Int
      BY <2>1, <2>2
    <3>2. (\A i \in 1..m : b[i] = a[i]) /\ b[m + 1] = x
      OBVIOUS
    <3>3. SumOf(b) = SumOf(a) + x
      <4> HIDE DEF a, b, x, k, Column
      <4>1. QED BY <3>1, <3>2, SumGrows
    <3>4. QED
      BY <3>3
  <2>5. SumOver(Across(k)) = SumOver(Across(m)) + SumOver(A[k])
    <3> DEFINE a == Across(m)
               b == A[k]
               c == Across(k)
    <3>1. a \in [S -> Int] /\ b \in [S -> Int] /\ c \in [S -> Int] /\ \A s \in S : c[s] = a[s] + b[s]
      <4> HIDE DEF Across, k
      <4>1. QED BY <2>1, <2>2, <2>4
    <3> HIDE DEF a, b, c
    <3>2. SumOver(c) = SumOver(a) + SumOver(b)
      BY <3>1, SumOverAdds
    <3>3. QED
      BY <3>2 DEF a, b, c
  <2>6. SumOf(Down(k)) = SumOf(Down(m)) + SumOver(A[k])
    <3> DEFINE x == SumOver(A[k])
    <3>1. Down(m) \in [1..m -> Int] /\ Down(k) \in [1..(m + 1) -> Int] /\ x \in Int
      BY <2>2, <2>3
    <3>2. (\A i \in 1..m : Down(k)[i] = Down(m)[i]) /\ Down(k)[m + 1] = x
      OBVIOUS
    <3> HIDE DEF Down, x, k
    <3>3. SumOf(Down(k)) = SumOf(Down(m)) + x
      BY <3>1, <3>2, SumGrows
    <3>4. QED
      BY <3>3 DEF x
  <2>7. SumOver(Across(m)) = SumOf(Down(m))
    BY <1>3, <2>1
  <2> HIDE DEF Across, Down
  <2>8. QED
    BY <2>5, <2>6, <2>7
<1>4. Nat \subseteq Done
  <2> HIDE DEF Done
  <2>1. QED BY <1>2, <1>3, SetInduction
<1>5. SumOver(Across(n)) = SumOf(Down(n))
  <2> HIDE DEF Across, Down
  <2>1. QED BY <1>4
<1>6. QED
  BY <1>5 DEF SumsAcross, SumsDown

Injects(phi, D, S) == phi \in [D -> S] /\ \A d, e \in D : phi[d] = phi[e] => d = e

\* What lies at keys that phi picks, one each, sums to the same over all keys.
LEMMA SumSpread ==
  ASSUME NEW D, IsFiniteSet(D), NEW S, IsFiniteSet(S),
         NEW phi, Injects(phi, D, S),
         NEW g \in [D -> Int], NEW f \in [S -> Int],
         \A d \in D : f[phi[d]] = g[d],
         \A s \in S : (\A d \in D : phi[d] # s) => f[s] = 0
  PROVE SumOver(f) = SumOver(g)
<1> DEFINE n == Cardinality(D)
           q == SetToSeq(D)
           G == [i \in 1..n |-> g[q[i]]]
           A == [i \in 1..n |-> [s \in S |-> IF phi[q[i]] = s THEN g[q[i]] ELSE 0]]
           Across == [s \in S |-> SumOf([i \in 1..n |-> A[i][s]])]
           Down == [i \in 1..n |-> SumOver(A[i])]
<1>1. n \in Nat /\ ListsOnce(q, n, D)
  BY KeysListed
<1>2. G \in [1..n -> Int] /\ SumOver(g) = SumOf(G)
  BY SumOverIs
<1>3. \A i \in 1..n : q[i] \in D /\ phi[q[i]] \in S /\ g[q[i]] \in Int
  BY <1>1 DEF ListsOnce, Injects
<1>4. IsTable(A, n, S)
  BY <1>3 DEF IsTable
<1>5. SumOver(Across) = SumOf(Down)
  <2>1. n \in Nat /\ IsTable(A, n, S)
    BY <1>1, <1>4
  <2>2. SumOver(SumsAcross(A, n, S)) = SumOf(SumsDown(A, n))
    <3> HIDE DEF A, n
    <3>1. QED BY <2>1, SumsExchange
  <2>3. QED
    BY <2>2 DEF SumsAcross, SumsDown
<1>6. Down = G
  <2>1. ASSUME NEW i \in 1..n PROVE Down[i] = G[i]
    <3> DEFINE a == A[i]
               key == phi[q[i]]
    <3>1. a \in [S -> Int] /\ key \in S /\ a[key] = g[q[i]] /\ \A s \in S : s # key => a[s] = 0
      BY <1>3, <1>4
    <3>2. SumOver(a) = a[key]
      <4> HIDE DEF a, key
      <4>1. QED BY <3>1, SumOverOne
    <3>3. QED
      BY <3>1, <3>2
  <2>2. QED
    BY <2>1
<1>7. Across = f
  <2>1. ASSUME NEW s \in S PROVE Across[s] = f[s]
    <3> DEFINE c == [i \in 1..n |-> A[i][s]]
    <3>1. c \in [1..n -> Int] /\ \A i \in 1..n : c[i] = IF phi[q[i]] = s THEN g[q[i]] ELSE 0
      BY <1>3
    <3>2. CASE \A d \in D : phi[d] # s
      <4>1. \A i \in 1..n : c[i] = 0
        BY <3>1, <3>2, <1>3
      <4>2. SumOf(c) = 0
        <5> HIDE DEF c, n
        <5>1. QED BY <1>1, <3>1, <4>1, SumOfNone
      <4>3. QED
        BY <3>2, <4>2
    <3>3. ASSUME NEW d \in D, phi[d] = s PROVE Across[s] = f[s]
      <4>1. PICK j \in 1..n : q[j] = d
        BY <1>1 DEF ListsOnce
      <4> DEFINE x == g[d]
                 one == [i \in 1..n |-> IF i = j THEN x ELSE 0]
      <4>2. ASSUME NEW i \in 1..n PROVE c[i] = IF i = j THEN x ELSE 0
        <5>1. phi[q[i]] = s => i = j
          BY <1>1, <1>3, <3>3, <4>1 DEF ListsOnce, Injects
        <5>2. QED
          BY <5>1, <3>1, <3>3, <4>1
      <4>3. c = one /\ x \in Int /\ j \in 1..n
        BY <4>2
      <4>4. SumOf(one) = x
        <5>1. n \in Nat /\ j \in 1..n /\ x \in Int
          BY <1>1, <4>3
        <5> HIDE DEF x, n
        <5>2. QED BY <5>1, SumOfOne
      <4>5. f[s] = x
        BY <3>3
      <4>6. QED
        BY <4>3, <4>4, <4>5
    <3>4. QED
      BY <3>2, <3>3
  <2>2. QED
    BY <2>1
<1> HIDE DEF Across, Down, G
<1>8. QED
  BY <1>2, <1>5, <1>6, <1>7

LEMMA ProgramOf ==
  ASSUME NEW a \in AccountRecords
  PROVE /\ IsFiniteSet(DOMAIN a.allocations)
        /\ a.allocations \in [DOMAIN a.allocations -> Int]
        /\ a.current \in Int
<1>1. a.allocations \in Programs /\ a.current \in Int
  BY DEF AccountRecords
<1>2. QED
  BY <1>1, ProgramsTyped

LEMMA SweptType ==
  ASSUME NEW a \in AccountRecords
  PROVE SweptTotal(a) \in Int
<1> DEFINE s == a.allocations
           D == DOMAIN s
<1>1. IsFiniteSet(D) /\ s \in [D -> Int]
  BY ProgramOf
<1> HIDE DEF D, s
<1>2. SumOver(s) \in Int
  BY <1>1, SumOverIs
<1>3. QED
  BY <1>2 DEF SweptTotal, s

LEMMA ImageFinite ==
  ASSUME NEW S, IsFiniteSet(S), NEW f, DOMAIN f = S, f = [s \in S |-> f[s]]
  PROVE IsFiniteSet({f[s] : s \in S})
<1> DEFINE T == {f[s] : s \in S}
<1>1. f \in [S -> T] /\ \A t \in T : \E s \in S : f[s] = t
  OBVIOUS
<1>2. f \in Surjection(S, T)
  BY <1>1 DEF Surjection
<1> HIDE DEF T
<1>3. IsFiniteSet(T)
  BY <1>2, FS_Surjection
<1>4. QED
  BY <1>3 DEF T

LEMMA BanksFinite ==
  ASSUME NEW a \in AccountRecords
  PROVE IsFiniteSet(BanksOf(a))
<1>1. IsFiniteSet({}) /\ IsFiniteSet({a.inst})
  BY FS_EmptySet, FS_Singleton
<1>2. IsFiniteSet({a.inst} \ {Unidentified})
  <2>1. {a.inst} \ {Unidentified} = {} \/ {a.inst} \ {Unidentified} = {a.inst}
    OBVIOUS
  <2>2. QED
    BY <1>1, <2>1
<1>3. IsFiniteSet(DOMAIN a.allocations)
  BY ProgramOf
<1>4. QED
  BY <1>1, <1>2, <1>3 DEF BanksOf

LEMMA KeysFinite ==
  ASSUME NEW a \in AccountRecords
  PROVE IsFiniteSet(KeysOf(a))
<1> DEFINE banks == BanksOf(a)
           f == [inst \in banks |-> <<inst, a.owner, a.category>>]
<1>1. IsFiniteSet(banks)
  BY BanksFinite
<1>2. DOMAIN f = banks /\ f = [s \in banks |-> f[s]]
  OBVIOUS
<1>3. KeysOf(a) = {f[s] : s \in banks}
  BY DEF KeysOf
<1> HIDE DEF f, banks
<1>4. QED
  BY <1>1, <1>2, <1>3, ImageFinite

LEMMA AmountAtType ==
  ASSUME NEW a \in AccountRecords, NEW key
  PROVE AmountAt(a, key) \in Int
<1>1. CASE key \notin KeysOf(a)
  BY <1>1 DEF AmountAt
<1>2. CASE key \in KeysOf(a) /\ ~ Swept(a)
  BY <1>2, ProgramOf DEF AmountAt
<1>3. CASE key \in KeysOf(a) /\ Swept(a)
  <2>1. PICK inst \in BanksOf(a) : key = <<inst, a.owner, a.category>>
    BY <1>3 DEF KeysOf
  <2>2. key[1] = inst /\ inst \in DOMAIN a.allocations
    BY <1>3, <2>1 DEF BanksOf
  <2>3. a.allocations[inst] \in Int
    BY <2>2, ProgramOf
  <2>4. QED
    BY <1>3, <2>2, <2>3 DEF AmountAt
<1>4. QED
  BY <1>1, <1>2, <1>3

\* What of an account is in some bucket.
HeldBy(a) ==
    IF ~ IsDeposit(a) THEN 0 ELSE IF Swept(a) THEN SweptTotal(a)
    ELSE IF a.inst = Unidentified THEN 0 ELSE a.current

LEMMA AccountInBuckets ==
  ASSUME NEW a \in AccountRecords, NEW S, IsFiniteSet(S), KeysOf(a) \subseteq S
  PROVE /\ [key \in S |-> AmountAt(a, key)] \in [S -> Int]
        /\ SumOver([key \in S |-> AmountAt(a, key)]) = HeldBy(a)
        /\ HeldBy(a) \in Int
<1> DEFINE f == [key \in S |-> AmountAt(a, key)]
<1>1. f \in [S -> Int]
  BY AmountAtType
<1>2. HeldBy(a) \in Int
  BY SweptType, ProgramOf DEF HeldBy
<1> SUFFICES SumOver(f) = HeldBy(a)
  BY <1>1, <1>2
<1>3. ASSUME KeysOf(a) = {}, HeldBy(a) = 0 PROVE SumOver(f) = HeldBy(a)
  <2>1. \A key \in S : f[key] = 0
    BY <1>3 DEF AmountAt
  <2> HIDE DEF f
  <2>2. QED
    BY <1>1, <1>3, <2>1, SumOverNone
<1>4. CASE ~ IsDeposit(a) \/ (~ Swept(a) /\ a.inst = Unidentified)
  <2>1. BanksOf(a) = {} /\ HeldBy(a) = 0
    BY <1>4 DEF BanksOf, HeldBy
  <2>2. KeysOf(a) = {}
    BY <2>1 DEF KeysOf
  <2>3. QED
    BY <1>3, <2>1, <2>2
<1>5. CASE IsDeposit(a) /\ ~ Swept(a) /\ a.inst # Unidentified
  <2> DEFINE its == <<a.inst, a.owner, a.category>>
  <2>1. KeysOf(a) = {its} /\ HeldBy(a) = a.current
    BY <1>5 DEF KeysOf, BanksOf, HeldBy
  <2>2. its \in S /\ f[its] = a.current /\ \A key \in S : key # its => f[key] = 0
    BY <1>5, <2>1 DEF AmountAt
  <2>3. SumOver(f) = f[its]
    <3> HIDE DEF f, its
    <3>1. QED BY <1>1, <2>2, SumOverOne
  <2>4. QED
    BY <2>1, <2>2, <2>3
<1>6. CASE IsDeposit(a) /\ Swept(a)
  <2> DEFINE g == a.allocations
             D == DOMAIN g
             phi == [inst \in D |-> <<inst, a.owner, a.category>>]
  <2>1. IsFiniteSet(D) /\ g \in [D -> Int]
    BY ProgramOf
  <2>2. KeysOf(a) = {phi[inst] : inst \in D}
    BY <1>6 DEF KeysOf, BanksOf
  <2>3. Injects(phi, D, S)
    <3>1. \A inst \in D : phi[inst] \in S
      BY <2>2
    <3>2. \A d, e \in D : phi[d] = phi[e] => d = e
      OBVIOUS
    <3>3. QED
      BY <3>1, <3>2 DEF Injects
  <2>4. \A d \in D : f[phi[d]] = g[d]
    <3>1. TAKE d \in D
    <3>2. phi[d] \in KeysOf(a) /\ phi[d] \in S /\ phi[d][1] = d
      BY <2>2
    <3>3. QED
      BY <1>6, <3>2 DEF AmountAt
  <2>5. \A s \in S : (\A d \in D : phi[d] # s) => f[s] = 0
    BY <2>2 DEF AmountAt
  <2>6. SumOver(f) = SumOver(g)
    <3> HIDE DEF f, g, D, phi
    <3>1. QED BY <1>1, <2>1, <2>3, <2>4, <2>5, SumSpread
  <2>7. HeldBy(a) = SumOver(g)
    BY <1>6 DEF HeldBy, SweptTotal
  <2>8. QED
    BY <2>6, <2>7
<1>7. QED
  BY <1>4, <1>5, <1>6

\* A household's m accounts and n declared deposits.
Holds(h, m, n) ==
    /\ m \in Nat /\ n \in Nat
    /\ DOMAIN h.accounts = 1..m /\ DOMAIN h.declared = 1..n
    /\ \A k \in 1..m : h.accounts[k] \in AccountRecords
    /\ \A k \in 1..n : h.declared[k].amount \in Int

LEMMA HouseholdHolds ==
  ASSUME NEW h \in HouseholdRecords
  PROVE Holds(h, Len(h.accounts), Len(h.declared))
<1>1. h.accounts \in Seq(AccountRecords) /\ h.declared \in Seq(DeclaredRecords)
  BY DEF HouseholdRecords
<1>2. \A k \in DOMAIN h.declared : h.declared[k] \in DeclaredRecords
  BY <1>1
<1>3. \A k \in DOMAIN h.declared : h.declared[k].amount \in Int
  BY <1>2 DEF DeclaredRecords
<1>4. QED
  BY <1>1, <1>3 DEF Holds

LEMMA HouseholdKeys ==
  ASSUME NEW h, NEW m, NEW n, Holds(h, m, n)
  PROVE /\ IsFiniteSet(Keys(h))
        /\ \A k \in 1..m : KeysOf(h.accounts[k]) \subseteq Keys(h)
        /\ \A k \in 1..n : KeyOf(h.declared[k]) \in Keys(h)
<1> DEFINE f == [k \in 1..m |-> KeysOf(h.accounts[k])]
           g == [k \in 1..n |-> KeyOf(h.declared[k])]
           F == {f[k] : k \in 1..m}
           G == {g[k] : k \in 1..n}
<1>1. m \in Nat /\ n \in Nat /\ 1 \in Int /\ m \in Int /\ n \in Int
  BY DEF Holds
<1>2. IsFiniteSet(1..m) /\ IsFiniteSet(1..n)
  BY <1>1, FS_Interval
<1>3. IsFiniteSet(F)
  <2>1. DOMAIN f = 1..m /\ f = [k \in 1..m |-> f[k]]
    OBVIOUS
  <2> HIDE DEF f
  <2>2. QED
    BY <2>1, <1>2, ImageFinite
<1>4. IsFiniteSet(G)
  <2>1. DOMAIN g = 1..n /\ g = [k \in 1..n |-> g[k]]
    OBVIOUS
  <2> HIDE DEF g
  <2>2. QED
    BY <2>1, <1>2, ImageFinite
<1>5. \A T \in F : IsFiniteSet(T)
  BY KeysFinite DEF Holds
<1>6. IsFiniteSet((UNION F) \union G)
  <2> HIDE DEF F, G
  <2>1. IsFiniteSet(UNION F)
    BY <1>3, <1>5, FS_UNION
  <2>2. QED
    BY <1>4, <2>1, FS_Union
<1>7. Keys(h) = (UNION F) \union G
  BY DEF Keys, Holds
<1>8. \A k \in 1..m : KeysOf(h.accounts[k]) \in F
  OBVIOUS
<1>9. \A k \in 1..n : KeyOf(h.declared[k]) \in G
  OBVIOUS
<1> HIDE DEF F, G
<1>10. QED
  BY <1>6, <1>7, <1>8, <1>9

LEMMA TotalType ==
  ASSUME NEW h, NEW m, NEW n, Holds(h, m, n), NEW key
  PROVE /\ SumOf([k \in 1..m |-> AmountAt(h.accounts[k], key)]) \in Int
        /\ SumOf([k \in 1..n |-> DeclaredAt(h.declared[k], key)]) \in Int
        /\ TotalAt(h, key) = SumOf([k \in 1..m |-> AmountAt(h.accounts[k], key)])
                                + SumOf([k \in 1..n |-> DeclaredAt(h.declared[k], key)])
        /\ TotalAt(h, key) \in Int
<1> DEFINE a == [k \in 1..m |-> AmountAt(h.accounts[k], key)]
           b == [k \in 1..n |-> DeclaredAt(h.declared[k], key)]
<1>1. m \in Nat /\ n \in Nat
  BY DEF Holds
<1>2. a \in [1..m -> Int]
  BY AmountAtType DEF Holds
<1>3. b \in [1..n -> Int]
  BY DEF Holds, DeclaredAt
<1>4. TotalAt(h, key) = SumOf(a) + SumOf(b)
  BY DEF TotalAt, Holds
<1>5. SumOf(a) \in Int /\ SumOf(b) \in Int
  <2> HIDE DEF a, b
  <2>1. QED BY <1>1, <1>2, <1>3, SumType
<1>6. QED
  BY <1>4, <1>5

\* What is in the buckets is what the accounts and the declared deposits have.
LEMMA HeldInBuckets ==
  ASSUME NEW h, NEW m, NEW n, Holds(h, m, n)
  PROVE SumOver([key \in Keys(h) |-> TotalAt(h, key)])
          = SumOf([k \in 1..m |-> HeldBy(h.accounts[k])]) + SumOf([k \in 1..n |-> h.declared[k].amount])
<1> DEFINE S == Keys(h)
           A == [k \in 1..m |-> [key \in S |-> AmountAt(h.accounts[k], key)]]
           B == [k \in 1..n |-> [key \in S |-> DeclaredAt(h.declared[k], key)]]
           all == [key \in S |-> TotalAt(h, key)]
           acrossA == [key \in S |-> SumOf([k \in 1..m |-> AmountAt(h.accounts[k], key)])]
           acrossB == [key \in S |-> SumOf([k \in 1..n |-> DeclaredAt(h.declared[k], key)])]
           downA == [k \in 1..m |-> HeldBy(h.accounts[k])]
           downB == [k \in 1..n |-> h.declared[k].amount]
<1>1. m \in Nat /\ n \in Nat /\ IsFiniteSet(S)
  BY HouseholdKeys DEF Holds
<1>2. /\ all \in [S -> Int] /\ acrossA \in [S -> Int] /\ acrossB \in [S -> Int]
      /\ \A key \in S : all[key] = acrossA[key] + acrossB[key]
  <2>1. ASSUME NEW key \in S
        PROVE /\ all[key] \in Int /\ acrossA[key] \in Int /\ acrossB[key] \in Int
              /\ all[key] = acrossA[key] + acrossB[key]
    <3> DEFINE a == SumOf([k \in 1..m |-> AmountAt(h.accounts[k], key)])
               b == SumOf([k \in 1..n |-> DeclaredAt(h.declared[k], key)])
    <3>1. a \in Int /\ b \in Int /\ TotalAt(h, key) = a + b /\ TotalAt(h, key) \in Int
      BY TotalType
    <3>2. all[key] = TotalAt(h, key) /\ acrossA[key] = a /\ acrossB[key] = b
      OBVIOUS
    <3> HIDE DEF a, b, all, acrossA, acrossB
    <3>3. QED
      BY <3>1, <3>2
  <2>2. all = [key \in S |-> all[key]] /\ acrossA = [key \in S |-> acrossA[key]]
        /\ acrossB = [key \in S |-> acrossB[key]]
    OBVIOUS
  <2> HIDE DEF all, acrossA, acrossB, S
  <2>3. QED
    BY <2>1, <2>2
<1>3. SumOver(all) = SumOver(acrossA) + SumOver(acrossB)
  <2> HIDE DEF all, acrossA, acrossB, S
  <2>1. QED BY <1>1, <1>2, SumOverAdds
<1>4. SumOver(acrossA) = SumOf(downA)
  <2>1. ASSUME NEW k \in 1..m PROVE A[k] \in [S -> Int] /\ SumOver(A[k]) = HeldBy(h.accounts[k])
    <3> DEFINE a == h.accounts[k]
    <3>1. a \in AccountRecords /\ KeysOf(a) \subseteq S
      BY HouseholdKeys DEF Holds
    <3> HIDE DEF a, S
    <3>2. [key \in S |-> AmountAt(a, key)] \in [S -> Int]
          /\ SumOver([key \in S |-> AmountAt(a, key)]) = HeldBy(a)
      BY <1>1, <3>1, AccountInBuckets
    <3>3. QED
      BY <3>2 DEF a
  <2>2. IsTable(A, m, S)
    <3> HIDE DEF S
    <3>1. QED BY <2>1 DEF IsTable
  <2>3. SumOver(SumsAcross(A, m, S)) = SumOf(SumsDown(A, m))
    <3> HIDE DEF A, S
    <3>1. QED BY <1>1, <2>2, SumsExchange
  <2>4. SumsAcross(A, m, S) = acrossA
    BY DEF SumsAcross
  <2>5. SumsDown(A, m) = downA
    <3> HIDE DEF A
    <3>1. QED BY <2>1 DEF SumsDown
  <2>6. QED
    BY <2>3, <2>4, <2>5
<1>5. SumOver(acrossB) = SumOf(downB)
  <2>1. ASSUME NEW k \in 1..n PROVE B[k] \in [S -> Int] /\ SumOver(B[k]) = h.declared[k].amount
    <3> DEFINE d == h.declared[k]
               b == [key \in S |-> DeclaredAt(d, key)]
               own == KeyOf(d)
    <3>1. own \in S /\ d.amount \in Int
      BY HouseholdKeys DEF Holds
    <3>2. b \in [S -> Int] /\ b[own] = d.amount /\ \A key \in S : key # own => b[key] = 0
      BY <3>1 DEF DeclaredAt
    <3>3. SumOver(b) = b[own]
      <4> HIDE DEF b, own, S
      <4>1. QED BY <1>1, <3>1, <3>2, SumOverOne
    <3>4. QED
      BY <3>2, <3>3
  <2>2. IsTable(B, n, S)
    <3> HIDE DEF S
    <3>1. QED BY <2>1 DEF IsTable
  <2>3. SumOver(SumsAcross(B, n, S)) = SumOf(SumsDown(B, n))
    <3> HIDE DEF B, S
    <3>1. QED BY <1>1, <2>2, SumsExchange
  <2>4. SumsAcross(B, n, S) = acrossB
    BY DEF SumsAcross
  <2>5. SumsDown(B, n) = downB
    <3> HIDE DEF B
    <3>1. QED BY <2>1 DEF SumsDown
  <2>6. QED
    BY <2>3, <2>4, <2>5
<1>6. QED
  BY <1>3, <1>4, <1>5

LEMMA PartsOfAccount ==
  ASSUME NEW a \in AccountRecords
  PROVE /\ HeldBy(a) \in Int /\ Lost(a) \in Int /\ Balance(a) \in Int /\ Beyond(a) \in Int
        /\ HeldBy(a) + Lost(a) = Balance(a) + Beyond(a)
<1>1. SweptTotal(a) \in Int /\ a.current \in Int
  BY SweptType, ProgramOf
<1> DEFINE s == SweptTotal(a)
           c == a.current
<1>2. /\ HeldBy(a) = IF ~ IsDeposit(a) THEN 0 ELSE IF Swept(a) THEN s
                     ELSE IF a.inst = Unidentified THEN 0 ELSE c
      /\ Lost(a) = IF IsDeposit(a) /\ ~ Swept(a) /\ a.inst = Unidentified THEN c
                   ELSE IF IsDeposit(a) /\ Swept(a) THEN ClampMinZero(c - s) ELSE 0
      /\ Balance(a) = IF IsDeposit(a) THEN c ELSE 0
      /\ Beyond(a) = IF IsDeposit(a) /\ Swept(a) THEN ClampMinZero(s - c) ELSE 0
  BY DEF HeldBy, Lost, Balance, Beyond, Unallocated, Unlocated
<1> HIDE DEF s, c
<1>3. /\ s \in Int /\ c \in Int
      /\ ClampMinZero(c - s) = IF c - s >= 0 THEN c - s ELSE 0
      /\ ClampMinZero(s - c) = IF s - c >= 0 THEN s - c ELSE 0
  BY <1>1 DEF ClampMinZero, Larger, s, c
<1>4. CASE ~ IsDeposit(a)
  BY <1>2, <1>4
<1>5. CASE IsDeposit(a) /\ Swept(a)
  BY <1>2, <1>3, <1>5
<1>6. CASE IsDeposit(a) /\ ~ Swept(a)
  BY <1>2, <1>3, <1>6
<1>7. QED
  BY <1>4, <1>5, <1>6

LEMMA DepositsAddUp ==
  ASSUME NEW h \in HouseholdRecords
  PROVE SumOver([key \in Keys(h) |-> Buckets(h)[key].total])
          + SumOf([k \in DOMAIN h.accounts |-> Lost(h.accounts[k])])
        = SumOf([k \in DOMAIN h.accounts |-> Balance(h.accounts[k])])
          + SumOf([k \in DOMAIN h.accounts |-> Beyond(h.accounts[k])])
          + SumOf([k \in DOMAIN h.declared |-> h.declared[k].amount])
<1> DEFINE m == Len(h.accounts)
           n == Len(h.declared)
           held == [k \in 1..m |-> HeldBy(h.accounts[k])]
           lost == [k \in 1..m |-> Lost(h.accounts[k])]
           balance == [k \in 1..m |-> Balance(h.accounts[k])]
           beyond == [k \in 1..m |-> Beyond(h.accounts[k])]
           both == [k \in 1..m |-> HeldBy(h.accounts[k]) + Lost(h.accounts[k])]
           declared == [k \in 1..n |-> h.declared[k].amount]
<1>1. Holds(h, m, n)
  BY HouseholdHolds
<1>2. m \in Nat /\ n \in Nat /\ DOMAIN h.accounts = 1..m /\ DOMAIN h.declared = 1..n
      /\ declared \in [1..n -> Int] /\ \A k \in 1..m : h.accounts[k] \in AccountRecords
  BY <1>1 DEF Holds
<1>3. \A k \in 1..m : /\ held[k] \in Int /\ lost[k] \in Int /\ balance[k] \in Int /\ beyond[k] \in Int
                      /\ both[k] = held[k] + lost[k] /\ both[k] = balance[k] + beyond[k]
  BY <1>2, PartsOfAccount
<1>4. /\ held \in [1..m -> Int] /\ lost \in [1..m -> Int] /\ balance \in [1..m -> Int]
      /\ beyond \in [1..m -> Int] /\ both \in [1..m -> Int]
  <2>1. /\ held = [k \in 1..m |-> held[k]] /\ lost = [k \in 1..m |-> lost[k]]
        /\ balance = [k \in 1..m |-> balance[k]] /\ beyond = [k \in 1..m |-> beyond[k]]
        /\ both = [k \in 1..m |-> both[k]]
    OBVIOUS
  <2> HIDE DEF held, lost, balance, beyond, both, m
  <2>2. \A k \in 1..m : both[k] \in Int
    BY <1>3
  <2>3. QED
    BY <1>3, <2>1, <2>2
<1>5. SumOver([key \in Keys(h) |-> TotalAt(h, key)]) = SumOf(held) + SumOf(declared)
  <2> HIDE DEF m, n
  <2>1. QED BY <1>1, HeldInBuckets
<1>6. [key \in Keys(h) |-> Buckets(h)[key].total] = [key \in Keys(h) |-> TotalAt(h, key)]
  BY DEF Buckets
<1>7. SumOf(both) = SumOf(held) + SumOf(lost)
  <2> HIDE DEF held, lost, balance, beyond, both, m
  <2>1. QED BY <1>2, <1>3, <1>4, SumAdds
<1>8. SumOf(both) = SumOf(balance) + SumOf(beyond)
  <2> HIDE DEF held, lost, balance, beyond, both, m
  <2>1. \A k \in 1..m : both[k] = balance[k] + beyond[k]
    BY <1>3
  <2>2. m \in Nat /\ both \in [1..m -> Int] /\ balance \in [1..m -> Int] /\ beyond \in [1..m -> Int]
    BY <1>2, <1>4
  <2>3. QED BY <2>1, <2>2, SumAdds
<1>9. /\ SumOf(held) \in Int /\ SumOf(lost) \in Int /\ SumOf(balance) \in Int
      /\ SumOf(beyond) \in Int /\ SumOf(declared) \in Int
  <2> HIDE DEF held, lost, balance, beyond, declared, m, n
  <2>1. SumOf(held) \in Int
    BY <1>2, <1>4, SumType
  <2>2. SumOf(lost) \in Int
    BY <1>2, <1>4, SumType
  <2>3. SumOf(balance) \in Int
    BY <1>2, <1>4, SumType
  <2>4. SumOf(beyond) \in Int
    BY <1>2, <1>4, SumType
  <2>5. n \in Nat /\ declared \in [1..n -> Int]
    BY <1>2
  <2>6. SumOf(declared) \in Int
    BY <2>5, SumType
  <2>7. QED
    BY <2>1, <2>2, <2>3, <2>4, <2>6
<1>10. SumOf(held) + SumOf(declared) + SumOf(lost) = SumOf(balance) + SumOf(beyond) + SumOf(declared)
  <2> HIDE DEF held, lost, balance, beyond, declared, both
  <2>1. QED BY <1>7, <1>8, <1>9
<1>11. QED
  BY <1>2, <1>5, <1>6, <1>10

LEMMA LostIsReported ==
  ASSUME NEW h \in HouseholdRecords, NEW k \in DOMAIN h.accounts, Lost(h.accounts[k]) > 0
  PROVE \E i \in DOMAIN NotResolved(h) : NotResolved(h)[i] = h.accounts[k]
<1> DEFINE m == Len(h.accounts)
           S == {i \in DOMAIN h.accounts : Unallocated(h.accounts[i]) > 0 \/ Unlocated(h.accounts[i])}
           q == Ascending(S)
<1>1. m \in Nat /\ S \in SUBSET (1..m)
  BY HouseholdHolds DEF Holds
<1>2. k \in S
  BY DEF Lost
<1>3. NotResolved(h) = [i \in DOMAIN q |-> h.accounts[q[i]]]
  BY DEF NotResolved, Where
<1> HIDE DEF S, m
<1>4. Lists(q, S, [x \in S |-> {y \in S : y < x}])
  BY <1>1, AscendingLists
<1> HIDE DEF q
<1>5. PICK i \in 1..Cardinality(S) : q[i] = k /\ DOMAIN q = 1..Cardinality(S)
  BY <1>2, <1>4 DEF Lists
<1>6. i \in DOMAIN NotResolved(h) /\ NotResolved(h)[i] = h.accounts[k]
  BY <1>3, <1>5
<1>7. QED
  BY <1>6

LEMMA EveryDepositAccounted ==
  ASSUME NEW h \in HouseholdRecords
  PROVE DepositsAccounted(h)
<1>1. \A k \in DOMAIN h.accounts :
         Lost(h.accounts[k]) > 0 =>
            \E i \in DOMAIN NotResolved(h) : NotResolved(h)[i] = h.accounts[k]
  BY LostIsReported
<1>2. QED
  BY <1>1, DepositsAddUp DEF DepositsAccounted

(* An account that was divided: the rest of it, and a new one.             *)
LEMMA DividedAccounts ==
  ASSUME NEW h \in HouseholdRecords, NEW k \in DOMAIN h.accounts,
         NEW rest \in AccountRecords, NEW new \in AccountRecords
  PROVE LET then == Divided(h, k, rest, new)
            m == Len(h.accounts)
        IN  /\ Holds(then, m + 1, Len(h.declared))
            /\ then.accounts[m + 1] = new
            /\ \A j \in 1..m : then.accounts[j] = IF j = k THEN rest ELSE h.accounts[j]
            /\ then.declared = h.declared
            /\ \A inst : LimitAt(then, inst) = LimitAt(h, inst)
<1> DEFINE then == Divided(h, k, rest, new)
           m == Len(h.accounts)
           mid == [h.accounts EXCEPT ![k] = rest]
<1>1. h.accounts \in Seq(AccountRecords) /\ h.declared \in Seq(DeclaredRecords) /\ m \in Nat
      /\ DOMAIN h.accounts = 1..m
  BY DEF HouseholdRecords
<1>2. mid \in Seq(AccountRecords) /\ Len(mid) = m
  BY <1>1
<1>3. /\ then.accounts = Append(mid, new) /\ then.declared = h.declared
      /\ then.creditUnions = h.creditUnions /\ then.jurisdiction = h.jurisdiction /\ then.on = h.on
  BY DEF Divided, HouseholdRecords
<1>4. \A j \in 1..m : mid[j] = IF j = k THEN rest ELSE h.accounts[j]
  BY <1>1
<1> HIDE DEF mid, then
<1>5. /\ DOMAIN then.accounts = 1..(m + 1) /\ then.accounts[m + 1] = new
      /\ \A j \in 1..m : then.accounts[j] = mid[j]
  BY <1>1, <1>2, <1>3
<1>6. \A j \in 1..(m + 1) : then.accounts[j] \in AccountRecords
  <2>1. Append(mid, new) \in Seq(AccountRecords)
    BY <1>2
  <2>2. \A j \in DOMAIN Append(mid, new) : Append(mid, new)[j] \in AccountRecords
    BY <2>1
  <2>3. QED
    BY <1>3, <1>5, <2>2
<1>7. Holds(then, m + 1, Len(h.declared))
  <2>1. Holds(h, m, Len(h.declared))
    BY HouseholdHolds
  <2>2. QED
    BY <1>3, <1>5, <1>6, <2>1 DEF Holds
<1>8. \A inst : LimitAt(then, inst) = LimitAt(h, inst)
  BY <1>3 DEF LimitAt, KindOf
<1>9. QED
  BY <1>3, <1>4, <1>5, <1>7, <1>8 DEF then

LEMMA DividedTotals ==
  ASSUME NEW h \in HouseholdRecords, NEW k \in DOMAIN h.accounts,
         NEW rest \in AccountRecords, NEW new \in AccountRecords,
         KeysOf(rest) = KeysOf(h.accounts[k]), KeysOf(new) \subseteq Keys(h)
  PROVE LET then == Divided(h, k, rest, new)
        IN  /\ Keys(then) = Keys(h)
            /\ \A key : /\ TotalAt(h, key) \in Int /\ TotalAt(then, key) \in Int
                        /\ TotalAt(then, key) + AmountAt(h.accounts[k], key)
                             = TotalAt(h, key) + AmountAt(rest, key) + AmountAt(new, key)
<1> DEFINE then == Divided(h, k, rest, new)
           m == Len(h.accounts)
           n == Len(h.declared)
<1>1. /\ Holds(then, m + 1, n) /\ then.accounts[m + 1] = new
      /\ \A j \in 1..m : then.accounts[j] = IF j = k THEN rest ELSE h.accounts[j]
      /\ then.declared = h.declared
  BY DividedAccounts
<1>2. Holds(h, m, n)
  BY HouseholdHolds
<1> HIDE DEF then, m, n
<1>3. m \in Nat /\ n \in Nat /\ k \in 1..m /\ m + 1 \in Nat /\ m + 1 \in 1..(m + 1)
      /\ DOMAIN h.accounts = 1..m /\ DOMAIN then.accounts = 1..(m + 1)
      /\ 1..m \subseteq 1..(m + 1) /\ \A j \in 1..(m + 1) : j = m + 1 \/ j \in 1..m
  BY <1>1, <1>2 DEF Holds
<1>4. Keys(then) = Keys(h)
  <2>1. \A j \in 1..m : KeysOf(then.accounts[j]) = KeysOf(h.accounts[j])
    BY <1>1
  <2>2. KeysOf(then.accounts[m + 1]) \subseteq Keys(h)
    BY <1>1
  <2> DEFINE A == UNION {KeysOf(h.accounts[j]) : j \in 1..m}
             B == UNION {KeysOf(then.accounts[j]) : j \in 1..(m + 1)}
             C == {KeyOf(h.declared[j]) : j \in DOMAIN h.declared}
  <2>3. Keys(h) = A \union C /\ Keys(then) = B \union C
    BY <1>1, <1>3 DEF Keys
  <2>4. A \subseteq B
    BY <1>3, <2>1
  <2>5. B \subseteq Keys(h)
    <3>1. ASSUME NEW j \in 1..(m + 1), NEW key \in KeysOf(then.accounts[j]) PROVE key \in Keys(h)
      <4>1. CASE j = m + 1
        BY <2>2, <3>1, <4>1
      <4>2. CASE j \in 1..m
        <5>1. key \in KeysOf(h.accounts[j])
          BY <2>1, <3>1, <4>2
        <5>2. QED
          BY <5>1, <4>2, <1>2, HouseholdKeys
      <4>3. QED
        BY <1>3, <4>1, <4>2
    <3>2. QED
      BY <3>1
  <2> HIDE DEF A, B, C
  <2>6. QED
    BY <2>3, <2>4, <2>5
<1>5. ASSUME NEW key
      PROVE /\ TotalAt(h, key) \in Int /\ TotalAt(then, key) \in Int
            /\ TotalAt(then, key) + AmountAt(h.accounts[k], key)
                 = TotalAt(h, key) + AmountAt(rest, key) + AmountAt(new, key)
  <2> DEFINE a == [j \in 1..m |-> AmountAt(h.accounts[j], key)]
             b == [j \in 1..m |-> AmountAt(then.accounts[j], key)]
             c == [j \in 1..(m + 1) |-> AmountAt(then.accounts[j], key)]
             d == SumOf([j \in 1..n |-> DeclaredAt(h.declared[j], key)])
             x == AmountAt(new, key)
             y == AmountAt(rest, key)
             z == AmountAt(h.accounts[k], key)
  <2>1. a \in [1..m -> Int] /\ b \in [1..m -> Int] /\ c \in [1..(m + 1) -> Int]
    <3>1. \A j \in 1..(m + 1) : AmountAt(then.accounts[j], key) \in Int
      BY <1>1, AmountAtType DEF Holds
    <3>2. \A j \in 1..m : AmountAt(h.accounts[j], key) \in Int
      BY <1>2, AmountAtType DEF Holds
    <3>3. QED
      BY <1>3, <3>1, <3>2
  <2>2. x \in Int /\ y \in Int /\ z \in Int
    BY <1>2, <1>3, AmountAtType DEF Holds
  <2>3. (\A j \in 1..m : j # k => b[j] = a[j]) /\ b[k] = y /\ a[k] = z
    BY <1>1, <1>3
  <2>4. (\A j \in 1..m : c[j] = b[j]) /\ c[m + 1] = x
    BY <1>1, <1>3
  <2>5. /\ TotalAt(h, key) = SumOf(a) + d /\ TotalAt(h, key) \in Int /\ SumOf(a) \in Int /\ d \in Int
    <3> HIDE DEF m, n
    <3>1. QED BY <1>2, TotalType
  <2>6. TotalAt(then, key) = SumOf(c) + d /\ TotalAt(then, key) \in Int
    <3> DEFINE p == m + 1
    <3>1. Holds(then, p, n)
      BY <1>1
    <3> HIDE DEF p
    <3>2. TotalAt(then, key) = SumOf([j \in 1..p |-> AmountAt(then.accounts[j], key)])
                                 + SumOf([j \in 1..n |-> DeclaredAt(then.declared[j], key)])
          /\ TotalAt(then, key) \in Int
      BY <3>1, TotalType
    <3>3. QED
      BY <1>1, <3>2 DEF p
  <2> HIDE DEF a, b, c, d, x, y, z
  <2>7. SumOf(b) = SumOf(a) + b[k] - a[k]
    BY <1>3, <2>1, <2>3, SumChanged
  <2>8. SumOf(c) = SumOf(b) + x
    BY <1>3, <2>1, <2>2, <2>4, SumGrows
  <2>9. TotalAt(then, key) + z = TotalAt(h, key) + y + x
    BY <2>2, <2>3, <2>5, <2>6, <2>7, <2>8
  <2>10. QED
    BY <2>5, <2>6, <2>9 DEF x, y, z
<1>6. QED
  BY <1>4, <1>5 DEF then

LEMMA SplitAccount ==
  ASSUME NEW a \in AccountRecords, NEW current \in Int
  PROVE /\ WithBalance(a, current) \in AccountRecords
        /\ KeysOf(WithBalance(a, current)) = KeysOf(a)
        /\ Swept(WithBalance(a, current)) = Swept(a)
        /\ \A key : ~ Swept(a) =>
              AmountAt(WithBalance(a, current), key) = IF key \in KeysOf(a) THEN current ELSE 0
        /\ \A key : ~ Swept(a) =>
              AmountAt(a, key) = IF key \in KeysOf(a) THEN a.current ELSE 0
<1> DEFINE b == WithBalance(a, current)
<1>1. /\ b \in AccountRecords
      /\ b.type = a.type /\ b.inst = a.inst /\ b.owner = a.owner /\ b.category = a.category
      /\ b.current = current /\ b.allocations = a.allocations
  BY DEF WithBalance, AccountRecords
<1> HIDE DEF b
<1>2. Swept(b) = Swept(a) /\ KeysOf(b) = KeysOf(a)
  BY <1>1 DEF Swept, KeysOf, BanksOf, IsDeposit
<1>3. \A key : ~ Swept(a) => AmountAt(b, key) = IF key \in KeysOf(a) THEN current ELSE 0
  BY <1>1, <1>2 DEF AmountAt
<1>4. \A key : ~ Swept(a) => AmountAt(a, key) = IF key \in KeysOf(a) THEN a.current ELSE 0
  BY DEF AmountAt
<1>5. QED
  BY <1>1, <1>2, <1>3, <1>4 DEF b

LEMMA MoreAccountsCoverNoMore ==
  ASSUME NEW h \in HouseholdRecords
  PROVE AddingAccountsAddsNothing(h)
<1> SUFFICES ASSUME NEW k \in DOMAIN h.accounts, ~ Swept(h.accounts[k])
             PROVE Buckets(Halved(h, k)) = Buckets(h)
  BY DEF AddingAccountsAddsNothing
<1> DEFINE a == h.accounts[k]
           half == a.current \div 2
           rest == WithBalance(a, a.current - half)
           new == WithBalance(a, half)
           then == Divided(h, k, rest, new)
<1>1. a \in AccountRecords /\ KeysOf(a) \subseteq Keys(h) /\ k \in 1..Len(h.accounts)
  BY HouseholdHolds, HouseholdKeys DEF Holds
<1>2. a.current \in Int /\ half \in Int /\ a.current - half \in Int
  BY <1>1, ProgramOf
<1>3. /\ rest \in AccountRecords /\ KeysOf(rest) = KeysOf(a)
      /\ \A key : AmountAt(rest, key) = IF key \in KeysOf(a) THEN a.current - half ELSE 0
  <2> DEFINE x == a.current - half
  <2>1. x \in Int
    BY <1>2
  <2> HIDE DEF x
  <2>2. QED
    BY <1>1, <2>1, SplitAccount DEF x
<1>4. /\ new \in AccountRecords /\ KeysOf(new) = KeysOf(a)
      /\ \A key : AmountAt(new, key) = IF key \in KeysOf(a) THEN half ELSE 0
      /\ \A key : AmountAt(a, key) = IF key \in KeysOf(a) THEN a.current ELSE 0
  <2> HIDE DEF half
  <2>1. QED
    BY <1>1, <1>2, SplitAccount
<1>5. \A inst : LimitAt(then, inst) = LimitAt(h, inst)
  <2> HIDE DEF rest, new
  <2>1. QED BY <1>3, <1>4, DividedAccounts
<1>6. /\ Keys(then) = Keys(h)
      /\ \A key : /\ TotalAt(h, key) \in Int /\ TotalAt(then, key) \in Int
                  /\ TotalAt(then, key) + AmountAt(a, key)
                       = TotalAt(h, key) + AmountAt(rest, key) + AmountAt(new, key)
  <2>1. KeysOf(rest) = KeysOf(h.accounts[k]) /\ KeysOf(new) \subseteq Keys(h)
    BY <1>1, <1>3, <1>4
  <2> HIDE DEF rest, new
  <2>2. QED BY <1>3, <1>4, <2>1, DividedTotals
<1>7. \A key : TotalAt(then, key) = TotalAt(h, key)
  <2>1. TAKE key
  <2>2. TotalAt(h, key) \in Int /\ TotalAt(then, key) \in Int
        /\ TotalAt(then, key) + AmountAt(a, key)
             = TotalAt(h, key) + AmountAt(rest, key) + AmountAt(new, key)
    BY <1>6
  <2>3. CASE key \in KeysOf(a)
    <3>1. AmountAt(a, key) = a.current /\ AmountAt(rest, key) = a.current - half /\ AmountAt(new, key) = half
      BY <1>3, <1>4, <2>3
    <3> DEFINE now == TotalAt(h, key)
               later == TotalAt(then, key)
               c == a.current
    <3>2. now \in Int /\ later \in Int /\ c \in Int /\ half \in Int
          /\ later + c = now + (c - half) + half
      BY <1>2, <2>2, <3>1
    <3> HIDE DEF now, later, c, half
    <3>3. later = now
      BY <3>2
    <3>4. QED
      BY <3>3 DEF now, later
  <2>4. CASE key \notin KeysOf(a)
    <3>1. AmountAt(a, key) = 0 /\ AmountAt(rest, key) = 0 /\ AmountAt(new, key) = 0
      BY <1>3, <1>4, <2>4
    <3> HIDE DEF then, rest, new, a, half
    <3>2. QED
      BY <2>2, <3>1
  <2>5. QED
    BY <2>3, <2>4
<1>8. Halved(h, k) = then
  BY DEF Halved
<1> HIDE DEF then
<1>9. Buckets(then) = Buckets(h)
  BY <1>5, <1>6, <1>7 DEF Buckets
<1>10. QED
  BY <1>8, <1>9

(* The regime in force is the one that came last.                          *)
LEMMA OneIsLast ==
  ASSUME NEW S, IsFiniteSet(S), S # {}, NEW f \in [S -> Int]
  PROVE \E x \in S : \A y \in S : f[y] <= f[x]
<1> DEFINE Done == {n \in Nat : \A T \in SUBSET S :
                      Cardinality(T) = n /\ T # {} => \E x \in T : \A y \in T : f[y] <= f[x]}
<1>1. \A T \in SUBSET S : IsFiniteSet(T) /\ Cardinality(T) \in Nat
  BY FS_Subset, FS_CardinalityType
<1>2. 0 \in Done
  <2>1. \A T \in SUBSET S : Cardinality(T) = 0 => T = {}
    BY <1>1, FS_EmptySet
  <2>2. QED
    BY <2>1
<1>3. ASSUME NEW n \in Nat, n \in Done PROVE n + 1 \in Done
  <2>1. ASSUME NEW T \in SUBSET S, Cardinality(T) = n + 1, T # {}
        PROVE \E x \in T : \A y \in T : f[y] <= f[x]
    <3>1. PICK x \in T : TRUE
      BY <2>1
    <3>2. Cardinality(T \ {x}) = n /\ T \ {x} \in SUBSET S
      <4>1. IsFiniteSet(T) /\ x \in T
        BY <1>1, <3>1
      <4>2. Cardinality(T \ {x}) = Cardinality(T) - 1
        BY <4>1, FS_RemoveElement
      <4>3. QED
        BY <2>1, <4>2
    <3>3. CASE T \ {x} = {}
      BY <3>1, <3>3
    <3>4. CASE T \ {x} # {}
      <4>1. PICK z \in T \ {x} : \A y \in T \ {x} : f[y] <= f[z]
        BY <1>3, <3>2, <3>4
      <4>2. f[x] \in Int /\ f[z] \in Int /\ \A y \in T : f[y] \in Int
        BY <3>1, <4>1, <2>1
      <4>3. CASE f[x] <= f[z]
        BY <4>1, <4>3
      <4>4. CASE f[z] < f[x]
        BY <3>1, <4>1, <4>2, <4>4
      <4>5. QED
        BY <4>2, <4>3, <4>4
    <3>5. QED
      BY <3>3, <3>4
  <2>2. QED
    BY <2>1
<1>4. Nat \subseteq Done
  <2> HIDE DEF Done
  <2>1. QED BY <1>2, <1>3, SetInduction
<1>5. QED
  BY <1>1, <1>4

LEMMA EightAreFinite ==
  ASSUME NEW a, NEW b, NEW c, NEW d, NEW e, NEW f, NEW g, NEW h
  PROVE IsFiniteSet({a, b, c, d, e, f, g, h})
<1>1. IsFiniteSet({a}) /\ IsFiniteSet({b}) /\ IsFiniteSet({c}) /\ IsFiniteSet({d})
      /\ IsFiniteSet({e}) /\ IsFiniteSet({f}) /\ IsFiniteSet({g}) /\ IsFiniteSet({h})
  BY FS_Singleton
<1>2. IsFiniteSet({a} \union {b}) /\ IsFiniteSet({c} \union {d})
      /\ IsFiniteSet({e} \union {f}) /\ IsFiniteSet({g} \union {h})
  BY <1>1, FS_Union
<1>3. IsFiniteSet(({a} \union {b}) \union ({c} \union {d}))
      /\ IsFiniteSet(({e} \union {f}) \union ({g} \union {h}))
  BY <1>2, FS_Union
<1>4. IsFiniteSet((({a} \union {b}) \union ({c} \union {d}))
                    \union (({e} \union {f}) \union ({g} \union {h})))
  BY <1>3, FS_Union
<1>5. {a, b, c, d, e, f, g, h} = (({a} \union {b}) \union ({c} \union {d}))
                                    \union (({e} \union {f}) \union ({g} \union {h}))
  OBVIOUS
<1>6. QED
  BY <1>4, <1>5

LEMMA RegimeDays ==
  /\ Day(2008, 10, 3) \in Int /\ Day(2026, 12, 1) \in Int /\ Day(2017, 1, 30) \in Int
  /\ Day(2025, 12, 1) \in Int /\ Day(2010, 12, 31) \in Int /\ Day(2021, 2, 4) \in Int
  /\ Day(2012, 2, 1) \in Int
<1>1. Day(2008, 10, 3) \in Int
  BY DayType
<1>2. Day(2026, 12, 1) \in Int
  BY DayType
<1>3. Day(2017, 1, 30) \in Int
  BY DayType
<1>4. Day(2025, 12, 1) \in Int
  BY DayType
<1>5. Day(2010, 12, 31) \in Int
  BY DayType
<1>6. Day(2021, 2, 4) \in Int
  BY DayType
<1>7. Day(2012, 2, 1) \in Int
  BY DayType
<1>8. QED
  BY <1>1, <1>2, <1>3, <1>4, <1>5, <1>6, <1>7

LEMMA RegimesTyped ==
  /\ IsFiniteSet(Regimes)
  /\ \A r \in Regimes : r.from \in Int /\ r.standard \in Int
<1> DEFINE d1 == Day(2008, 10, 3)
           d2 == Day(2026, 12, 1)
           d3 == Day(2017, 1, 30)
           d4 == Day(2025, 12, 1)
           d5 == Day(2010, 12, 31)
           d6 == Day(2021, 2, 4)
           d7 == Day(2012, 2, 1)
           r1 == Regime("FDIC", "US", "bank", 250, d1, Always)
           r2 == Regime("NCUA_PRE", "US", "credit_union", 250, d1, Day(2026, 11, 30))
           r3 == Regime("NCUA_POST", "US", "credit_union", 250, d2, Always)
           r4 == Regime("FSCS", "GB", "any", 85, d3, Day(2025, 11, 30))
           r5 == Regime("FSCS_120", "GB", "any", 120, d4, Always)
           r6 == Regime("DGS", "EU", "any", 100, d5, Always)
           r7 == Regime("DICGC", "IN", "any", 500, d6, Always)
           r8 == Regime("FCS", "AU", "any", 250, d7, Always)
<1>1. Regimes = {r1, r2, r3, r4, r5, r6, r7, r8}
  BY DEF Regimes
<1>2. /\ d1 \in Int /\ d2 \in Int /\ d3 \in Int /\ d4 \in Int /\ d5 \in Int /\ d6 \in Int
      /\ d7 \in Int
  BY RegimeDays
<1> HIDE DEF d1, d2, d3, d4, d5, d6, d7
<1>3. /\ r1.from \in Int /\ r2.from \in Int /\ r3.from \in Int /\ r4.from \in Int
      /\ r5.from \in Int /\ r6.from \in Int /\ r7.from \in Int /\ r8.from \in Int
      /\ r1.standard \in Int /\ r2.standard \in Int /\ r3.standard \in Int /\ r4.standard \in Int
      /\ r5.standard \in Int /\ r6.standard \in Int /\ r7.standard \in Int /\ r8.standard \in Int
  BY <1>2 DEF Regime
<1> HIDE DEF r1, r2, r3, r4, r5, r6, r7, r8
<1>4. IsFiniteSet({r1, r2, r3, r4, r5, r6, r7, r8})
  BY EightAreFinite
<1>5. QED
  BY <1>1, <1>3, <1>4

LEMMA LimitType ==
  ASSUME NEW h, NEW inst, \A kind \in {"bank", "credit_union"} : InForce(h.jurisdiction, h.on, kind) # {}
  PROVE LimitAt(h, inst) \in Int
<1> DEFINE S == InForce(h.jurisdiction, h.on, KindOf(h, inst))
           from == [r \in S |-> r.from]
<1>1. S # {} /\ S \in SUBSET Regimes
  BY DEF KindOf, InForce
<1>2. IsFiniteSet(S) /\ from \in [S -> Int] /\ \A r \in S : r.standard \in Int
  BY <1>1, RegimesTyped, FS_Subset
<1>3. \E r \in S : \A q \in S : from[q] <= from[r]
  <2> HIDE DEF S, from
  <2>1. QED BY <1>1, <1>2, OneIsLast
<1>4. \E r \in S : \A q \in S : q.from <= r.from
  BY <1>3
<1>5. RegimeFor(h.jurisdiction, h.on, KindOf(h, inst)) \in S
  BY <1>4 DEF RegimeFor
<1>6. QED
  BY <1>2, <1>5 DEF LimitAt

(* A remedy that is carried out, bucket by bucket.                         *)
LEMMA KeyParts ==
  ASSUME NEW h \in HouseholdRecords, NEW key \in Keys(h)
  PROVE /\ key = <<key[1], key[2], key[3]>>
        /\ key[1] \in STRING /\ key[2] \in STRING /\ key[3] \in STRING
<1>1. CASE \E k \in DOMAIN h.accounts : key \in KeysOf(h.accounts[k])
  <2>1. PICK k \in DOMAIN h.accounts : key \in KeysOf(h.accounts[k])
    BY <1>1
  <2> DEFINE a == h.accounts[k]
  <2>2. a \in AccountRecords
    BY HouseholdHolds DEF Holds
  <2>3. PICK inst \in BanksOf(a) : key = <<inst, a.owner, a.category>>
    BY <2>1 DEF KeysOf
  <2>4. /\ a.inst \in STRING /\ a.owner \in STRING /\ a.category \in STRING
        /\ a.allocations \in Programs
    BY <2>2 DEF AccountRecords
  <2>5. DOMAIN a.allocations \in SUBSET STRING
    BY <2>4, ProgramsTyped
  <2>6. inst \in STRING
    BY <2>4, <2>5 DEF BanksOf
  <2> HIDE DEF a
  <2>7. QED
    BY <2>3, <2>4, <2>6
<1>2. CASE \E k \in DOMAIN h.declared : key = KeyOf(h.declared[k])
  <2>1. PICK k \in DOMAIN h.declared : key = KeyOf(h.declared[k])
    BY <1>2
  <2>2. h.declared \in Seq(DeclaredRecords)
    BY DEF HouseholdRecords
  <2>3. h.declared[k] \in DeclaredRecords
    BY <2>2
  <2> DEFINE d == h.declared[k]
  <2>4. /\ d.inst \in STRING /\ d.owner \in STRING /\ d.category \in STRING
        /\ key = <<d.inst, d.owner, d.category>>
    BY <2>1, <2>3 DEF DeclaredRecords, KeyOf
  <2> HIDE DEF d
  <2>5. QED
    BY <2>4
<1>3. QED
  BY <1>1, <1>2 DEF Keys

LEMMA NewAccount ==
  ASSUME NEW h \in HouseholdRecords, NEW a \in AccountRecords, NEW into \in Keys(h),
         ~ Swept(a), NEW current \in Int
  PROVE LET new == AccountIn(a, into, current)
        IN  /\ new \in AccountRecords
            /\ KeysOf(new) \subseteq {into}
            /\ AmountAt(new, into) = current \/ AmountAt(new, into) = 0
            /\ \A key : key # into => AmountAt(new, key) = 0
<1> DEFINE new == AccountIn(a, into, current)
<1>1. /\ into = <<into[1], into[2], into[3]>>
      /\ into[1] \in STRING /\ into[2] \in STRING /\ into[3] \in STRING
  BY KeyParts
<1>2. /\ new \in AccountRecords
      /\ new.type = a.type /\ new.inst = into[1] /\ new.owner = into[2] /\ new.category = into[3]
      /\ new.current = current /\ new.allocations = a.allocations
  BY <1>1 DEF AccountIn, AccountRecords
<1> HIDE DEF new
<1>3. ~ Swept(new)
  BY <1>2 DEF Swept
<1>4. BanksOf(new) \subseteq {into[1]}
  BY <1>2, <1>3 DEF BanksOf
<1>5. KeysOf(new) \subseteq {into}
  BY <1>1, <1>2, <1>4 DEF KeysOf
<1>6. QED
  BY <1>2, <1>3, <1>5 DEF AmountAt, new

\* Where an account that is not swept is held is one bucket.
LEMMA OneBucket ==
  ASSUME NEW a, ~ Swept(a), NEW key \in KeysOf(a), NEW other \in KeysOf(a)
  PROVE key = other
BY DEF KeysOf, BanksOf

LEMMA AfterRemedy ==
  ASSUME NEW h \in HouseholdRecords, NEW k \in DOMAIN h.accounts, NEW move \in Int,
         NEW from \in Keys(h), NEW into \in Keys(h), from # into,
         ~ Swept(h.accounts[k]), from \in KeysOf(h.accounts[k])
  PROVE LET then == Remedied(h, k, into, move)
        IN  /\ Keys(then) = Keys(h)
            /\ \A inst : LimitAt(then, inst) = LimitAt(h, inst)
            /\ \A key : TotalAt(h, key) \in Int /\ TotalAt(then, key) \in Int
            /\ TotalAt(then, from) = TotalAt(h, from) - move
            /\ TotalAt(then, into) = TotalAt(h, into) + move \/ TotalAt(then, into) = TotalAt(h, into)
            /\ \A key : key # from /\ key # into => TotalAt(then, key) = TotalAt(h, key)
<1> DEFINE a == h.accounts[k]
           left == a.current - move
           rest == WithBalance(a, left)
           new == AccountIn(a, into, move)
           then == Divided(h, k, rest, new)
<1>1. a \in AccountRecords /\ a.current \in Int /\ left \in Int
  <2>1. a \in AccountRecords
    BY HouseholdHolds DEF Holds
  <2>2. QED
    BY <2>1, ProgramOf
<1>2. /\ rest \in AccountRecords /\ KeysOf(rest) = KeysOf(a)
      /\ \A key : AmountAt(rest, key) = IF key \in KeysOf(a) THEN left ELSE 0
      /\ \A key : AmountAt(a, key) = IF key \in KeysOf(a) THEN a.current ELSE 0
  <2> HIDE DEF left
  <2>1. QED BY <1>1, SplitAccount
<1>3. /\ new \in AccountRecords /\ KeysOf(new) \subseteq Keys(h)
      /\ AmountAt(new, into) = move \/ AmountAt(new, into) = 0
      /\ \A key : key # into => AmountAt(new, key) = 0
  BY <1>1, NewAccount
<1>4. \A inst : LimitAt(then, inst) = LimitAt(h, inst)
  <2> HIDE DEF rest, new
  <2>1. QED BY <1>2, <1>3, DividedAccounts
<1>5. /\ Keys(then) = Keys(h)
      /\ \A key : /\ TotalAt(h, key) \in Int /\ TotalAt(then, key) \in Int
                  /\ TotalAt(then, key) + AmountAt(a, key)
                       = TotalAt(h, key) + AmountAt(rest, key) + AmountAt(new, key)
  <2> HIDE DEF rest, new
  <2>1. QED BY <1>2, <1>3, DividedTotals
<1>6. /\ AmountAt(a, from) = a.current /\ AmountAt(rest, from) = left /\ AmountAt(new, from) = 0
      /\ \A key : key # from => AmountAt(a, key) = 0 /\ AmountAt(rest, key) = 0
  <2> HIDE DEF a, left, rest, new
  <2>1. \A key \in KeysOf(a) : key = from
    BY OneBucket DEF a
  <2>2. from \in KeysOf(a)
    BY DEF a
  <2>3. QED
    BY <1>2, <1>3, <2>1, <2>2
<1>7. Remedied(h, k, into, move) = then
  BY DEF Remedied
<1> HIDE DEF then, rest, new
<1>8. TotalAt(then, from) = TotalAt(h, from) - move
  <2>1. /\ TotalAt(h, from) \in Int /\ TotalAt(then, from) \in Int
        /\ TotalAt(then, from) + a.current = TotalAt(h, from) + left + 0
    BY <1>5, <1>6
  <2> DEFINE now == TotalAt(h, from)
             later == TotalAt(then, from)
             c == a.current
  <2>2. now \in Int /\ later \in Int /\ c \in Int /\ later + c = now + (c - move) + 0
    BY <1>1, <2>1
  <2> HIDE DEF now, later, c
  <2>3. later = now - move
    BY <2>2
  <2>4. QED
    BY <2>3 DEF now, later
<1>9. TotalAt(then, into) = TotalAt(h, into) + move \/ TotalAt(then, into) = TotalAt(h, into)
  <2>1. /\ TotalAt(h, into) \in Int /\ TotalAt(then, into) \in Int
        /\ TotalAt(then, into) + 0 = TotalAt(h, into) + 0 + AmountAt(new, into)
    BY <1>5, <1>6
  <2> HIDE DEF a
  <2>2. QED
    BY <1>3, <2>1
<1>10. \A key : key # from /\ key # into => TotalAt(then, key) = TotalAt(h, key)
  <2>1. ASSUME NEW key, key # from, key # into
        PROVE TotalAt(then, key) = TotalAt(h, key)
    <3>1. /\ TotalAt(h, key) \in Int /\ TotalAt(then, key) \in Int
          /\ TotalAt(then, key) + 0 = TotalAt(h, key) + 0 + 0
      BY <1>3, <1>5, <1>6, <2>1
    <3>2. QED
      BY <3>1
  <2>2. QED
    BY <2>1
<1>11. QED
  BY <1>4, <1>5, <1>7, <1>8, <1>9, <1>10

LEMMA BucketIs ==
  ASSUME NEW h, NEW key \in Keys(h)
  PROVE /\ DOMAIN Buckets(h) = Keys(h)
        /\ Buckets(h)[key].total = TotalAt(h, key) /\ Buckets(h)[key].limit = LimitAt(h, key[1])
BY DEF Buckets

\* What a report says can be moved from one bucket to another.
LEMMA RemedyMoves ==
  ASSUME NEW h \in HouseholdRecords, NEW buffer \in Nat, NEW from \in Keys(h), NEW into \in Keys(h),
         \A inst : LimitAt(h, inst) \in Int,
         from = Largest(Buckets(h), from[1]), into = Largest(Buckets(h), into[1]),
         NEW held, held = TotalAt(h, into), held \in Int, TotalAt(h, from) \in Int,
         Remedy(h, from[1], into[1], held, buffer).move > 0,
         Remedy(h, from[1], into[1], held, buffer).headroom > 0
  PROVE LET r == Remedy(h, from[1], into[1], held, buffer)
            total == TotalAt(h, from)
            limit == LimitAt(h, from[1])
        IN  /\ total > limit
            /\ r.move = total - limit + buffer
            /\ r.sourceAfter = total - r.move
            /\ held + r.move < LimitAt(h, into[1])
<1> DEFINE b == Buckets(h)
           t == TotalAt(h, from)
           l == LimitAt(h, from[1])
           u == LimitAt(h, into[1])
           r == Remedy(h, from[1], into[1], held, buffer)
           over == Uncovered(b[from])
           m == over + buffer
<1>1. /\ DOMAIN b = Keys(h) /\ b[from].total = t /\ b[from].limit = l /\ b[into].limit = u
      /\ t \in Int /\ l \in Int /\ u \in Int
  BY BucketIs
<1>2. over = IF t >= l THEN t - l ELSE 0
  BY <1>1 DEF Uncovered, ClampMinZero, Larger
<1>3. r = IF over = 0 THEN NoMove
          ELSE [move |-> m, sourceAfter |-> t - m, headroom |-> ClampMinZero(u - held - m)]
  <2>1. (\E key \in DOMAIN b : key[1] = from[1]) /\ (\E key \in DOMAIN b : key[1] = into[1])
    BY <1>1
  <2>2. b[Largest(b, from[1])] = b[from] /\ b[Largest(b, into[1])] = b[into]
    OBVIOUS
  <2>3. r = RemedyIn(b, from[1], into[1], held, buffer)
    BY DEF Remedy
  <2> HIDE DEF b, r
  <2>4. QED
    BY <1>1, <2>1, <2>2, <2>3 DEF RemedyIn
<1>4. r.move > 0 /\ r.headroom > 0
  OBVIOUS
<1> HIDE DEF b, t, l, u, r, over, m
<1>5. over # 0
  BY <1>3, <1>4 DEF NoMove
<1>6. t > l /\ over = t - l
  BY <1>1, <1>2, <1>5
<1>7. r.move = m /\ r.sourceAfter = t - m /\ r.headroom = ClampMinZero(u - held - m)
  BY <1>3, <1>5
<1>8. m = t - l + buffer /\ m \in Int
  BY <1>1, <1>6 DEF m
<1>9. u - held - m > 0
  BY <1>1, <1>4, <1>7, <1>8 DEF ClampMinZero, Larger
<1>10. held + m < u
  BY <1>1, <1>8, <1>9
<1>11. QED
  BY <1>6, <1>7, <1>8, <1>10 DEF r, t, l, u

LEMMA LessUncovered ==
  ASSUME NEW S, IsFiniteSet(S), NEW before, NEW after, DOMAIN before = S, DOMAIN after = S,
         NEW from \in S,
         \A key \in S : /\ before[key].total \in Int /\ after[key].total \in Int
                        /\ before[key].limit \in Int /\ after[key].limit = before[key].limit,
         \A key \in S : after[key].total <= before[key].total
                           \/ after[key].total <= after[key].limit,
         before[from].total > before[from].limit, after[from].total <= after[from].limit
  PROVE UncoveredIn(after) < UncoveredIn(before)
<1> DEFINE x == [key \in S |-> Uncovered(before[key])]
           y == [key \in S |-> Uncovered(after[key])]
<1>1. x \in [S -> Int] /\ y \in [S -> Int]
  BY DEF Uncovered, ClampMinZero, Larger
<1>2. \A key \in S : y[key] <= x[key]
  BY DEF Uncovered, ClampMinZero, Larger
<1>3. y[from] < x[from]
  BY DEF Uncovered, ClampMinZero, Larger
<1>4. UncoveredIn(after) = SumOver(y) /\ UncoveredIn(before) = SumOver(x)
  BY DEF UncoveredIn
<1> HIDE DEF x, y
<1>5. SumOver(y) < SumOver(x)
  BY <1>1, <1>2, <1>3, SumOverLess
<1>6. QED
  BY <1>4, <1>5

LEMMA RemediesWork ==
  ASSUME NEW h \in HouseholdRecords, NEW buffer \in Nat,
         \A kind \in {"bank", "credit_union"} : InForce(h.jurisdiction, h.on, kind) # {}
  PROVE RemedyWorks(h, buffer)
<1> DEFINE before == Buckets(h)
<1>1. \A inst : LimitAt(h, inst) \in Int
  BY LimitType
<1>2. IsFiniteSet(Keys(h)) /\ DOMAIN before = Keys(h)
  BY HouseholdHolds, HouseholdKeys DEF Buckets
<1>3. ASSUME NEW from \in Keys(h), NEW into \in Keys(h), from[1] # into[1],
             from = Largest(before, from[1]), into = Largest(before, into[1]),
             NEW r, r = Remedy(h, from[1], into[1], before[into].total, buffer),
             NEW k \in DOMAIN h.accounts, ~ Swept(h.accounts[k]), from \in KeysOf(h.accounts[k]),
             r.move > 0, r.headroom > 0
      PROVE LET after == Buckets(Remedied(h, k, into, r.move))
            IN  /\ after[from].total = before[from].limit - buffer
                /\ r.sourceAfter = after[from].total
                /\ UncoveredIn(after) < UncoveredIn(before)
  <2> DEFINE then == Remedied(h, k, into, r.move)
             after == Buckets(then)
             t == TotalAt(h, from)
             l == LimitAt(h, from[1])
             held == TotalAt(h, into)
             u == LimitAt(h, into[1])
  <2>1. \A key : TotalAt(h, key) \in Int
    BY HouseholdHolds, TotalType
  <2>2. before[into].total = held /\ before[from].total = t /\ before[from].limit = l
        /\ before[into].limit = u
    BY BucketIs
  <2>3. t \in Int /\ l \in Int /\ held \in Int /\ u \in Int
    BY <1>1, <2>1
  <2>4. /\ t > l /\ r.move = t - l + buffer /\ r.sourceAfter = t - r.move /\ held + r.move < u
    <3>1. r = Remedy(h, from[1], into[1], held, buffer)
      BY <1>3, <2>2
    <3> DEFINE s == Remedy(h, from[1], into[1], held, buffer)
    <3>2. s.move > 0 /\ s.headroom > 0
      BY <1>3, <3>1
    <3> HIDE DEF s
    <3>3. t > l /\ s.move = t - l + buffer /\ s.sourceAfter = t - s.move /\ held + s.move < u
      <4> HIDE DEF held
      <4>1. held = TotalAt(h, into)
        BY DEF held
      <4>2. s = Remedy(h, from[1], into[1], held, buffer)
        BY DEF s
      <4>3. QED
        BY <1>1, <1>3, <2>3, <3>2, <4>1, <4>2, RemedyMoves
    <3>4. r = s
      BY <3>1 DEF s
    <3>5. QED
      BY <3>3, <3>4
  <2>5. r.move \in Int
    BY <2>3, <2>4
  <2>6. /\ Keys(then) = Keys(h)
        /\ \A inst : LimitAt(then, inst) = LimitAt(h, inst)
        /\ \A key : TotalAt(h, key) \in Int /\ TotalAt(then, key) \in Int
        /\ TotalAt(then, from) = t - r.move
        /\ TotalAt(then, into) = held + r.move \/ TotalAt(then, into) = held
        /\ \A key : key # from /\ key # into => TotalAt(then, key) = TotalAt(h, key)
    <3> DEFINE move == r.move
    <3>1. move \in Int /\ from # into
      BY <1>3, <2>5
    <3> HIDE DEF move
    <3>2. LET next == Remedied(h, k, into, move)
          IN  /\ Keys(next) = Keys(h)
              /\ \A inst : LimitAt(next, inst) = LimitAt(h, inst)
              /\ \A key : TotalAt(h, key) \in Int /\ TotalAt(next, key) \in Int
              /\ TotalAt(next, from) = TotalAt(h, from) - move
              /\ TotalAt(next, into) = TotalAt(h, into) + move \/ TotalAt(next, into) = TotalAt(h, into)
              /\ \A key : key # from /\ key # into => TotalAt(next, key) = TotalAt(h, key)
      BY <1>3, <3>1, AfterRemedy
    <3>3. QED
      BY <3>2 DEF move
  <2> HIDE DEF then
  <2>7. /\ DOMAIN after = Keys(h)
        /\ \A key \in Keys(h) : /\ after[key].total = TotalAt(then, key)
                                /\ after[key].limit = LimitAt(h, key[1])
                                /\ before[key].total = TotalAt(h, key)
                                /\ before[key].limit = LimitAt(h, key[1])
    BY <2>6, BucketIs
  <2> HIDE DEF before, after
  <2>8. after[from].total = t - r.move /\ after[from].total = l - buffer
    <3>1. after[from].total = t - r.move
      BY <2>6, <2>7
    <3> HIDE DEF t, l
    <3>2. t - r.move = l - buffer
      BY <2>3, <2>4
    <3>3. QED
      BY <3>1, <3>2
  <2>9. \A key \in Keys(h) : after[key].total <= before[key].total \/ after[key].total <= after[key].limit
    <3>1. ASSUME NEW key \in Keys(h)
          PROVE after[key].total <= before[key].total \/ after[key].total <= after[key].limit
      <4>1. CASE key = from
        BY <4>1, <2>2, <2>3, <2>4, <2>5, <2>8, <1>3
      <4>2. CASE key = into
        <5>1. after[into].total = held + r.move \/ after[into].total = before[into].total
          BY <2>6, <2>7, <2>2
        <5>2. after[into].limit = u /\ before[into].total = held
          BY <2>7
        <5> HIDE DEF held, u
        <5>3. QED
          BY <4>2, <5>1, <5>2, <2>3, <2>4, <2>5
      <4>3. CASE key # from /\ key # into
        <5>1. after[key].total = before[key].total /\ before[key].total \in Int
          BY <4>3, <2>1, <2>6, <2>7
        <5>2. QED
          BY <5>1
      <4>4. QED
        BY <4>1, <4>2, <4>3
    <3>2. QED
      BY <3>1
  <2>10. /\ before[from].total > before[from].limit /\ after[from].total <= after[from].limit
    <3>1. after[from].limit = l
      BY <2>7
    <3> HIDE DEF t, l
    <3>2. QED
      BY <3>1, <2>2, <2>3, <2>4, <2>8
  <2>11. \A key \in Keys(h) :
           /\ before[key].total \in Int /\ after[key].total \in Int
           /\ before[key].limit \in Int /\ after[key].limit = before[key].limit
    BY <1>1, <2>1, <2>6, <2>7
  <2>12. UncoveredIn(after) < UncoveredIn(before)
    <3> HIDE DEF t, l, held, u
    <3>1. QED BY <1>2, <2>7, <2>9, <2>10, <2>11, LessUncovered
  <2>13. QED
    BY <2>2, <2>4, <2>8, <2>12 DEF after, then
<1>4. QED
  BY <1>2, <1>3 DEF RemedyWorks

(***************************************************************************)
(* Every unit of a deposit is in the bucket of the bank that holds it or is *)
(* reported as not resolved; half of a balance in a second account of the   *)
(* same owner at the same bank changes no bucket; and a remedy that is      *)
(* carried out leaves the buffer free below the limit and less uncovered    *)
(* than before (build_coverage_report, optimise_coverage_across_banks).     *)
(***************************************************************************)
THEOREM DepositsCorrect == FiguresSpec => []DepositsInOnePlace
<1>1. FiguresInit => DepositsInOnePlace
  <2>1. SUFFICES ASSUME FiguresInit, figure.kind = "deposits"
                 PROVE /\ DepositsAccounted(figure.household)
                       /\ AddingAccountsAddsNothing(figure.household)
                       /\ RemedyWorks(figure.household, figure.buffer)
    BY DEF DepositsInOnePlace
  <2>2. figure \in Households
    BY <2>1, PurchasesTyped, ComparisonsTyped DEF FiguresInit
  <2>3. /\ figure.household \in HouseholdRecords /\ figure.buffer \in Nat
        /\ \A kind \in {"bank", "credit_union"} :
              InForce(figure.household.jurisdiction, figure.household.on, kind) # {}
    BY <2>2, HouseholdsTyped
  <2>4. QED
    BY <2>3, EveryDepositAccounted, MoreAccountsCoverNoMore, RemediesWork
<1>2. DepositsInOnePlace /\ [UNCHANGED figure]_figure => DepositsInOnePlace'
  BY DEF DepositsInOnePlace
<1>3. QED
  BY <1>1, <1>2, PTL DEF FiguresSpec
=============================================================================
