------------------------------ MODULE Coverage ------------------------------
(***************************************************************************)
(* Deposit insurance, coverage remedies and collateral stress               *)
(* (engine/coverage.py).  Amounts are in whole thousands.                   *)
(***************************************************************************)
EXTENDS Schedules, Orders

Always == 0     \* no last day
Regime(code, jurisdiction, kind, standard, from, until) ==
    [code |-> code, jurisdiction |-> jurisdiction, kind |-> kind, standard |-> standard,
     from |-> from, until |-> until]
Regimes == {
    Regime("FDIC", "US", "bank", 250, Day(2008, 10, 3), Always),
    Regime("NCUA_PRE", "US", "credit_union", 250, Day(2008, 10, 3), Day(2026, 11, 30)),
    Regime("NCUA_POST", "US", "credit_union", 250, Day(2026, 12, 1), Always),
    Regime("FSCS", "GB", "any", 85, Day(2017, 1, 30), Day(2025, 11, 30)),
    Regime("FSCS_120", "GB", "any", 120, Day(2025, 12, 1), Always),
    Regime("DGS", "EU", "any", 100, Day(2010, 12, 31), Always),
    Regime("DICGC", "IN", "any", 500, Day(2021, 2, 4), Always),
    Regime("FCS", "AU", "any", 250, Day(2012, 2, 1), Always)}

InForce(jurisdiction, on, kind) ==
    {r \in Regimes : /\ r.jurisdiction = jurisdiction
                     /\ r.from <= on /\ (r.until = Always \/ on <= r.until)
                     /\ jurisdiction = "US" => r.kind = kind}
RegimeFor(jurisdiction, on, kind) ==
    CHOOSE r \in InForce(jurisdiction, on, kind) :
        \A q \in InForce(jurisdiction, on, kind) : q.from <= r.from

(***************************************************************************)
(* Aggregation by institution, owner and ownership category.                *)
(***************************************************************************)
DepositTypes == {"checking", "savings", "money_market_deposit", "cd", "brokerage_sweep"}
Unidentified == "no institution"
IsDeposit(a) == a.type \in DepositTypes
Swept(a) == DOMAIN a.allocations # {}

\* msum(amounts.values())
SumOver(amounts) ==
    LET keys == SetToSeq(DOMAIN amounts)
    IN  SumOf([k \in DOMAIN keys |-> amounts[keys[k]]])
SweptTotal(a) == SumOver(a.allocations)

\* Where an account's balance is held, and what of it: the banks of a sweep
\* program are looked through, the account's own bank is not.
BanksOf(a) ==
    IF ~IsDeposit(a) THEN {}
    ELSE IF Swept(a) THEN DOMAIN a.allocations ELSE {a.inst} \ {Unidentified}
KeysOf(a) == {<<inst, a.owner, a.category>> : inst \in BanksOf(a)}
\* Mutant: each bank of a sweep program is taken to hold the whole balance.
WholeAt(a, key) == IF key \in KeysOf(a) THEN a.current ELSE 0
AmountAt(a, key) ==
    IF key \notin KeysOf(a) THEN 0 ELSE IF Swept(a) THEN a.allocations[key[1]] ELSE a.current

Declared(inst, owner, category, amount) ==
    [inst |-> inst, owner |-> owner, category |-> category, amount |-> amount]
KeyOf(d) == <<d.inst, d.owner, d.category>>
DeclaredAt(d, key) == IF KeyOf(d) = key THEN d.amount ELSE 0

KindOf(h, inst) == IF inst \in h.creditUnions THEN "credit_union" ELSE "bank"
Keys(h) == (UNION {KeysOf(h.accounts[k]) : k \in DOMAIN h.accounts})
              \union {KeyOf(h.declared[k]) : k \in DOMAIN h.declared}
TotalAt(h, key) ==
    SumOf([k \in DOMAIN h.accounts |-> AmountAt(h.accounts[k], key)])
        + SumOf([k \in DOMAIN h.declared |-> DeclaredAt(h.declared[k], key)])
LimitAt(h, inst) == RegimeFor(h.jurisdiction, h.on, KindOf(h, inst)).standard
Buckets(h) == [key \in Keys(h) |-> [total |-> TotalAt(h, key), limit |-> LimitAt(h, key[1])]]

Covered(b) == Smaller(b.total, b.limit)
Uncovered(b) == ClampMinZero(b.total - b.limit)
UncoveredIn(buckets) == SumOver([key \in DOMAIN buckets |-> Uncovered(buckets[key])])
TotalUncovered(h) == UncoveredIn(Buckets(h))

Unallocated(a) == IF IsDeposit(a) /\ Swept(a) THEN ClampMinZero(a.current - SweptTotal(a)) ELSE 0
Unlocated(a) == IsDeposit(a) /\ ~Swept(a) /\ a.inst = Unidentified
NotResolved(h) == Where(h.accounts, LAMBDA a : Unallocated(a) > 0 \/ Unlocated(a))

\* What kind of protection each balance has; investments are in custody only.
Custody == {"money_market_fund", "brokerage"}
ByProtection(h) ==
    LET Kind(a) == IF a.type \in Custody THEN "sipc" ELSE a.protection
        counted == Where(h.accounts, LAMBDA a : a.type \in Custody \/ BanksOf(a) # {})
        Of(kind) == Where(counted, LAMBDA a : Kind(a) = kind)
    IN  [kind \in {Kind(counted[k]) : k \in DOMAIN counted} |->
            SumOf([k \in DOMAIN Of(kind) |-> Of(kind)[k].current])]

(***************************************************************************)
(* Moving what is not covered, and a buffer more, to another institution.   *)
(***************************************************************************)
NoMove == [move |-> 0]
Largest(buckets, inst) ==
    LET at == {key \in DOMAIN buckets : key[1] = inst}
    IN  CHOOSE key \in at : \A other \in at : buckets[other].total <= buckets[key].total
RemedyIn(buckets, source, destination, held, buffer) ==
    LET At(inst) == \E key \in DOMAIN buckets : key[1] = inst
        limit == IF At(destination) THEN buckets[Largest(buckets, destination)].limit ELSE 250
        MoveFrom(from, move) == [move |-> move, sourceAfter |-> from.total - move,
                                 headroom |-> ClampMinZero(limit - held - move)]
        Of(from) == IF Uncovered(from) = 0 THEN NoMove ELSE MoveFrom(from, Uncovered(from) + buffer)
    IN  IF At(source) THEN Of(buckets[Largest(buckets, source)]) ELSE NoMove
Remedy(h, source, destination, held, buffer) ==
    RemedyIn(Buckets(h), source, destination, held, buffer)

(***************************************************************************)
(* A credit line against securities, after each decline of their value.     *)
(* Rates are whole percents.                                                *)
(***************************************************************************)
Credit(value, rate, drawn) ==
    LET capacity == RoundHalfUp(value * rate, 100)
    IN  [capacity |-> capacity, headroom |-> ClampMinZero(capacity - drawn),
         deficiency |-> ClampMinZero(drawn - capacity)]
StressCollateral(value, rate, drawn, declines, reduced) ==
    LET After(d) == RoundHalfUp(value * (100 - d), 100)
        Rows(d) == <<Credit(After(d), rate, drawn)>>
                      \o [k \in DOMAIN reduced |-> Credit(After(d), reduced[k], drawn)]
    IN  FoldLeft(LAMBDA rows, d : rows \o Rows(d), <<Credit(value, rate, drawn)>>, declines)

(***************************************************************************)
(* Properties, of a household's deposits.                                   *)
(***************************************************************************)
\* IN01, IN02: every unit of a deposit is in exactly one place: in a bucket,
\* under the bank that really holds it, or reported as not resolved.
Lost(a) == IF Unlocated(a) THEN a.current ELSE Unallocated(a)
Beyond(a) == IF IsDeposit(a) /\ Swept(a) THEN ClampMinZero(SweptTotal(a) - a.current) ELSE 0
Balance(a) == IF IsDeposit(a) THEN a.current ELSE 0
DepositsAccounted(h) ==
    LET held == SumOver([key \in Keys(h) |-> Buckets(h)[key].total])
        lost == SumOf([k \in DOMAIN h.accounts |-> Lost(h.accounts[k])])
        beyond == SumOf([k \in DOMAIN h.accounts |-> Beyond(h.accounts[k])])
        balance == SumOf([k \in DOMAIN h.accounts |-> Balance(h.accounts[k])])
        declared == SumOf([k \in DOMAIN h.declared |-> h.declared[k].amount])
    IN  /\ held + lost = balance + beyond + declared
        /\ \A k \in DOMAIN h.accounts :
              Lost(h.accounts[k]) > 0 =>
                \E n \in DOMAIN NotResolved(h) : NotResolved(h)[n] = h.accounts[k]

\* The rule's own note: adding accounts does not multiply coverage.  Half of
\* a balance in a second account of the same owner at the same bank changes
\* nothing that is covered.
WithBalance(a, current) == [a EXCEPT !.current = current]
Divided(h, k, rest, new) ==
    [h EXCEPT !.accounts = Append([h.accounts EXCEPT ![k] = rest], new)]
Halved(h, k) ==
    LET a == h.accounts[k] half == a.current \div 2
    IN  Divided(h, k, WithBalance(a, a.current - half), WithBalance(a, half))
AddingAccountsAddsNothing(h) ==
    \A k \in DOMAIN h.accounts :
        ~Swept(h.accounts[k]) => Buckets(Halved(h, k)) = Buckets(h)

\* Carrying a remedy out, from an account that lies in the bucket itself and
\* to a new one at a bank with room for it, leaves the buffer below the limit
\* and less uncovered than before.
AccountIn(a, key, current) ==
    [a EXCEPT !.inst = key[1], !.owner = key[2], !.category = key[3], !.current = current]
Remedied(h, k, into, move) ==
    LET a == h.accounts[k]
    IN  Divided(h, k, WithBalance(a, a.current - move), AccountIn(a, into, move))
RemedyWorks(h, buffer) ==
    LET Works(before, after, from, r) ==
            /\ after[from].total = before[from].limit - buffer
            /\ r.sourceAfter = after[from].total
            /\ UncoveredIn(after) < UncoveredIn(before)
        Moves(before, from, into, r) ==
            \A k \in DOMAIN h.accounts :
                (/\ ~Swept(h.accounts[k]) /\ from \in KeysOf(h.accounts[k])
                 /\ h.accounts[k].current >= r.move /\ r.move > 0 /\ r.headroom > 0)
                => Works(before, Buckets(Remedied(h, k, into, r.move)), from, r)
        Each(before) ==
            \A from, into \in DOMAIN before :
                (from[1] # into[1] /\ from = Largest(before, from[1]) /\ into = Largest(before, into[1]))
                => Moves(before, from, into, Remedy(h, from[1], into[1], before[into].total, buffer))
    IN  Each(Buckets(h))
============================================================================
