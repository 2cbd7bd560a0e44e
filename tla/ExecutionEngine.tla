--------------------------- MODULE ExecutionEngine ---------------------------
(***************************************************************************)
(* The payment engine of FinPilot (src/finpilot/execution/engine.py) with  *)
(* the records its legs move: account balances, engine reservations, dated *)
(* bill occurrences, protected reserves, rules and their mandates.         *)
(*                                                                         *)
(* Every public method of the engine holds one reentrant lock, so a method *)
(* is one step, except run_group, which is one step per leg and settlement *)
(* while `run' keeps the lock.  Money is a natural number of cents.        *)
(***************************************************************************)
EXTENDS Integers, FiniteSets

CONSTANTS
    MaxLegs,          \* bound: payment legs ever built
    Accounts,         \* household accounts
    CashAccounts,     \* those whose available balance a transfer raises
    SendAccounts,     \* those with a healthy connection that can send
    Bills,
    BillOccurrences,  \* dated bills, `bill:<id>:<date>'
    RuleOccurrences,  \* dated funding of a rule with no bill, `policy:<id>:<date>'
    Policies,         \* recurring rules
    IncomeEvents,     \* paychecks an allocation is built from
    Mandates,         \* mandate objects (an object may be a copy of another)
    FirstMandate,     \* the standing mandate the sample workspace starts with
    BillOf,           \* [BillOccurrences -> Bills]
    Due,              \* [BillOccurrences -> Nat], the amount of the obligation
    DateOf,           \* [BillOccurrences \cup RuleOccurrences -> Nat]
    Payee,            \* [Bills -> Accounts \cup {None}]
    BillSource,       \* [Bills -> SendAccounts], funding account at first
    CreditorAccounts, \* accounts that accept a creditor payment
    PolicyBill,       \* [Policies -> Bills \cup {None}]
    PolicySource,     \* [Policies -> Accounts]
    PolicyDest,       \* [Policies -> Accounts]
    PolicyReserve,    \* [Policies -> Accounts \cup {None}]: account of its reserve
    PolicyDates,      \* [Policies -> SUBSET RuleOccurrences]
    OptionalRules,    \* rules whose allocations are not urgent
    DependsOn,        \* [1..MaxLegs -> SUBSET (1..MaxLegs)], `depends_on'
    Amounts,          \* amounts the allocator may hand to a leg
    MonthOf(_),       \* calendar month of a date
    PerRunCap, PeriodCap,
    InitAvailable,    \* [Accounts -> Nat]
    InitProtected,    \* [Accounts -> Nat], reserves already funded
    MaxDay,           \* bound: last value of `as_of'
    PaymentSandbox,   \* household.payment_sandbox
    Controls,         \* bound: kinds of edits the user makes in a run
    None

Legs == 1..MaxLegs
Occurrences == BillOccurrences \cup RuleOccurrences
Min0(n) == IF n < 0 THEN 0 ELSE n     \* Money.clamp_min_zero
Days == 0..MaxDay
Months == {MonthOf(DateOf[o]) : o \in Occurrences}
Bases == ({"policy"} \X Policies \X IncomeEvents) \cup ({"manual"} \X Nat)

ASSUME EngineAssumption ==
    /\ MaxLegs \in Nat /\ MaxDay \in Nat
    /\ CashAccounts \subseteq Accounts /\ SendAccounts \subseteq CashAccounts
    /\ BillOccurrences \cap RuleOccurrences = {}
    /\ FirstMandate \in Mandates
    /\ BillOf \in [BillOccurrences -> Bills]
    /\ Due \in [BillOccurrences -> Nat]
    /\ DateOf \in [Occurrences -> Nat]
    /\ Payee \in [Bills -> Accounts \cup {None}]
    /\ BillSource \in [Bills -> SendAccounts]
    /\ PolicyBill \in [Policies -> Bills \cup {None}]
    /\ PolicySource \in [Policies -> Accounts]
    /\ PolicyDest \in [Policies -> Accounts]
    /\ PolicyReserve \in [Policies -> Accounts \cup {None}]
    /\ PolicyDates \in [Policies -> SUBSET RuleOccurrences]
    /\ DependsOn \in [Legs -> SUBSET Legs]
    /\ Amounts \subseteq Nat \ {0}
    /\ \A o \in Occurrences : MonthOf(DateOf[o]) \in Nat
    /\ PerRunCap \in Nat /\ PeriodCap \in Nat
    /\ InitAvailable \in [Accounts -> Nat]
    /\ InitProtected \in [Accounts -> Nat]
    /\ PaymentSandbox \in BOOLEAN
    /\ None \notin Accounts \cup Bills \cup Mandates \cup Policies
           \cup Occurrences
    (* workspace.py:391 keeps a rule's goal in the rule's destination. *)
    /\ \A p \in Policies : PolicyReserve[p] # None =>
          /\ PolicyReserve[p] = PolicyDest[p]
          /\ PolicyReserve[p] \in CashAccounts

VARIABLES
    built,            \* legs built so far are 1..built
    leg,              \* the identity each leg was built with
    state,            \* LegState of each leg, or "absent"
    applied,          \* settlement_applied
    paidApplied,      \* occurrence_paid_applied
    reserved,         \* engine.reservations
    submitted,        \* keys of SimulatedProvider.submitted
    paused,           \* engine.paused
    run,              \* the run_group call that holds the lock
    available,        \* Account.available
    protected,        \* funded amount of the protected reserve in an account
    funded, paid,     \* BillOccurrence.funded and .paid
    ruleFunded,       \* RecurringPolicy.funded_by_period
    rule,             \* RecurringPolicy: mandate object, paused, skipped dates
    bill,             \* Bill: funding account and execution owner
    mandate,          \* Mandate objects: id and terms
    usage,            \* used_this_period and period_key of each object
    authority,        \* PaymentLeg.mandate, the only mutable part of a leg
    today             \* Household.as_of

legVars == <<built, leg>>
grantVars == <<mandate, usage, authority>>
ledgerVars == <<available, protected, funded, paid, ruleFunded>>
ruleVars == <<rule, bill, today>>
vars == <<built, leg, state, applied, paidApplied, reserved, submitted,
          paused, run, ledgerVars, rule, bill, grantVars, today>>

LegStates == {"draft", "awaiting_authorization", "authorized", "scheduled",
              "processing", "funds_available", "credited_by_biller",
              "reconciled", "canceled", "failed", "returned",
              "outcome_unknown"}
(* VALIDATING and SUBMITTED are entered and left inside one locked call.   *)
OutStates == {"processing", "funds_available", "credited_by_biller",
              "reconciled", "outcome_unknown"}
Cancellable == {"draft", "awaiting_authorization", "authorized", "scheduled"}
Usable == {"funds_available", "credited_by_biller", "reconciled"}

LegRecord == [group : Nat, occ : Occurrences, base : Bases, attempt : Nat,
              src : Accounts, dst : Accounts \cup {None}, amount : Nat,
              policy : Policies \cup {None},
              reserve : Accounts \cup {None}, optional : BOOLEAN]
Blank == [group |-> 0, occ |-> None, base |-> None, attempt |-> 0,
          src |-> None, dst |-> None, amount |-> 0, policy |-> None,
          reserve |-> None, optional |-> FALSE]
Grant(id, mode, active, capped) ==
    [id |-> id, mode |-> mode, active |-> active, capped |-> capped]
Unused == [used |-> 0, period |-> None]

Init ==
    /\ built = 0
    /\ leg = [l \in Legs |-> Blank]
    /\ state = [l \in Legs |-> "absent"]
    /\ applied = [l \in Legs |-> FALSE]
    /\ paidApplied = [l \in Legs |-> FALSE]
    /\ reserved = [a \in Accounts |-> 0]
    /\ submitted = {}
    /\ paused = FALSE
    /\ run = [legs |-> {}, settle |-> FALSE]
    /\ available = InitAvailable
    /\ protected = InitProtected
    /\ funded = [o \in BillOccurrences |-> 0]
    /\ paid = [o \in BillOccurrences |-> 0]
    /\ ruleFunded = [p \in Policies |-> [m \in Months |-> 0]]
    /\ rule = [p \in Policies |->
                 [mandate |-> FirstMandate, paused |-> FALSE, skipped |-> {}]]
    /\ bill = [b \in Bills |-> [source |-> BillSource[b], app |-> TRUE]]
    /\ mandate = [m \in Mandates |->
                    IF m = FirstMandate THEN Grant(m, "standing", TRUE, TRUE)
                    ELSE Grant(None, "explore", FALSE, FALSE)]
    /\ usage = [m \in Mandates |-> Unused]
    /\ authority = [l \in Legs |-> None]
    /\ today = 0

-----------------------------------------------------------------------------
(* What the engine computes from its legs. *)

Built == 1..built
Out(l) == state[l] \in OutStates                              \* money_is_out
Unsettled(l) == Out(l) /\ ~applied[l]
Key(l) == <<leg[l].occ, leg[l].base, leg[l].attempt, leg[l].amount>>
Intent(l) == <<leg[l].occ, leg[l].base, leg[l].attempt>>

(* The sum of the amounts of a set of legs, as the number of their cents.  *)
Cents(legs, S) == UNION {{l} \X (1..legs[l].amount) : l \in S}
Total(S) == Cardinality(Cents(leg, S))

InFlight(o) == {l \in Built : Unsettled(l) /\ leg[l].occ = o}
Attempt(o, base) ==
    Cardinality({l \in Built : /\ leg[l].occ = o /\ leg[l].base = base
                               /\ state[l] = "returned"})
CashRemaining(o) == Min0(Due[o] - funded[o])
Idle == run.legs = {}

(* The only rule bound to a bill, while their funding accounts agree.      *)
RuleOfBill(b) ==
    IF \E p \in Policies : PolicyBill[p] = b /\ PolicySource[p] = bill[b].source
    THEN CHOOSE p \in Policies :
             PolicyBill[p] = b /\ PolicySource[p] = bill[b].source
    ELSE None

(* Mandate.authorizes: what is left under the caps on the leg's month.     *)
Month(l) == MonthOf(DateOf[leg[l].occ])
Usage(m, month) == IF usage[m].period = month THEN usage[m].used ELSE 0
Authorizes(m, l) ==
    /\ mandate[m].active
    /\ mandate[m].mode # "explore"
    /\ leg[l].amount <= PerRunCap
    /\ mandate[m].mode = "one_time" => usage[m].used = 0
    /\ mandate[m].capped => Usage(m, Month(l)) + leg[l].amount <= PeriodCap

(* Mutant: the skipped dates are looked at only when the draft is built. *)
RuleAllowsSkipped(l) ==
    LET p == leg[l].policy IN
    p # None =>
        /\ PolicyBill[p] # None =>
              /\ bill[PolicyBill[p]].source = PolicySource[p]
              /\ leg[l].occ \in BillOccurrences
              /\ BillOf[leg[l].occ] = PolicyBill[p]
        /\ ~rule[p].paused
        /\ authority[l] # None
        /\ mandate[authority[l]].id = mandate[rule[p].mandate].id
RuleAllows(l) ==
    LET p == leg[l].policy IN
    p # None =>
        /\ PolicyBill[p] # None =>
              /\ bill[PolicyBill[p]].source = PolicySource[p]
              /\ leg[l].occ \in BillOccurrences
              /\ BillOf[leg[l].occ] = PolicyBill[p]
        /\ ~rule[p].paused
        /\ DateOf[leg[l].occ] \notin rule[p].skipped
        /\ authority[l] # None
        /\ mandate[authority[l]].id = mandate[rule[p].mandate].id

(* Mutant: what is in flight does not count against the obligation. *)
ObligationAllowsAll(l) ==
    LET o == leg[l].occ IN
    o \in BillOccurrences =>
        /\ bill[BillOf[o]] = [source |-> leg[l].src, app |-> TRUE]
        /\ leg[l].amount <= CashRemaining(o)
ObligationAllows(l) ==
    LET o == leg[l].occ
        b == BillOf[o]
    IN  o \in BillOccurrences =>
            /\ bill[b].source = leg[l].src
            /\ bill[b].app
            /\ leg[l].amount <=
                  Min0(CashRemaining(o) - Total(InFlight(o) \ {l}))

(* Mutant: protected reserves are spendable. *)
FundsAllowReserved(l) ==
    LET a == leg[l].src IN
    /\ a \in SendAccounts
    /\ leg[l].amount <= Min0(available[a] - reserved[a])
FundsAllow(l) ==
    LET a == leg[l].src IN
    /\ a \in SendAccounts
    /\ leg[l].amount <= Min0(available[a] - reserved[a] - protected[a])

(* Mutant: a payment whose outcome is unknown blocks nothing. *)
DuplicateKnown(l, m) ==
    /\ m # l /\ Out(m) /\ state[m] # "outcome_unknown"
    /\ Key(m) = Key(l) \/ Intent(m) = Intent(l)
Duplicate(l, m) ==
    /\ m # l /\ Out(m)
    /\ Key(m) = Key(l) \/ Intent(m) = Intent(l)

Preflight(l) ==
    /\ PaymentSandbox
    /\ ~paused
    /\ RuleAllows(l)
    /\ leg[l].amount > 0
    /\ ObligationAllows(l)
    /\ DateOf[leg[l].occ] <= today
    /\ authority[l] # None /\ Authorizes(authority[l], l)
    /\ FundsAllow(l)
    /\ leg[l].occ \in BillOccurrences /\ leg[l].dst # None
          => leg[l].dst \in CreditorAccounts
    /\ \A m \in Built : ~Duplicate(l, m)
    /\ \A d \in DependsOn[l] : state[d] \in Usable

-----------------------------------------------------------------------------
(* Building drafts. *)

(* Legs from..to, drawn from the identities given, are appended as drafts. *)
Draft(first, last, id) ==
    /\ last <= MaxLegs
    /\ built' = last
    /\ leg' = [l \in Legs |-> IF l \in first..last THEN id[l] ELSE leg[l]]
    /\ state' = [l \in Legs |-> IF l \in first..last THEN "draft" ELSE state[l]]
    /\ authority' = [l \in Legs |->
                        IF l \notin first..last THEN authority[l]
                        ELSE IF id[l].policy = None THEN None
                        ELSE rule[id[l].policy].mandate]
    /\ UNCHANGED <<applied, paidApplied, reserved, submitted, paused, run,
                   ledgerVars, ruleVars, mandate, usage>>

(* The obligation a rule pays: its bill's while their funding accounts     *)
(* agree, otherwise one of its own funding dates.                          *)
RulePays(p, o) ==
    IF PolicyBill[p] # None /\ bill[PolicyBill[p]].source = PolicySource[p]
    THEN o \in BillOccurrences /\ BillOf[o] = PolicyBill[p]
    ELSE o \in PolicyDates[p]

AllocationLeg(a, e, group) ==
    LET base == <<"policy", a.policy, e>> IN
    [group |-> group, occ |-> a.occ, base |-> base,
     attempt |-> Attempt(a.occ, base),
     src |-> PolicySource[a.policy],
     dst |-> IF a.occ \in BillOccurrences THEN Payee[BillOf[a.occ]]
             ELSE PolicyDest[a.policy],
     amount |-> a.amount, policy |-> a.policy,
     reserve |-> PolicyReserve[a.policy],
     optional |-> a.policy \in OptionalRules]

Allocations ==
    {a \in [policy : Policies, occ : Occurrences, amount : Amounts] :
        RulePays(a.policy, a.occ)}

(* One group from the allocation of one paycheck to at most two rules.     *)
BuildFromAllocation(e) ==
    /\ Idle
    /\ \E a, b \in Allocations :
          LET last == IF a = b THEN built + 1 ELSE built + 2 IN
          /\ a.policy = b.policy => a = b
          /\ Draft(built + 1, last,
                   [l \in built + 1 .. last |->
                      AllocationLeg(IF l = built + 1 THEN a ELSE b,
                                    e, built + 1)])

(* A one-time payment of what the obligation still needs in cash.          *)
BillLeg(o, group) ==
    LET p == RuleOfBill(BillOf[o])
        base == <<"manual", funded[o]>>
    IN  [group |-> group, occ |-> o, base |-> base,
         attempt |-> Attempt(o, base), src |-> bill[BillOf[o]].source,
         dst |-> Payee[BillOf[o]],
         amount |-> IF CashRemaining(o) = 0 THEN Due[o] ELSE CashRemaining(o),
         policy |-> p, reserve |-> None, optional |-> FALSE]

BuildFromBill(o) ==
    /\ Idle
    /\ Draft(built + 1, built + 1,
             [l \in built + 1 .. built + 1 |-> BillLeg(o, built + 1)])

-----------------------------------------------------------------------------
(* Moving one leg. *)

(* Mandate.record_use and release_use; a use in another month starts over. *)
Used(m, n, month) == [usage EXCEPT ![m] = [used |-> n, period |-> month]]
RecordUse(l) ==
    Used(authority[l], Usage(authority[l], Month(l)) + leg[l].amount, Month(l))
RefusedUse(l) ==
    Used(authority[l], Usage(authority[l], Month(l)), Month(l))
ReleaseUse(l) ==
    IF authority[l] # None /\ usage[authority[l]].period = Month(l)
    THEN Used(authority[l], Min0(usage[authority[l]].used - leg[l].amount),
              Month(l))
    ELSE usage

(* Mutant: a release that is forgotten. *)
ReleaseNothing(l) == reserved

Reserve(l) == [reserved EXCEPT ![leg[l].src] = @ + leg[l].amount]
Release(l) == [reserved EXCEPT ![leg[l].src] = Min0(@ - leg[l].amount)]

(* execute, for a leg that enters it authorized.  The simulator answers a  *)
(* key it knows with the first submission whatever fault is injected.      *)
Execute(l) ==
    /\ UNCHANGED <<legVars, applied, paidApplied, paused, ledgerVars, ruleVars,
                   mandate, authority>>
    /\ \/ /\ ~Preflight(l)
          /\ state' = [state EXCEPT ![l] = "failed"]
          /\ UNCHANGED <<reserved, submitted, usage>>
       \/ /\ Preflight(l)                                       \* accepted
          /\ state' = [state EXCEPT ![l] = "processing"]
          /\ submitted' = submitted \cup {Key(l)}
          /\ reserved' = Reserve(l)
          /\ usage' = RecordUse(l)
       \/ /\ Preflight(l) /\ Key(l) \notin submitted             \* timeout
          /\ state' = [state EXCEPT ![l] = "outcome_unknown"]
          /\ reserved' = Reserve(l)
          /\ usage' = RecordUse(l)
          /\ UNCHANGED submitted
       \/ /\ Preflight(l) /\ Key(l) \notin submitted             \* refused
          /\ state' = [state EXCEPT ![l] = "failed"]
          /\ usage' = RefusedUse(l)
          /\ UNCHANGED <<reserved, submitted>>

(* Settlement debits the source, releases its reservation and credits the  *)
(* records the leg funds; `credited' also takes it to reconciled.          *)
Move(bal, from, to, n) ==
    [a \in Accounts |-> bal[a] - (IF a = from THEN n ELSE 0)
                               + (IF a = to /\ a \in CashAccounts THEN n ELSE 0)]

Post(l) ==
    LET n == leg[l].amount IN
    /\ available' = Move(available, leg[l].src, leg[l].dst, n)
    /\ reserved' = Release(l)
    /\ applied' = [applied EXCEPT ![l] = TRUE]
    /\ protected' = [a \in Accounts |->
          IF a = leg[l].reserve THEN protected[a] + n ELSE protected[a]]
    /\ funded' = [o \in BillOccurrences |->
          IF o = leg[l].occ THEN funded[o] + n ELSE funded[o]]
    /\ ruleFunded' = [p \in Policies |-> [m \in Months |->
          IF p = leg[l].policy /\ m = Month(l)
          THEN ruleFunded[p][m] + n ELSE ruleFunded[p][m]]]

Credit(l) ==
    /\ paid' = [o \in BillOccurrences |->
          IF o = leg[l].occ /\ ~paidApplied[l] THEN paid[o] + leg[l].amount
          ELSE paid[o]]
    /\ paidApplied' = [paidApplied EXCEPT
          ![l] = @ \/ leg[l].occ \in BillOccurrences]

Settle(l, credited) ==
    /\ PaymentSandbox
    /\ \/ /\ state[l] = "processing"
          /\ Post(l)
       \/ /\ state[l] = "funds_available" /\ credited
          /\ UNCHANGED <<available, reserved, applied, protected, funded,
                         ruleFunded>>
    /\ IF credited
       THEN /\ state' = [state EXCEPT ![l] = "reconciled"]
            /\ Credit(l)
       ELSE /\ state' = [state EXCEPT ![l] = "funds_available"]
            /\ UNCHANGED <<paid, paidApplied>>
    /\ UNCHANGED <<legVars, submitted, paused, ruleVars, grantVars>>

(* Mutant: an unknown outcome is taken for an acceptance. *)
RecoverHopefully(l) ==
    /\ Idle /\ PaymentSandbox
    /\ state[l] = "outcome_unknown"
    /\ state' = [state EXCEPT ![l] = "processing"]
    /\ UNCHANGED <<legVars, applied, paidApplied, reserved, submitted, paused,
                   run, ledgerVars, ruleVars, grantVars>>
(* Ask the provider about the original identity; never submit again.       *)
RecoverUnknown(l) ==
    /\ Idle /\ PaymentSandbox
    /\ state[l] = "outcome_unknown"
    /\ IF Key(l) \in submitted
       THEN /\ state' = [state EXCEPT ![l] = "processing"]
            /\ UNCHANGED <<reserved, usage>>
       ELSE /\ state' = [state EXCEPT ![l] = "failed"]
            /\ reserved' = Release(l)
            /\ usage' = ReleaseUse(l)
    /\ UNCHANGED <<legVars, applied, paidApplied, submitted, paused, run,
                   ledgerVars, ruleVars, mandate, authority>>

(* A return reverses what settlement applied, or releases the commitment,  *)
(* and cancels the legs of the group that wait for the returned one.       *)
Unpost(l) ==
    LET n == leg[l].amount IN
    /\ available' = Move(available, leg[l].src, leg[l].dst, -n)
    /\ protected' = [a \in Accounts |->
          IF a = leg[l].reserve THEN Min0(protected[a] - n) ELSE protected[a]]
    /\ funded' = [o \in BillOccurrences |->
          IF o = leg[l].occ THEN Min0(funded[o] - n) ELSE funded[o]]
    /\ ruleFunded' = [p \in Policies |-> [m \in Months |->
          IF p = leg[l].policy /\ m = Month(l)
          THEN Min0(ruleFunded[p][m] - n) ELSE ruleFunded[p][m]]]
    /\ paid' = [o \in BillOccurrences |->
          IF o = leg[l].occ /\ paidApplied[l] THEN Min0(paid[o] - n)
          ELSE paid[o]]
    /\ paidApplied' = [paidApplied EXCEPT ![l] = FALSE]
    /\ applied' = [applied EXCEPT ![l] = FALSE]
    /\ UNCHANGED <<reserved, usage>>

Dependents(l) == {d \in Built : /\ leg[d].group = leg[l].group
                                /\ l \in DependsOn[d]
                                /\ state[d] \in Cancellable}

ApplyReturn(l) ==
    /\ Idle /\ PaymentSandbox
    /\ Out(l)
    /\ state' = [x \in Legs |-> IF x = l THEN "returned"
                                ELSE IF x \in Dependents(l) THEN "canceled"
                                ELSE state[x]]
    /\ \/ applied[l] /\ Unpost(l)
       \/ /\ ~applied[l]
          /\ reserved' = Release(l)
          /\ usage' = ReleaseUse(l)
          /\ UNCHANGED <<ledgerVars, applied, paidApplied>>
    /\ UNCHANGED <<legVars, submitted, paused, run, ruleVars, mandate,
                   authority>>

(* authorize assigns the mandate before the transition can be refused.     *)
Authorize(l, m) ==
    /\ Idle
    /\ mandate[m].id # None
    /\ authority' = [authority EXCEPT ![l] = m]
    /\ state' = [state EXCEPT ![l] =
                   IF @ \in {"draft", "awaiting_authorization"}
                   THEN "authorized" ELSE @]
    /\ UNCHANGED <<legVars, applied, paidApplied, reserved, submitted, paused,
                   run, ledgerVars, ruleVars, mandate, usage>>

(* A provider callback that never arrives: the ALLOWED table foresees it.  *)
LoseCallback(l) ==
    /\ Idle
    /\ state[l] = "processing"
    /\ state' = [state EXCEPT ![l] = "outcome_unknown"]
    /\ UNCHANGED <<legVars, applied, paidApplied, reserved, submitted, paused,
                   run, ledgerVars, ruleVars, grantVars>>

-----------------------------------------------------------------------------
(* run_group: required legs first, then by date, then in the group's order. *)

Before(l, m) ==
    LET late(x) == IF leg[x].optional THEN 1 ELSE 0
        due(x) == DateOf[leg[x].occ]
    IN  \/ late(l) < late(m)
        \/ late(l) = late(m) /\ due(l) < due(m)
        \/ late(l) = late(m) /\ due(l) = due(m) /\ l < m
Turn(l) == l \in run.legs /\ \A m \in run.legs \ {l} : Before(l, m)
Done(l) == run' = [legs |-> run.legs \ {l}, settle |-> run.settle]
Settles(l) == run.settle /\ state[l] = "processing"

RunGroup(g, settle) ==
    /\ Idle
    /\ run' = [legs |-> {l \in Built : leg[l].group = g}, settle |-> settle]
    /\ run'.legs # {}
    /\ UNCHANGED <<legVars, state, applied, paidApplied, reserved, submitted,
                   paused, ledgerVars, ruleVars, grantVars>>

(* A draft under an active mandate is authorized on the way; a leg in any  *)
(* other state is left as it is.                                           *)
Executable(l) ==
    \/ state[l] \in {"authorized", "scheduled"}
    \/ /\ state[l] = "draft"
       /\ authority[l] # None /\ mandate[authority[l]].active

RunExecute(l) ==
    /\ Turn(l) /\ Executable(l)
    /\ Execute(l)
    /\ IF run.settle /\ state'[l] = "processing" THEN UNCHANGED run ELSE Done(l)

RunSkip(l) ==
    /\ Turn(l) /\ ~Executable(l) /\ ~Settles(l)
    /\ Done(l)
    /\ UNCHANGED <<legVars, state, applied, paidApplied, reserved, submitted,
                   paused, ledgerVars, ruleVars, grantVars>>

RunSettle(l) ==
    /\ Turn(l) /\ Settles(l)
    /\ Settle(l, TRUE)
    /\ Done(l)

ExecuteOne(l) ==
    /\ Idle /\ state[l] \in {"authorized", "scheduled"}
    /\ Execute(l)
    /\ UNCHANGED run

SettleOne(l, credited) ==
    /\ Idle
    /\ Settle(l, credited)
    /\ UNCHANGED run

-----------------------------------------------------------------------------
(* The user's controls. *)

PauseAll ==
    /\ Idle
    /\ paused' = TRUE
    /\ state' = [l \in Legs |-> IF state[l] \in Cancellable THEN "canceled"
                                ELSE state[l]]
    /\ UNCHANGED <<legVars, applied, paidApplied, reserved, submitted, run,
                   ledgerVars, ruleVars, grantVars>>

ResumeExecution ==
    /\ Idle
    /\ paused' = FALSE
    /\ UNCHANGED <<legVars, state, applied, paidApplied, reserved, submitted,
                   run, ledgerVars, ruleVars, grantVars>>

engineVars == <<legVars, state, applied, paidApplied, reserved, submitted,
                paused, run, ledgerVars, authority, today>>

Fresh(m) == mandate[m].id = None
Rule(m, pause, skipped) ==
    [mandate |-> m, paused |-> pause, skipped |-> skipped]
Control(kind) == Idle /\ kind \in Controls

(* The rule p is given the mandate object m, new or a copy.                *)
Assign(p, m, grant, used, pause) ==
    /\ Fresh(m)
    /\ mandate' = [mandate EXCEPT ![m] = grant]
    /\ usage' = [usage EXCEPT ![m] = used]
    /\ rule' = [rule EXCEPT ![p] = Rule(m, pause, rule[p].skipped)]
    /\ UNCHANGED <<engineVars, bill>>

(* authorize_rule gives the rule a mandate of its own, with no period cap. *)
AuthorizeRule(p, mode) ==
    /\ Control("authorize")
    /\ \E m \in Mandates :
          Assign(p, m, Grant(m, mode, TRUE, FALSE), Unused, rule[p].paused)

(* An edit of a rule works on a deep copy of it, its mandate included.     *)
RenameRule(p) ==
    /\ Control("rename")
    /\ \E m \in Mandates, pause \in BOOLEAN :
          Assign(p, m, mandate[rule[p].mandate], usage[rule[p].mandate], pause)

(* An edit of anything but the name and the pause ends the authority.      *)
ReviseRule(p) ==
    /\ Control("revise")
    /\ \E m \in Mandates :
          Assign(p, m, Grant(m, "explore", FALSE, FALSE), Unused,
                 rule[p].paused)

PauseRule(p) ==
    /\ Control("pause")
    /\ rule' = [rule EXCEPT ![p] = Rule(rule[p].mandate, ~rule[p].paused,
                                        rule[p].skipped)]
    /\ UNCHANGED <<engineVars, bill, mandate, usage>>

(* The next trigger date of the rule that is not skipped yet.              *)
RuleDates(p) == {DateOf[o] : o \in {x \in Occurrences : RulePays(p, x)}}
SkipRule(p) ==
    /\ Control("skip")
    /\ \E d \in RuleDates(p) \ rule[p].skipped :
          /\ d >= today
          /\ \A e \in RuleDates(p) \ rule[p].skipped : e >= today => e >= d
          /\ rule' = [rule EXCEPT ![p] = Rule(rule[p].mandate, rule[p].paused,
                                              rule[p].skipped \cup {d})]
    /\ UNCHANGED <<engineVars, bill, mandate, usage>>

EditBill(b) ==
    /\ Control("bill")
    /\ \E a \in SendAccounts, app \in BOOLEAN :
          /\ a # Payee[b]
          /\ bill' = [bill EXCEPT ![b] = [source |-> a, app |-> app]]
    /\ UNCHANGED <<engineVars, rule, mandate, usage>>

NextDay ==
    /\ Idle
    /\ today < MaxDay
    /\ today' = today + 1
    /\ UNCHANGED <<legVars, state, applied, paidApplied, reserved, submitted,
                   paused, run, ledgerVars, rule, bill, grantVars>>

-----------------------------------------------------------------------------
Running ==
    \E l \in Built : RunExecute(l) \/ RunSkip(l) \/ RunSettle(l)

(* What the hosted commands (services/commands.py) ask of the engine.      *)
Commands ==
    \/ \E e \in IncomeEvents : BuildFromAllocation(e)
    \/ \E o \in BillOccurrences : BuildFromBill(o)
    \/ \E g \in Built : PaymentSandbox /\ RunGroup(g, TRUE)
    \/ \E l \in Built : RecoverUnknown(l)
    \/ PauseAll \/ ResumeExecution
    \/ \E p \in Policies, mode \in {"standing", "one_time"} :
          AuthorizeRule(p, mode)
    \/ \E p \in Policies : RenameRule(p) \/ ReviseRule(p) \/ PauseRule(p)
                           \/ SkipRule(p)
    \/ \E b \in Bills : EditBill(b)
    \/ NextDay

HostedNext == Running \/ Commands
HostedSpec == Init /\ [][HostedNext]_vars

(* The methods no command reaches: a caller of the engine itself, a        *)
(* creditor's confirmation that comes later, a lost callback, a return.    *)
Direct ==
    \E l \in Built :
        \/ \E m \in Mandates : Authorize(l, m)
        \/ ExecuteOne(l)
        \/ \E credited \in BOOLEAN : SettleOne(l, credited)
        \/ RunGroup(l, FALSE)
        \/ LoseCallback(l)
        \/ ApplyReturn(l)

Next == HostedNext \/ Direct
Spec == Init /\ [][Next]_vars

-----------------------------------------------------------------------------
TypeOK ==
    /\ built \in 0..MaxLegs
    /\ leg \in [Legs -> LegRecord \cup {Blank}]
    /\ state \in [Legs -> LegStates \cup {"absent"}]
    /\ \A l \in Legs : IF l \in Built
                       THEN leg[l] \in LegRecord /\ state[l] # "absent"
                       ELSE state[l] = "absent"
    /\ applied \in [Legs -> BOOLEAN]
    /\ paidApplied \in [Legs -> BOOLEAN]
    /\ reserved \in [Accounts -> Nat]
    /\ submitted \subseteq Occurrences \X Bases \X Nat \X Nat
    /\ paused \in BOOLEAN
    /\ run \in [legs : SUBSET Built, settle : BOOLEAN]
    /\ available \in [Accounts -> Int]
    /\ protected \in [Accounts -> Nat]
    /\ funded \in [BillOccurrences -> Nat]
    /\ paid \in [BillOccurrences -> Nat]
    /\ ruleFunded \in [Policies -> [Months -> Nat]]
    /\ rule \in [Policies -> [mandate : Mandates, paused : BOOLEAN,
                              skipped : SUBSET Nat]]
    /\ bill \in [Bills -> [source : SendAccounts, app : BOOLEAN]]
    /\ mandate \in [Mandates ->
                      [id : Mandates \cup {None},
                       mode : {"explore", "standing", "one_time"},
                       active : BOOLEAN, capped : BOOLEAN]]
    /\ usage \in [Mandates -> [used : Nat, period : Months \cup {None}]]
    /\ authority \in [Legs -> Mandates \cup {None}]
    /\ today \in Days

(* Every account's reservation is exactly the legs that are committed on   *)
(* it and have not settled; what an obligation has received is what its    *)
(* settled legs paid, and what the creditor confirmed is what its credited *)
(* legs paid; money leaves the household's cash only through a settled     *)
(* leg and comes back whole when it is returned. Nothing is released or    *)
(* counted twice, leaked or lost to a clamp, in whatever order acceptance, *)
(* timeout, recovery, settlement, confirmation and return come in.         *)
BooksExact ==
    /\ \A a \in Accounts :
        /\ reserved[a] = Total({l \in Built : Unsettled(l) /\ leg[l].src = a})
        /\ available[a] = InitAvailable[a]
            - Total({l \in Built : applied[l] /\ leg[l].src = a})
            + Total({l \in Built : applied[l] /\ leg[l].dst = a /\ a \in CashAccounts})
    /\ \A o \in BillOccurrences :
        /\ funded[o] = Total({l \in Built : applied[l] /\ leg[l].occ = o})
        /\ paid[o] = Total({l \in Built : paidApplied[l] /\ leg[l].occ = o})
        /\ paid[o] <= funded[o]

(* Settled and in-flight payments of one dated bill, by whatever route and *)
(* through whatever retries, never exceed its amount.                      *)
NeverOverpaid ==
    \A o \in BillOccurrences : funded[o] + Total(InFlight(o)) <= Due[o]

(* Two legs with one funding intent are never both out.                    *)
OneOutPerIntent ==
    \A l, m \in Built :
        l # m /\ Out(l) /\ Out(m) => Intent(l) # Intent(m)

(* A leg that the engine treats as accepted has a submission at the        *)
(* provider under its own identity.                                        *)
ProviderKnows ==
    \A l \in Built :
        Out(l) /\ state[l] # "outcome_unknown" => Key(l) \in submitted

(* What Covered presupposes of a household: its goals begin covered, which *)
(* edits of goals and accounts check (workspace.py:200, workspace.py:354), *)
(* and a rule that pays a bill and names a goal pays into the goal's       *)
(* account, which nothing checks.                                          *)
Solvent == \A a \in CashAccounts : InitProtected[a] <= InitAvailable[a]
GoalRulesFund ==
    \A p \in Policies : PolicyBill[p] # None /\ PolicyReserve[p] # None
                           => Payee[PolicyBill[p]] = PolicyReserve[p]

(* Commitments and protected reserves are covered by the account they are  *)
(* made in (under the commands; a return may take money back later).       *)
Covered ==
    \A a \in CashAccounts : reserved[a] + protected[a] <= available[a]

(* Without returns, an unresolved payment blocks every replacement: two    *)
(* legs for one obligation and one source of funding are never both out.   *)
NoReplacement ==
    \A l, m \in Built :
        /\ l # m /\ Out(l) /\ Out(m)
        /\ leg[l].occ = leg[m].occ
        => leg[l].base # leg[m].base

(* A draft built before an edit of its bill or its rule goes out only if   *)
(* the edit left the terms it was built on: the funding account, the app   *)
(* as execution owner, an unpaused rule, its date and its authority.       *)
SentOnCurrentTerms ==
    [][\A l \in Built : ~Out(l) /\ Out(l)' =>
          /\ leg[l].occ \in BillOccurrences =>
                bill[BillOf[leg[l].occ]] = [source |-> leg[l].src, app |-> TRUE]
          /\ leg[l].policy # None =>
                LET r == rule[leg[l].policy] IN
                /\ ~r.paused /\ DateOf[leg[l].occ] \notin r.skipped
                /\ mandate[authority[l]].id = mandate[r.mandate].id]_vars

-----------------------------------------------------------------------------
(* What the documentation says and the code does not keep. *)

(* models.py:645: a one-time mandate authorizes a single payment; and      *)
(* codec.py:3: a policy and its legs consume the same budget.              *)
OneTimeOnce ==
    \A l, m \in Built :
        /\ l # m /\ Out(l) /\ Out(m)
        /\ mandate[authority[l]].id = mandate[authority[m]].id
        => mandate[authority[l]].mode # "one_time"

(* models.py:618: the period cap bounds a month's payments, by the month   *)
(* of their scheduled date.                                                *)
PeriodCapHolds ==
    \A m \in Mandates, k \in Months :
        mandate[m].capped =>
            Total({l \in Built : /\ Out(l) /\ authority[l] = m
                                /\ Month(l) = k}) <= PeriodCap

(* engine.py:372: a return does not reopen the provider's old submission   *)
(* identity, so no payment may stand on the identity of a returned one.    *)
ReturnedStaysReturned ==
    \A l, m \in Built : state[l] = "returned" /\ Out(m) => Key(l) # Key(m)
=============================================================================
