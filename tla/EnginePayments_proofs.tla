------------------------ MODULE EnginePayments_proofs ------------------------
(* Proofs about which payments the engine sends, and how much they add up  *)
(* to, for every household and every bound.                                *)
EXTENDS ExecutionEngine_proofs

(* A draft built before an edit of its bill or its rule goes out only on   *)
(* the terms that hold when it is sent: the bill's funding account, the    *)
(* app as its execution owner, a running rule, a date that is not skipped  *)
(* and the authority the rule has now. Whoever calls the engine, hosted    *)
(* command or not, preflight reads them again.                             *)
THEOREM TermsCorrect == Spec => SentOnCurrentTerms
<1> DEFINE Terms(l) ==
        /\ leg[l].occ \in BillOccurrences =>
              bill[BillOf[leg[l].occ]] = [source |-> leg[l].src, app |-> TRUE]
        /\ leg[l].policy # None =>
              LET r == rule[leg[l].policy] IN
              /\ ~r.paused /\ DateOf[leg[l].occ] \notin r.skipped
              /\ mandate[authority[l]].id = mandate[r.mandate].id
<1>1. ASSUME TypeOK, [Next]_vars, NEW l \in Built, ~Out(l), Out(l)'
      PROVE  Terms(l)
  <2>1. l \in Legs
    BY <1>1, EngineAssumption DEF TypeOK, Built, Legs, EngineAssumption
  <2>2. Preflight(l)
    BY <1>1, <2>1, NextStep, EngineAssumption DEF LegStep, Sent
  <2>3. ASSUME leg[l].occ \in BillOccurrences
        PROVE  bill[BillOf[leg[l].occ]] = [source |-> leg[l].src, app |-> TRUE]
    <3> DEFINE b == BillOf[leg[l].occ]
    <3>1. bill[b] \in [source : SendAccounts, app : BOOLEAN]
      BY <1>1, <2>3, EngineAssumption DEF TypeOK, EngineAssumption
    <3>2. bill[b].source = leg[l].src /\ bill[b].app
      BY <2>2, <2>3 DEF Preflight, ObligationAllows
    <3>3. bill[b].app = TRUE
      BY <3>1, <3>2
    <3>4. QED
      BY <3>1, <3>2, <3>3
  <2>4. ASSUME leg[l].policy # None
        PROVE  LET r == rule[leg[l].policy] IN
               /\ ~r.paused /\ DateOf[leg[l].occ] \notin r.skipped
               /\ mandate[authority[l]].id = mandate[r.mandate].id
    BY <2>2, <2>4 DEF Preflight, RuleAllows
  <2>5. QED
    BY <2>3, <2>4
<1>2. TypeOK /\ [Next]_vars =>
          [\A l \in Built : ~Out(l) /\ Out(l)' => Terms(l)]_vars
  BY <1>1
<1>3. QED
  BY <1>2, TypeCorrect, PTL DEF Spec, SentOnCurrentTerms

-----------------------------------------------------------------------------
(* Under the commands alone nothing is returned. *)

(* The inductive invariant: no payment has been returned, so every one is  *)
(* a first attempt, and preflight sees a sent one as its duplicate.        *)
FirstAttempts ==
    /\ TypeOK /\ OneOutPerIntent /\ ProviderKnows
    /\ \A l \in Legs : state[l] # "returned"
    /\ \A l \in Built : leg[l].attempt = 0

LEMMA NoAttempt ==
    ASSUME FirstAttempts, NEW o, NEW base, EngineAssumption
    PROVE  Attempt(o, base) = 0
<1>1. {l \in Built : /\ leg[l].occ = o /\ leg[l].base = base
                     /\ state[l] = "returned"} = {}
  BY DEF FirstAttempts, TypeOK, Built, Legs, EngineAssumption
<1>2. QED
  BY <1>1, FS_EmptySet DEF Attempt

(* What is drafted is a first attempt too. *)
LEMMA DraftFirst ==
    ASSUME EngineAssumption, FirstAttempts, NEW last \in Nat, last > built,
           NEW id, \A l \in built + 1 .. last : id[l].attempt = 0,
           Draft(built + 1, last, id)
    PROVE  /\ \A l \in Legs : state'[l] # "returned"
           /\ \A l \in Built' : leg'[l].attempt = 0
<1>1. /\ built' = last /\ last <= MaxLegs
      /\ leg' = [l \in Legs |-> IF l \in built + 1 .. last THEN id[l] ELSE leg[l]]
      /\ state' = [l \in Legs |-> IF l \in built + 1 .. last THEN "draft"
                                   ELSE state[l]]
  BY DEF Draft
<1>2. built \in Nat /\ MaxLegs \in Nat
  BY DEF FirstAttempts, TypeOK, EngineAssumption
<1>3. \A l \in Built' : l \in Legs /\ (l \in Built \/ l \in built + 1 .. last)
  BY <1>1, <1>2 DEF Built, Legs
<1>4. QED
  BY <1>1, <1>3 DEF FirstAttempts

LEMMA BuildFirst ==
    ASSUME EngineAssumption, FirstAttempts,
           \/ \E e \in IncomeEvents : BuildFromAllocation(e)
           \/ \E o \in BillOccurrences : BuildFromBill(o)
    PROVE  /\ \A l \in Legs : state'[l] # "returned"
           /\ \A l \in Built' : leg'[l].attempt = 0
<1>1. built \in Nat
  BY DEF FirstAttempts, TypeOK, EngineAssumption
<1>2. ASSUME NEW e \in IncomeEvents, BuildFromAllocation(e)
      PROVE  \E last \in {built + 1, built + 2} : \E id :
                /\ Draft(built + 1, last, id)
                /\ \A l \in built + 1 .. last : id[l].attempt = 0
  <2>1. PICK a \in Allocations, b \in Allocations :
            LET last == IF a = b THEN built + 1 ELSE built + 2 IN
            Draft(built + 1, last,
                  [l \in built + 1 .. last |->
                     AllocationLeg(IF l = built + 1 THEN a ELSE b, e, built + 1)])
    BY <1>2 DEF BuildFromAllocation
  <2> DEFINE last == IF a = b THEN built + 1 ELSE built + 2
             id == [l \in built + 1 .. last |->
                     AllocationLeg(IF l = built + 1 THEN a ELSE b, e, built + 1)]
  <2>2. \A l \in built + 1 .. last : id[l].attempt = 0
    BY NoAttempt DEF AllocationLeg
  <2>3. Draft(built + 1, last, id) /\ last \in {built + 1, built + 2}
    BY <2>1
  <2> HIDE DEF last, id
  <2>4. QED
    BY <2>2, <2>3
<1>3. ASSUME NEW o \in BillOccurrences, BuildFromBill(o)
      PROVE  \E last \in {built + 1, built + 2} : \E id :
                /\ Draft(built + 1, last, id)
                /\ \A l \in built + 1 .. last : id[l].attempt = 0
  <2> DEFINE id == [l \in built + 1 .. built + 1 |-> BillLeg(o, built + 1)]
  <2>1. \A l \in built + 1 .. built + 1 : id[l].attempt = 0
    BY NoAttempt DEF BillLeg
  <2>2. Draft(built + 1, built + 1, id)
    BY <1>3 DEF BuildFromBill
  <2> HIDE DEF id
  <2>3. QED
    BY <2>1, <2>2
<1>4. QED
  BY <1>1, <1>2, <1>3, DraftFirst

(* No command, and no step of a run, takes a payment back. *)
LEMMA HostedFirst ==
    ASSUME EngineAssumption, FirstAttempts, [HostedNext]_vars
    PROVE  /\ \A l \in Legs : state'[l] # "returned"
           /\ \A l \in Built' : leg'[l].attempt = 0
<1> DEFINE Goal == /\ \A l \in Legs : state'[l] # "returned"
                   /\ \A l \in Built' : leg'[l].attempt = 0
<1>1. ASSUME UNCHANGED <<built, leg>>,
             \A l \in Legs : state'[l] = state[l] \/ state'[l] # "returned"
      PROVE  Goal
  BY <1>1 DEF FirstAttempts, Built
<1>2. CASE Running
  <2>1. PICK l \in Built : RunExecute(l) \/ RunSkip(l) \/ RunSettle(l)
    BY <1>2 DEF Running
  <2>2. CASE RunExecute(l)
    BY <1>1, <2>2 DEF RunExecute, Execute, legVars, FirstAttempts, TypeOK
  <2>3. CASE RunSkip(l)
    BY <1>1, <2>3 DEF RunSkip, legVars
  <2>4. CASE RunSettle(l)
    BY <1>1, <2>4 DEF RunSettle, Settle, legVars, FirstAttempts, TypeOK
  <2>5. QED
    BY <2>1, <2>2, <2>3, <2>4
<1>3. CASE \/ \E e \in IncomeEvents : BuildFromAllocation(e)
           \/ \E o \in BillOccurrences : BuildFromBill(o)
  BY <1>3, BuildFirst
<1>4. ASSUME NEW l \in Built, RecoverUnknown(l) PROVE Goal
  BY <1>1, <1>4 DEF RecoverUnknown, legVars, FirstAttempts, TypeOK
<1>5. CASE PauseAll
  BY <1>1, <1>5 DEF PauseAll, legVars
<1>6. ASSUME NEW g, RunGroup(g, TRUE) PROVE Goal
  BY <1>1, <1>6 DEF RunGroup, legVars
<1>7. CASE ResumeExecution \/ NextDay
  BY <1>1, <1>7 DEF ResumeExecution, NextDay, legVars
<1>8. CASE \/ \E p \in Policies, mode \in {"standing", "one_time"} :
                 AuthorizeRule(p, mode)
           \/ \E p \in Policies : \/ RenameRule(p) \/ ReviseRule(p)
                                  \/ PauseRule(p) \/ SkipRule(p)
           \/ \E b \in Bills : EditBill(b)
  <2>1. UNCHANGED <<built, leg, state>>
    BY <1>8 DEF AuthorizeRule, RenameRule, ReviseRule, PauseRule, SkipRule,
                EditBill, Assign, engineVars, legVars
  <2>2. QED
    BY <1>1, <2>1
<1>9. CASE Commands
  BY <1>3, <1>4, <1>5, <1>6, <1>7, <1>8, <1>9 DEF Commands
<1>10. CASE UNCHANGED vars
  BY <1>1, <1>10 DEF vars
<1>11. QED
  BY <1>2, <1>9, <1>10 DEF HostedNext

(* Under the hosted commands an unresolved payment blocks every payment    *)
(* that would replace it: two payments of one obligation from one source   *)
(* of funding (the same paycheck's allocation, the same manual balance)    *)
(* are never both out, whatever the retries, edits and lost answers.       *)
THEOREM NoReplacementCorrect == HostedSpec => []NoReplacement
<1>1. Init => FirstAttempts
  <2>1. ASSUME Init PROVE Built = {}
    BY <2>1 DEF Init, Built
  <2>2. ASSUME Init PROVE \A l \in Legs : state[l] # "returned"
    BY <2>2 DEF Init
  <2>3. QED
    BY <2>1, <2>2, OneOutInit, EngineAssumption DEF FirstAttempts, OneOut
<1>2. FirstAttempts /\ [HostedNext]_vars => FirstAttempts'
  <2> SUFFICES ASSUME FirstAttempts, [HostedNext]_vars PROVE FirstAttempts'
    OBVIOUS
  <2>1. [Next]_vars
    BY DEF Next
  <2>2. TypeOK /\ TypeOK' /\ OneOut
    BY <2>1, TypeStep, EngineAssumption DEF FirstAttempts, OneOut
  <2>3. OneOut'
    BY <2>1, <2>2, OneOutStep, EngineAssumption
  <2>4. QED
    BY <2>3, HostedFirst, EngineAssumption DEF FirstAttempts, OneOut
<1>3. FirstAttempts => NoReplacement
  BY DEF FirstAttempts, NoReplacement, OneOutPerIntent, Intent
<1>4. QED
  BY <1>1, <1>2, <1>3, PTL DEF HostedSpec

-----------------------------------------------------------------------------
(* Sums of payments. *)

(* The cents of finitely many payments are finitely many. *)
LEMMA CentsFinite ==
    ASSUME EngineAssumption, TypeOK, NEW S, S \subseteq Built
    PROVE  IsFiniteSet(S) /\ IsFiniteSet(Cents(leg, S))
<1>1. IsFiniteSet(Built)
  <2>1. built \in Int
    BY DEF TypeOK, EngineAssumption
  <2>2. QED
    BY <2>1, FS_Interval DEF Built
<1>2. IsFiniteSet(S)
  BY <1>1, FS_Subset
<1> DEFINE of == [l \in S |-> {l} \X (1..leg[l].amount)]
           pieces == {{l} \X (1..leg[l].amount) : l \in S}
<1>3. of \in Surjection(S, pieces)
  BY DEF Surjection
<1>4. IsFiniteSet(pieces)
  BY <1>2, <1>3, FS_Surjection
<1>5. ASSUME NEW l \in S PROVE IsFiniteSet({l} \X (1..leg[l].amount))
  <2>1. leg[l].amount \in Int
    BY DEF TypeOK, LegRecord, Built, Legs, EngineAssumption
  <2>2. IsFiniteSet(1..leg[l].amount)
    BY <2>1, FS_Interval
  <2>3. IsFiniteSet({l})
    BY FS_Singleton
  <2>4. QED
    BY <2>2, <2>3, FS_Product
<1>6. \A T \in pieces : IsFiniteSet(T)
  BY <1>5
<1>7. IsFiniteSet(UNION pieces)
  BY <1>4, <1>6, FS_UNION
<1>8. QED
  BY <1>2, <1>7 DEF Cents

LEMMA TotalType ==
    ASSUME EngineAssumption, TypeOK, NEW S, S \subseteq Built
    PROVE  Total(S) \in Nat
  BY CentsFinite, FS_CardinalityType DEF Total

(* A part of the payments adds up to no more than all of them. *)
LEMMA TotalPart ==
    ASSUME EngineAssumption, TypeOK, NEW S, S \subseteq Built,
           NEW T, T \subseteq S
    PROVE  Total(T) <= Total(S)
<1>1. Cents(leg, T) \in SUBSET Cents(leg, S)
  BY DEF Cents
<1>2. QED
  BY <1>1, CentsFinite, FS_Subset DEF Total

(* A payment adds its amount to the sum it joins. *)
LEMMA TotalPlus ==
    ASSUME EngineAssumption, TypeOK, NEW S, S \subseteq Built,
           NEW l \in Built \ S
    PROVE  Total(S \cup {l}) = Total(S) + leg[l].amount
<1> DEFINE C == Cents(leg, S)
           D == {l} \X (1..leg[l].amount)
<1>1. leg[l].amount \in Nat
  BY DEF TypeOK, LegRecord, Built, Legs, EngineAssumption
<1>2. IsFiniteSet(C)
  BY CentsFinite
<1>3. IsFiniteSet(D) /\ Cardinality(D) = leg[l].amount
  <2>1. IsFiniteSet({l}) /\ Cardinality({l}) = 1
    BY FS_Singleton
  <2>2. IsFiniteSet(1..leg[l].amount)
        /\ Cardinality(1..leg[l].amount) = leg[l].amount
    <3> DEFINE n == leg[l].amount
    <3>1. n \in Nat
      BY <1>1
    <3> HIDE DEF n
    <3>2. IsFiniteSet(1..n) /\ Cardinality(1..n) = IF 1 > n THEN 0 ELSE n - 1 + 1
      BY <3>1, FS_Interval
    <3>3. QED
      BY <3>1, <3>2 DEF n
  <2>3. QED
    <3> DEFINE n == leg[l].amount
               L == {l}
               R == 1..n
    <3>1. /\ IsFiniteSet(L) /\ Cardinality(L) = 1
          /\ IsFiniteSet(R) /\ Cardinality(R) = n /\ n \in Nat
      BY <1>1, <2>1, <2>2
    <3> HIDE DEF n, L, R
    <3>2. IsFiniteSet(L \X R) /\ Cardinality(L \X R) = 1 * n
      BY <3>1, FS_Product
    <3>3. QED
      BY <3>1, <3>2 DEF n, L, R
<1>4. Cents(leg, S \cup {l}) = C \cup D
  BY DEF Cents
<1>5. C \cap D = {}
  BY DEF Cents
<1>6. Cardinality(C \cup D) = Cardinality(C) + Cardinality(D) - 0
  BY <1>2, <1>3, <1>5, FS_Union, FS_EmptySet
<1>7. Cardinality(C) \in Nat
  BY <1>2, FS_CardinalityType
<1>8. Cardinality(Cents(leg, S \cup {l})) = Cardinality(C) + leg[l].amount
  <2> DEFINE c == Cardinality(C)
             d == Cardinality(D)
  <2>1. c \in Nat /\ d \in Nat /\ d = leg[l].amount
    BY <1>1, <1>3, <1>7
  <2>2. Cardinality(Cents(leg, S \cup {l})) = c + d - 0
    BY <1>4, <1>6
  <2> HIDE DEF c, d
  <2>3. Cardinality(Cents(leg, S \cup {l})) = c + d
    BY <2>1, <2>2
  <2>4. QED
    BY <2>1, <2>3 DEF c
<1>9. QED
  BY <1>8 DEF Total

LEMMA TotalMinus ==
    ASSUME EngineAssumption, TypeOK, NEW S, S \subseteq Built, NEW l \in S
    PROVE  /\ Total(S) = Total(S \ {l}) + leg[l].amount
           /\ leg[l].amount \in Nat
<1>1. S = (S \ {l}) \cup {l} /\ l \in Built \ (S \ {l})
  OBVIOUS
<1>2. Total((S \ {l}) \cup {l}) = Total(S \ {l}) + leg[l].amount
  BY <1>1, TotalPlus
<1>3. leg[l].amount \in Nat
  BY DEF TypeOK, LegRecord, Built, Legs, EngineAssumption
<1>4. QED
  BY <1>1, <1>2, <1>3

(* A step leaves the sum of payments already drafted as it was. *)
LEMMA TotalKept ==
    ASSUME LegStep, NEW S, S \subseteq Built
    PROVE  Cardinality(Cents(leg', S)) = Total(S)
<1>1. \A l \in S : leg'[l] = leg[l]
  BY DEF LegStep
<1>2. Cents(leg', S) = Cents(leg, S)
  BY <1>1 DEF Cents
<1>3. QED
  BY <1>2 DEF Total

-----------------------------------------------------------------------------
(* How a step moves money: it leaves every account and obligation alone,   *)
(* or it commits, releases, settles, confirms or takes back one payment.   *)

Class(x) == <<Out(x), state[x] \in Usable>>
Others(l) == \A x \in Legs \ {l} : Class(x)' = Class(x)
SettledKept ==
    UNCHANGED <<applied, paidApplied, available, protected, funded, paid>>

Quiet ==
    /\ SettledKept /\ UNCHANGED reserved
    /\ \A x \in Legs : Class(x)' = Class(x)
Commits(l) ==
    /\ ~Out(l) /\ Preflight(l) /\ Out(l)' /\ state'[l] \notin Usable
    /\ Others(l) /\ SettledKept /\ reserved' = Reserve(l)
Releases(l) ==
    /\ Unsettled(l) /\ ~Out(l)' /\ state'[l] \notin Usable
    /\ Others(l) /\ SettledKept /\ reserved' = Release(l)
Posts(l) ==
    /\ state[l] = "processing" /\ Out(l)' /\ state'[l] \in Usable
    /\ Others(l) /\ Post(l)
    /\ Credit(l) \/ UNCHANGED <<paid, paidApplied>>
Credits(l) ==
    /\ state[l] = "funds_available" /\ Out(l)' /\ state'[l] \in Usable
    /\ Others(l) /\ Credit(l)
    /\ UNCHANGED <<available, reserved, applied, protected, funded>>
Unposts(l) ==
    /\ Out(l) /\ applied[l] /\ ~Out(l)' /\ state'[l] \notin Usable
    /\ state'[l] = "returned"
    /\ Others(l) /\ Unpost(l)

MoneyStep ==
    \/ Quiet
    \/ \E l \in Built : \/ Commits(l) \/ Releases(l) \/ Posts(l)
                        \/ Credits(l) \/ Unposts(l)

(* A leg has been applied exactly while its money is where it was sent,    *)
(* and its creditor's confirmation only while it is applied.               *)
Phases ==
    /\ TypeOK
    /\ \A l \in Legs : applied[l] <=> state[l] \in Usable
    /\ \A l \in Legs : paidApplied[l] =>
                          applied[l] /\ leg[l].occ \in BillOccurrences

LEMMA MoneyOfExecute ==
    ASSUME EngineAssumption, Phases, NEW l \in Built, Execute(l),
           state[l] \in {"draft", "authorized", "scheduled"}
    PROVE  MoneyStep
<1>1. l \in Legs /\ state \in [Legs -> LegStates \cup {"absent"}]
  BY DEF Phases, TypeOK, Built, Legs, EngineAssumption
<1>2. ~Out(l) /\ state[l] \notin Usable
  BY DEF Out, OutStates, Usable
<1>3. SettledKept
  BY DEF Execute, SettledKept, ledgerVars
<1>4. ASSUME state' = [state EXCEPT ![l] = "failed"], UNCHANGED reserved
      PROVE  Quiet
  <2>1. \A x \in Legs : Class(x)' = Class(x)
    BY <1>1, <1>2, <1>4 DEF Class, Out, OutStates, Usable
  <2>2. QED
    BY <1>3, <1>4, <2>1 DEF Quiet
<1>5. ASSUME NEW s \in {"processing", "outcome_unknown"}, Preflight(l),
             state' = [state EXCEPT ![l] = s], reserved' = Reserve(l)
      PROVE  Commits(l)
  <2>1. Others(l) /\ Out(l)' /\ state'[l] \notin Usable
    BY <1>1, <1>5 DEF Others, Class, Out, OutStates, Usable
  <2>2. QED
    BY <1>2, <1>3, <1>5, <2>1 DEF Commits
<1>6. QED
  BY <1>4, <1>5 DEF Execute, MoneyStep

LEMMA MoneyOfSettle ==
    ASSUME EngineAssumption, Phases, NEW l \in Built, NEW credited,
           Settle(l, credited)
    PROVE  MoneyStep
<1>1. l \in Legs /\ state \in [Legs -> LegStates \cup {"absent"}]
  BY DEF Phases, TypeOK, Built, Legs, EngineAssumption
<1>2. Others(l) /\ Out(l)' /\ state'[l] \in Usable
  <2>1. \E s \in {"reconciled", "funds_available"} :
            state' = [state EXCEPT ![l] = s]
    BY DEF Settle
  <2>2. QED
    BY <1>1, <2>1 DEF Others, Class, Out, OutStates, Usable
<1>3. CASE state[l] = "processing" /\ Post(l)
  BY <1>2, <1>3 DEF Settle, Posts, MoneyStep
<1>4. CASE /\ state[l] = "funds_available" /\ credited
           /\ UNCHANGED <<available, reserved, applied, protected, funded,
                          ruleFunded>>
  BY <1>2, <1>4 DEF Settle, Credits, MoneyStep
<1>5. QED
  BY <1>3, <1>4 DEF Settle

LEMMA MoneyOfReturn ==
    ASSUME EngineAssumption, Phases, NEW l \in Built, ApplyReturn(l)
    PROVE  MoneyStep
<1>1. l \in Legs
  BY DEF Phases, TypeOK, Built, Legs, EngineAssumption
<1>2. /\ Out(l)
      /\ state' = [x \in Legs |-> IF x = l THEN "returned"
                                  ELSE IF x \in Dependents(l) THEN "canceled"
                                  ELSE state[x]]
  BY DEF ApplyReturn
<1>3. Others(l) /\ ~Out(l)' /\ state'[l] \notin Usable
  <2>1. \A x \in Dependents(l) : ~Out(x) /\ state[x] \notin Usable
    BY DEF Dependents, Cancellable, Out, OutStates, Usable
  <2>2. QED
    BY <1>1, <1>2, <2>1 DEF Others, Class, Out, OutStates, Usable
<1>4. CASE applied[l] /\ Unpost(l)
  BY <1>1, <1>2, <1>3, <1>4 DEF Unposts, MoneyStep
<1>5. CASE /\ ~applied[l] /\ reserved' = Release(l)
           /\ UNCHANGED <<ledgerVars, applied, paidApplied>>
  BY <1>2, <1>3, <1>5 DEF Releases, Unsettled, SettledKept, ledgerVars, MoneyStep
<1>6. QED
  BY <1>4, <1>5 DEF ApplyReturn

LEMMA MoneyOfRecover ==
    ASSUME EngineAssumption, Phases, NEW l \in Built, RecoverUnknown(l)
    PROVE  MoneyStep
<1>1. l \in Legs /\ state \in [Legs -> LegStates \cup {"absent"}]
  BY DEF Phases, TypeOK, Built, Legs, EngineAssumption
<1>2. state[l] = "outcome_unknown" /\ SettledKept /\ Unsettled(l)
  BY <1>1 DEF RecoverUnknown, SettledKept, ledgerVars, Unsettled, Out,
              OutStates, Phases, Usable
<1>3. CASE state' = [state EXCEPT ![l] = "processing"] /\ UNCHANGED reserved
  <2>1. \A x \in Legs : Class(x)' = Class(x)
    BY <1>1, <1>2, <1>3 DEF Class, Out, OutStates, Usable
  <2>2. QED
    BY <1>2, <1>3, <2>1 DEF Quiet, MoneyStep
<1>4. CASE state' = [state EXCEPT ![l] = "failed"] /\ reserved' = Release(l)
  <2>1. Others(l) /\ ~Out(l)' /\ state'[l] \notin Usable
    BY <1>1, <1>4 DEF Others, Class, Out, OutStates, Usable
  <2>2. QED
    BY <1>2, <1>4, <2>1 DEF Releases, MoneyStep
<1>5. QED
  BY <1>3, <1>4 DEF RecoverUnknown

LEMMA MoneyOfBuild ==
    ASSUME EngineAssumption, Phases,
           \/ \E e \in IncomeEvents : BuildFromAllocation(e)
           \/ \E o \in BillOccurrences : BuildFromBill(o)
    PROVE  MoneyStep
<1>1. PICK last, id : last \in {built + 1, built + 2} /\ Draft(built + 1, last, id)
  <2>1. CASE \E e \in IncomeEvents : BuildFromAllocation(e)
    BY <2>1 DEF BuildFromAllocation
  <2>2. CASE \E o \in BillOccurrences : BuildFromBill(o)
    BY <2>2 DEF BuildFromBill
  <2>3. QED
    BY <2>1, <2>2
<1>2. built \in Nat
  BY DEF Phases, TypeOK, EngineAssumption
<1>3. SettledKept /\ UNCHANGED reserved
  BY <1>1 DEF Draft, SettledKept, ledgerVars
<1>4. \A x \in built + 1 .. last : x \notin Built
  BY <1>2 DEF Built
<1>5. \A x \in Legs : \/ state'[x] = state[x]
                      \/ state'[x] = "draft" /\ state[x] = "absent"
  BY <1>1, <1>4 DEF Draft, Phases, TypeOK
<1>6. \A x \in Legs : Class(x)' = Class(x)
  BY <1>5 DEF Class, Out, OutStates, Usable
<1>7. QED
  BY <1>3, <1>6 DEF Quiet, MoneyStep

LEMMA MoneyOfNext ==
    ASSUME EngineAssumption, Phases, [Next]_vars
    PROVE  MoneyStep
<1>1. ASSUME SettledKept, UNCHANGED reserved,
             \A x \in Legs : Class(x)' = Class(x)
      PROVE  MoneyStep
  BY <1>1 DEF Quiet, MoneyStep
<1>2. ASSUME UNCHANGED <<state, reserved>>, SettledKept PROVE MoneyStep
  BY <1>1, <1>2 DEF Class, Out
<1>3. CASE Running
  <2>1. PICK l \in Built : RunExecute(l) \/ RunSkip(l) \/ RunSettle(l)
    BY <1>3 DEF Running
  <2>2. CASE RunExecute(l)
    BY <2>2, MoneyOfExecute DEF RunExecute, Executable
  <2>3. CASE RunSkip(l)
    BY <1>2, <2>3 DEF RunSkip, SettledKept, ledgerVars
  <2>4. CASE RunSettle(l)
    BY <2>4, MoneyOfSettle DEF RunSettle
  <2>5. QED
    BY <2>1, <2>2, <2>3, <2>4
<1>4. CASE PauseAll
  <2>1. \A x \in Legs : \/ state'[x] = state[x]
                        \/ state'[x] = "canceled" /\ state[x] \in Cancellable
    BY <1>4 DEF PauseAll
  <2>2. \A x \in Legs : Class(x)' = Class(x)
    BY <2>1 DEF Class, Out, OutStates, Usable, Cancellable
  <2>3. QED
    BY <1>1, <1>4, <2>2 DEF PauseAll, SettledKept, ledgerVars
<1>5. ASSUME NEW g, NEW settle, RunGroup(g, settle) PROVE MoneyStep
  BY <1>2, <1>5 DEF RunGroup, SettledKept, ledgerVars
<1>6. CASE ResumeExecution \/ NextDay
  BY <1>2, <1>6 DEF ResumeExecution, NextDay, SettledKept, ledgerVars
<1>7. CASE \/ \E p \in Policies, mode \in {"standing", "one_time"} :
                 AuthorizeRule(p, mode)
           \/ \E p \in Policies : \/ RenameRule(p) \/ ReviseRule(p)
                                  \/ PauseRule(p) \/ SkipRule(p)
           \/ \E b \in Bills : EditBill(b)
  <2>1. UNCHANGED engineVars
    BY <1>7 DEF AuthorizeRule, RenameRule, ReviseRule, PauseRule, SkipRule,
                EditBill, Assign
  <2>2. QED
    BY <1>2, <2>1 DEF engineVars, SettledKept, ledgerVars
<1>8. CASE Commands
  BY <1>4, <1>5, <1>6, <1>7, <1>8, MoneyOfBuild, MoneyOfRecover DEF Commands
<1>9. ASSUME NEW l \in Built, NEW m \in Mandates, Authorize(l, m)
      PROVE  MoneyStep
  <2>1. \A x \in Legs :
            \/ state'[x] = state[x]
            \/ /\ state'[x] = "authorized"
               /\ state[x] \in {"draft", "awaiting_authorization"}
    BY <1>9 DEF Authorize, Phases, TypeOK
  <2>2. \A x \in Legs : Class(x)' = Class(x)
    BY <2>1 DEF Class, Out, OutStates, Usable
  <2>3. QED
    BY <1>1, <1>9, <2>2 DEF Authorize, SettledKept, ledgerVars
<1>10. ASSUME NEW l \in Built, LoseCallback(l) PROVE MoneyStep
  <2>1. \A x \in Legs : \/ state'[x] = state[x]
                        \/ state'[x] = "outcome_unknown"
                           /\ state[x] = "processing"
    BY <1>10 DEF LoseCallback, Phases, TypeOK
  <2>2. \A x \in Legs : Class(x)' = Class(x)
    BY <2>1 DEF Class, Out, OutStates, Usable
  <2>3. QED
    BY <1>1, <1>10, <2>2 DEF LoseCallback, SettledKept, ledgerVars
<1>11. CASE Direct
  <2>1. PICK l \in Built :
          \/ \E m \in Mandates : Authorize(l, m)
          \/ ExecuteOne(l)
          \/ \E credited \in BOOLEAN : SettleOne(l, credited)
          \/ RunGroup(l, FALSE)
          \/ LoseCallback(l)
          \/ ApplyReturn(l)
    BY <1>11 DEF Direct
  <2>2. CASE ExecuteOne(l)
    BY <2>2, MoneyOfExecute DEF ExecuteOne
  <2>3. CASE \E credited \in BOOLEAN : SettleOne(l, credited)
    BY <2>3, MoneyOfSettle DEF SettleOne
  <2>4. QED
    BY <2>1, <2>2, <2>3, <1>5, <1>9, <1>10, MoneyOfReturn
<1>12. CASE UNCHANGED vars
  BY <1>2, <1>12 DEF vars, SettledKept, ledgerVars
<1>13. QED
  BY <1>3, <1>8, <1>11, <1>12 DEF Next, HostedNext

-----------------------------------------------------------------------------
(* The three sets of payments that the books are kept of, and how one step *)
(* changes them.                                                           *)

UnsettledLegs == {l \in Built : Unsettled(l)}
SettledLegs == {l \in Built : applied[l]}
ConfirmedLegs == {l \in Built : paidApplied[l]}

LEMMA PhasesStep ==
    ASSUME EngineAssumption, Phases, [Next]_vars
    PROVE  Phases' /\ LegStep /\ MoneyStep /\ Built \subseteq Legs
<1>1. LegStep /\ TypeOK' /\ MoneyStep
  BY NextStep, TypeStep, MoneyOfNext DEF Phases
<1>2. Built \subseteq Legs /\ Built \subseteq Built'
  <2>1. built \in 0..MaxLegs /\ MaxLegs \in Nat
    BY DEF Phases, TypeOK, EngineAssumption
  <2>2. Built \subseteq Legs
    BY <2>1 DEF Built, Legs
  <2>3. Built \subseteq Built'
    BY <1>1 DEF LegStep
  <2>4. QED
    BY <2>2, <2>3
<1>3. \A l \in Legs : applied[l] \/ paidApplied[l] => l \in Built
  BY DEF Phases, TypeOK, Usable
<1>4. \A l \in Built : leg'[l] = leg[l]
  BY <1>1 DEF LegStep
<1>5. (\A l \in Legs : applied'[l] <=> state'[l] \in Usable)
      /\ \A l \in Legs : paidApplied'[l] =>
            applied'[l] /\ leg'[l].occ \in BillOccurrences
  <2>1. CASE Quiet
    BY <1>3, <1>4, <2>1 DEF Quiet, SettledKept, Class, Phases
  <2>2. ASSUME NEW l \in Built, Commits(l) \/ Releases(l)
        PROVE  /\ \A x \in Legs : applied'[x] <=> state'[x] \in Usable
               /\ \A x \in Legs : paidApplied'[x] =>
                     applied'[x] /\ leg'[x].occ \in BillOccurrences
    <3>1. ~applied[l]
      BY <1>2, <2>2 DEF Commits, Releases, Unsettled, Out, OutStates, Usable, Phases
    <3>2. QED
      BY <1>2, <1>3, <1>4, <2>2, <3>1
      DEF Commits, Releases, Others, SettledKept, Class, Phases
  <2>3. ASSUME NEW l \in Built, Posts(l) \/ Credits(l)
        PROVE  /\ \A x \in Legs : applied'[x] <=> state'[x] \in Usable
               /\ \A x \in Legs : paidApplied'[x] =>
                     applied'[x] /\ leg'[x].occ \in BillOccurrences
    <3>1. /\ \A x \in Legs : applied'[x] <=> (applied[x] \/ x = l)
          /\ state'[l] \in Usable /\ Others(l)
      BY <1>2, <2>3 DEF Posts, Credits, Post, Phases, TypeOK, Usable
    <3>2. \A x \in Legs : paidApplied'[x] =>
              paidApplied[x] \/ (x = l /\ leg[l].occ \in BillOccurrences)
      BY <1>2, <2>3 DEF Posts, Credits, Credit, Phases, TypeOK
    <3>3. QED
      BY <1>2, <1>3, <1>4, <3>1, <3>2 DEF Others, Class, Phases
  <2>4. ASSUME NEW l \in Built, Unposts(l)
        PROVE  /\ \A x \in Legs : applied'[x] <=> state'[x] \in Usable
               /\ \A x \in Legs : paidApplied'[x] =>
                     applied'[x] /\ leg'[x].occ \in BillOccurrences
    <3>1. \A x \in Legs : /\ applied'[x] <=> (applied[x] /\ x # l)
                          /\ paidApplied'[x] <=> (paidApplied[x] /\ x # l)
      BY <1>2, <2>4 DEF Unposts, Unpost, Phases, TypeOK
    <3>2. QED
      BY <1>2, <1>3, <1>4, <2>4, <3>1 DEF Unposts, Others, Class, Phases
  <2>5. QED
    BY <1>1, <2>1, <2>2, <2>3, <2>4 DEF MoneyStep
<1>6. QED
  BY <1>1, <1>2, <1>5 DEF Phases

LEMMA SetsStep ==
    ASSUME EngineAssumption, Phases, [Next]_vars
    PROVE  /\ Quiet => UNCHANGED <<UnsettledLegs, SettledLegs, ConfirmedLegs>>
           /\ \A l \in Built :
                /\ Commits(l) =>
                     /\ l \notin UnsettledLegs
                     /\ UnsettledLegs' = UnsettledLegs \cup {l}
                     /\ UNCHANGED <<SettledLegs, ConfirmedLegs>>
                /\ Releases(l) =>
                     /\ l \in UnsettledLegs
                     /\ UnsettledLegs' = UnsettledLegs \ {l}
                     /\ UNCHANGED <<SettledLegs, ConfirmedLegs>>
                /\ Posts(l) =>
                     /\ l \in UnsettledLegs /\ l \notin SettledLegs
                     /\ UnsettledLegs' = UnsettledLegs \ {l}
                     /\ SettledLegs' = SettledLegs \cup {l}
                /\ Credits(l) => UNCHANGED <<UnsettledLegs, SettledLegs>>
                /\ Unposts(l) =>
                     /\ l \in SettledLegs
                     /\ SettledLegs' = SettledLegs \ {l}
                     /\ ConfirmedLegs' = ConfirmedLegs \ {l}
                     /\ UNCHANGED UnsettledLegs
<1>1. Phases' /\ LegStep /\ Built \subseteq Legs
  BY PhasesStep
<1>2. \A x \in Legs : /\ Out(x) \/ applied[x] \/ paidApplied[x] => x \in Built
  BY <1>1, OutBuilt DEF Phases, TypeOK, Usable
<1>3. Built \subseteq Built' /\ Built' \subseteq Legs
  <2>1. built' \in 0..MaxLegs /\ MaxLegs \in Nat
    BY <1>1 DEF Phases, TypeOK, EngineAssumption
  <2>2. Built' \subseteq Legs
    BY <2>1 DEF Built, Legs
  <2>3. QED
    BY <1>1, <2>2 DEF LegStep
<1>4. Usable \subseteq OutStates
  BY DEF Usable, OutStates
<1>5. ASSUME NEW l \in Built, Others(l)
      PROVE  \A x \in Built' \ {l} :
                Out(x)' \/ applied'[x] => x \in Built
  BY <1>1, <1>2, <1>3, <1>5 DEF Others, Class, Phases
<1>6. ASSUME Quiet
      PROVE  UNCHANGED <<UnsettledLegs, SettledLegs, ConfirmedLegs>>
  BY <1>1, <1>2, <1>3, <1>6
  DEF Quiet, SettledKept, Class, UnsettledLegs, SettledLegs, ConfirmedLegs, Unsettled
<1>7. ASSUME NEW l \in Built, Commits(l)
      PROVE  /\ l \notin UnsettledLegs
             /\ UnsettledLegs' = UnsettledLegs \cup {l}
             /\ UNCHANGED <<SettledLegs, ConfirmedLegs>>
  <2>1. ~applied[l]
    BY <1>1, <1>4, <1>7 DEF Commits, Phases, Out
  <2>2. QED
    BY <1>1, <1>2, <1>3, <1>5, <1>7, <2>1
    DEF Commits, Others, SettledKept, Class, UnsettledLegs, SettledLegs,
        ConfirmedLegs, Unsettled
<1>8. ASSUME NEW l \in Built, Releases(l)
      PROVE  /\ l \in UnsettledLegs
             /\ UnsettledLegs' = UnsettledLegs \ {l}
             /\ UNCHANGED <<SettledLegs, ConfirmedLegs>>
  BY <1>1, <1>2, <1>3, <1>5, <1>8
  DEF Releases, Others, SettledKept, Class, UnsettledLegs, SettledLegs,
      ConfirmedLegs, Unsettled
<1>9. ASSUME NEW l \in Built, Posts(l)
      PROVE  /\ l \in UnsettledLegs /\ l \notin SettledLegs
             /\ UnsettledLegs' = UnsettledLegs \ {l}
             /\ SettledLegs' = SettledLegs \cup {l}
  <2>1. Out(l) /\ ~applied[l]
    BY <1>1, <1>9 DEF Posts, Out, OutStates, Phases, Usable
  <2>2. \A x \in Legs : applied'[x] <=> (applied[x] \/ x = l)
    BY <1>1, <1>9 DEF Posts, Post, Phases, TypeOK
  <2>3. QED
    BY <1>1, <1>2, <1>3, <1>5, <1>9, <2>1, <2>2
    DEF Posts, Others, Class, UnsettledLegs, SettledLegs, Unsettled
<1>10. ASSUME NEW l \in Built, Credits(l)
       PROVE  UNCHANGED <<UnsettledLegs, SettledLegs>>
  <2>1. Out(l)
    BY <1>10 DEF Credits, Out, OutStates
  <2>2. QED
    BY <1>1, <1>2, <1>3, <1>5, <1>10, <2>1
    DEF Credits, Others, Class, UnsettledLegs, SettledLegs, Unsettled
<1>11. ASSUME NEW l \in Built, Unposts(l)
       PROVE  /\ l \in SettledLegs
              /\ SettledLegs' = SettledLegs \ {l}
              /\ ConfirmedLegs' = ConfirmedLegs \ {l}
              /\ UNCHANGED UnsettledLegs
  <2>1. \A x \in Legs : /\ applied'[x] <=> (applied[x] /\ x # l)
                        /\ paidApplied'[x] <=> (paidApplied[x] /\ x # l)
    BY <1>1, <1>11 DEF Unposts, Unpost, Phases, TypeOK
  <2>2. QED
    BY <1>1, <1>2, <1>3, <1>5, <1>11, <2>1
    DEF Unposts, Others, Class, UnsettledLegs, SettledLegs, ConfirmedLegs, Unsettled
<1>12. QED
  BY <1>6, <1>7, <1>8, <1>9, <1>10, <1>11

(* A payment that joins a set adds its amount to the sums it belongs to.   *)
LEMMA Joins ==
    ASSUME EngineAssumption, TypeOK, NEW S, S \subseteq Built, NEW F,
           NEW l \in Built \ S
    PROVE  /\ Total(S \cap F) \in Nat /\ leg[l].amount \in Nat
           /\ Total((S \cup {l}) \cap F) =
                 Total(S \cap F) + (IF l \in F THEN leg[l].amount ELSE 0)
<1>1. Total(S \cap F) \in Nat /\ leg[l].amount \in Nat
  <2>1. Total(S \cap F) \in Nat
    BY TotalType
  <2>2. leg[l].amount \in Nat
    BY DEF TypeOK, LegRecord, Built, Legs, EngineAssumption
  <2>3. QED
    BY <2>1, <2>2
<1>2. CASE l \in F
  <2>1. (S \cup {l}) \cap F = (S \cap F) \cup {l}
    BY <1>2
  <2>2. Total((S \cap F) \cup {l}) = Total(S \cap F) + leg[l].amount
    BY TotalPlus
  <2>3. QED
    BY <1>1, <1>2, <2>1, <2>2
<1>3. CASE l \notin F
  <2>1. (S \cup {l}) \cap F = S \cap F
    BY <1>3
  <2> DEFINE sum == Total(S \cap F)
  <2>2. Total((S \cup {l}) \cap F) = sum /\ sum \in Nat
    BY <1>1, <2>1
  <2> HIDE DEF sum
  <2>3. sum + (IF l \in F THEN leg[l].amount ELSE 0) = sum
    BY <1>3, <2>2
  <2>4. QED
    BY <1>1, <2>2, <2>3 DEF sum
<1>4. QED
  BY <1>2, <1>3

-----------------------------------------------------------------------------
(* No obligation is overpaid. *)

Toward(o) == {x \in Built : leg[x].occ = o}

(* The inductive invariant of the theorem below. *)
Within == Phases /\ NeverOverpaid

(* What is in flight toward an obligation, before and after a step. *)
LEMMA InFlightStep ==
    ASSUME EngineAssumption, Phases, [Next]_vars, NEW o,
           UnsettledLegs' \subseteq Built
    PROVE  /\ InFlight(o) = UnsettledLegs \cap Toward(o)
           /\ Total(InFlight(o))' = Total(UnsettledLegs' \cap Toward(o))
           /\ Total(InFlight(o)) \in Nat
<1>1. LegStep /\ TypeOK
  BY PhasesStep DEF Phases
<1>2. InFlight(o) = UnsettledLegs \cap Toward(o)
  BY DEF InFlight, UnsettledLegs, Toward
<1>3. InFlight(o)' = UnsettledLegs' \cap Toward(o)
  BY <1>1 DEF InFlight, UnsettledLegs, Toward, LegStep
<1>4. Cardinality(Cents(leg', UnsettledLegs' \cap Toward(o)))
          = Total(UnsettledLegs' \cap Toward(o))
  BY <1>1, TotalKept
<1>5. Total(InFlight(o)) \in Nat
  BY <1>1, TotalType DEF InFlight
<1>6. QED
  BY <1>2, <1>3, <1>4, <1>5 DEF Total

LEMMA WithinStep ==
    ASSUME EngineAssumption, Within, [Next]_vars
    PROVE  Within'
<1>1. /\ Phases /\ Phases' /\ LegStep /\ MoneyStep /\ TypeOK
      /\ Built \subseteq Legs
  BY PhasesStep DEF Within, Phases
<1>2. UnsettledLegs \subseteq Built
  BY DEF UnsettledLegs
<1> SUFFICES ASSUME NEW o \in BillOccurrences
             PROVE  funded'[o] + Total(InFlight(o))' <= Due[o]
  BY <1>1 DEF Within, NeverOverpaid
<1> DEFINE sum == Total(InFlight(o))
           sum1 == Total(InFlight(o))'
<1>3. /\ funded[o] \in Nat /\ funded'[o] \in Nat /\ Due[o] \in Nat
      /\ sum \in Nat /\ funded[o] + sum <= Due[o]
  BY <1>1, TotalType DEF Phases, TypeOK, EngineAssumption, Within,
     NeverOverpaid, InFlight
<1>4. CASE Quiet \/ \E l \in Built : Credits(l)
  <2>1. UnsettledLegs' = UnsettledLegs /\ funded' = funded
    BY <1>1, <1>4, SetsStep DEF Quiet, SettledKept, Credits
  <2>2. sum1 = sum
    BY <1>1, <1>2, <2>1, InFlightStep
  <2>3. QED
    BY <1>3, <2>1, <2>2
<1>5. ASSUME NEW l \in Built, Commits(l)
      PROVE  funded'[o] + sum1 <= Due[o]
  <2>1. /\ l \in Built \ UnsettledLegs /\ funded' = funded
        /\ UnsettledLegs' = UnsettledLegs \cup {l}
    BY <1>1, <1>5, SetsStep DEF Commits, SettledKept
  <2>2. /\ leg[l].amount \in Nat
        /\ sum1 = sum + (IF l \in Toward(o) THEN leg[l].amount ELSE 0)
    <3>1. /\ sum = Total(UnsettledLegs \cap Toward(o))
          /\ sum1 = Total(UnsettledLegs' \cap Toward(o))
      BY <1>1, <1>2, <2>1, InFlightStep
    <3>2. /\ leg[l].amount \in Nat
          /\ Total((UnsettledLegs \cup {l}) \cap Toward(o)) =
                Total(UnsettledLegs \cap Toward(o))
                + (IF l \in Toward(o) THEN leg[l].amount ELSE 0)
      <4> DEFINE S == UnsettledLegs
                 F == Toward(o)
      <4>1. S \subseteq Built /\ l \in Built \ S
        BY <1>2, <2>1
      <4> HIDE DEF S, F
      <4>2. /\ leg[l].amount \in Nat
            /\ Total((S \cup {l}) \cap F) =
                  Total(S \cap F) + (IF l \in F THEN leg[l].amount ELSE 0)
        BY <1>1, <4>1, Joins
      <4>3. QED
        BY <4>2 DEF S, F
    <3> HIDE DEF sum, sum1
    <3>3. QED
      BY <2>1, <3>1, <3>2
  <2>3. CASE l \in Toward(o)
    <3>1. InFlight(o) \ {l} = InFlight(o)
      BY <2>1 DEF InFlight, UnsettledLegs
    <3>2. leg[l].amount > 0 /\ leg[l].amount <= Min0(CashRemaining(o) - sum)
      BY <1>5, <2>3, <3>1 DEF Commits, Preflight, ObligationAllows, Toward
    <3>3. CashRemaining(o) = IF Due[o] - funded[o] < 0 THEN 0
                                                      ELSE Due[o] - funded[o]
      BY DEF CashRemaining, Min0
    <3> HIDE DEF sum, sum1
    <3>4. leg[l].amount <= Due[o] - funded[o] - sum
      BY <1>3, <2>2, <3>2, <3>3 DEF Min0
    <3>5. QED
      BY <1>3, <2>1, <2>2, <2>3, <3>4
  <2>4. CASE l \notin Toward(o)
    <3> HIDE DEF sum, sum1
    <3>1. QED
      BY <1>3, <2>1, <2>2, <2>4
  <2>5. QED
    BY <2>3, <2>4
<1>6. ASSUME NEW l \in Built, Releases(l)
      PROVE  funded'[o] + sum1 <= Due[o]
  <2>1. /\ l \in UnsettledLegs /\ funded' = funded
        /\ UnsettledLegs' = UnsettledLegs \ {l}
    BY <1>1, <1>6, SetsStep DEF Releases, SettledKept
  <2>2. /\ leg[l].amount \in Nat /\ sum1 \in Nat
        /\ sum = sum1 + (IF l \in Toward(o) THEN leg[l].amount ELSE 0)
    <3>1. /\ sum = Total(UnsettledLegs \cap Toward(o))
          /\ sum1 = Total(UnsettledLegs' \cap Toward(o))
      BY <1>1, <1>2, <2>1, InFlightStep
    <3>2. /\ leg[l].amount \in Nat
          /\ Total((UnsettledLegs \ {l}) \cap Toward(o)) \in Nat
          /\ Total(UnsettledLegs \cap Toward(o)) =
                Total((UnsettledLegs \ {l}) \cap Toward(o))
                + (IF l \in Toward(o) THEN leg[l].amount ELSE 0)
      <4> DEFINE S == UnsettledLegs \ {l}
                 F == Toward(o)
      <4>1. S \subseteq Built /\ l \in Built \ S /\ S \cup {l} = UnsettledLegs
        BY <1>2, <2>1
      <4> HIDE DEF S, F
      <4>2. /\ leg[l].amount \in Nat /\ Total(S \cap F) \in Nat
            /\ Total((S \cup {l}) \cap F) =
                  Total(S \cap F) + (IF l \in F THEN leg[l].amount ELSE 0)
        BY <1>1, <4>1, Joins
      <4>3. QED
        BY <4>1, <4>2 DEF S, F
    <3> HIDE DEF sum, sum1
    <3>3. QED
      BY <2>1, <3>1, <3>2
  <2> HIDE DEF sum, sum1
  <2>3. QED
    BY <1>3, <2>1, <2>2
<1>7. ASSUME NEW l \in Built, Posts(l)
      PROVE  funded'[o] + sum1 <= Due[o]
  <2>1. /\ l \in UnsettledLegs /\ UnsettledLegs' = UnsettledLegs \ {l}
        /\ funded'[o] = IF l \in Toward(o) THEN funded[o] + leg[l].amount
                                           ELSE funded[o]
    BY <1>1, <1>7, SetsStep DEF Posts, Post, Toward
  <2>2. /\ leg[l].amount \in Nat /\ sum1 \in Nat
        /\ sum = sum1 + (IF l \in Toward(o) THEN leg[l].amount ELSE 0)
    <3>1. /\ sum = Total(UnsettledLegs \cap Toward(o))
          /\ sum1 = Total(UnsettledLegs' \cap Toward(o))
      BY <1>1, <1>2, <2>1, InFlightStep
    <3>2. /\ leg[l].amount \in Nat
          /\ Total((UnsettledLegs \ {l}) \cap Toward(o)) \in Nat
          /\ Total(UnsettledLegs \cap Toward(o)) =
                Total((UnsettledLegs \ {l}) \cap Toward(o))
                + (IF l \in Toward(o) THEN leg[l].amount ELSE 0)
      <4> DEFINE S == UnsettledLegs \ {l}
                 F == Toward(o)
      <4>1. S \subseteq Built /\ l \in Built \ S /\ S \cup {l} = UnsettledLegs
        BY <1>2, <2>1
      <4> HIDE DEF S, F
      <4>2. /\ leg[l].amount \in Nat /\ Total(S \cap F) \in Nat
            /\ Total((S \cup {l}) \cap F) =
                  Total(S \cap F) + (IF l \in F THEN leg[l].amount ELSE 0)
        BY <1>1, <4>1, Joins
      <4>3. QED
        BY <4>1, <4>2 DEF S, F
    <3> HIDE DEF sum, sum1
    <3>3. QED
      BY <2>1, <3>1, <3>2
  <2> HIDE DEF sum, sum1
  <2>3. QED
    BY <1>3, <2>1, <2>2
<1>8. ASSUME NEW l \in Built, Unposts(l)
      PROVE  funded'[o] + sum1 <= Due[o]
  <2>1. UnsettledLegs' = UnsettledLegs
    BY <1>1, <1>8, SetsStep
  <2>2. sum1 = sum
    BY <1>1, <1>2, <2>1, InFlightStep
  <2>3. leg[l].amount \in Nat
    BY <1>1 DEF TypeOK, LegRecord
  <2>4. funded'[o] <= funded[o]
    BY <1>3, <1>8, <2>3 DEF Unposts, Unpost, Min0
  <2> HIDE DEF sum, sum1
  <2>5. QED
    BY <1>3, <2>2, <2>4
<1>9. QED
  BY <1>1, <1>4, <1>5, <1>6, <1>7, <1>8 DEF MoneyStep

LEMMA PhasesInit == ASSUME EngineAssumption, Init PROVE Phases
  BY InitType DEF Phases, Init, Usable

(* What has settled toward a dated bill and what is still in flight toward *)
(* it never exceed its amount: for every household, whatever rules, manual *)
(* payments, retries, timeouts, recoveries and returns pay it, in whatever *)
(* order. Preflight reads the bill's balance and the payments in flight    *)
(* together, and settlement moves an amount from one to the other.         *)
THEOREM NeverOverpaidCorrect == Spec => []NeverOverpaid
<1>1. Init => Within
  <2> SUFFICES ASSUME Init PROVE Within
    OBVIOUS
  <2>1. Phases
    BY PhasesInit, EngineAssumption
  <2>2. ASSUME NEW o \in BillOccurrences
        PROVE  funded[o] + Total(InFlight(o)) <= Due[o]
    <3>1. InFlight(o) = {}
      BY DEF Init, InFlight, Built
    <3>2. Cents(leg, {}) = {}
      BY DEF Cents
    <3>3. funded[o] = 0 /\ Due[o] \in Nat
      BY EngineAssumption DEF Init, EngineAssumption
    <3>4. QED
      BY <3>1, <3>2, <3>3, FS_EmptySet DEF Total
  <2>3. QED
    BY <2>1, <2>2 DEF Within, NeverOverpaid
<1>2. Within /\ [Next]_vars => Within'
  BY WithinStep, EngineAssumption
<1>3. Within => NeverOverpaid
  BY DEF Within
<1>4. QED
  BY <1>1, <1>2, <1>3, PTL DEF Spec

-----------------------------------------------------------------------------
(* The books are exact. *)

From(a) == {x \in Built : leg[x].src = a}
To(a) == {x \in Built : leg[x].dst = a /\ a \in CashAccounts}

(* The inductive invariant: BooksExact over the three sets of payments. *)
Books ==
    /\ Phases
    /\ \A a \in Accounts :
        /\ reserved[a] = Total(UnsettledLegs \cap From(a))
        /\ available[a] = InitAvailable[a] - Total(SettledLegs \cap From(a))
                                           + Total(SettledLegs \cap To(a))
    /\ \A o \in BillOccurrences :
        /\ funded[o] = Total(SettledLegs \cap Toward(o))
        /\ paid[o] = Total(ConfirmedLegs \cap Toward(o))

(* A payment that joins a set adds its amount to the sum of its account,   *)
(* of its destination and of its obligation, and to no other.              *)
Adds(S, l) ==
    LET n == leg[l].amount IN
    /\ n \in Nat
    /\ \A a \in Accounts :
        /\ Total(S \cap From(a)) \in Nat /\ Total(S \cap To(a)) \in Nat
        /\ Total((S \cup {l}) \cap From(a)) =
              Total(S \cap From(a)) + (IF leg[l].src = a THEN n ELSE 0)
        /\ Total((S \cup {l}) \cap To(a)) =
              Total(S \cap To(a))
              + (IF leg[l].dst = a /\ a \in CashAccounts THEN n ELSE 0)
    /\ \A o \in BillOccurrences :
        /\ Total(S \cap Toward(o)) \in Nat
        /\ Total((S \cup {l}) \cap Toward(o)) =
              Total(S \cap Toward(o)) + (IF leg[l].occ = o THEN n ELSE 0)

LEMMA Sums ==
    ASSUME EngineAssumption, TypeOK, NEW S, S \subseteq Built,
           NEW l, l \in Built \ S
    PROVE  Adds(S, l)
<1>1. \A F : /\ Total(S \cap F) \in Nat /\ leg[l].amount \in Nat
             /\ Total((S \cup {l}) \cap F) =
                   Total(S \cap F) + (IF l \in F THEN leg[l].amount ELSE 0)
  <2> TAKE F
  <2>1. QED
    BY Joins
<1>2. leg[l].amount \in Nat
  BY <1>1
<1>3. ASSUME NEW a
      PROVE  /\ Total(S \cap From(a)) \in Nat
             /\ Total((S \cup {l}) \cap From(a)) =
                   Total(S \cap From(a))
                   + (IF leg[l].src = a THEN leg[l].amount ELSE 0)
  <2>1. l \in From(a) <=> leg[l].src = a
    BY DEF From
  <2>2. QED
    BY <1>1, <2>1
<1>4. ASSUME NEW a
      PROVE  /\ Total(S \cap To(a)) \in Nat
             /\ Total((S \cup {l}) \cap To(a)) =
                   Total(S \cap To(a))
                   + (IF leg[l].dst = a /\ a \in CashAccounts
                      THEN leg[l].amount ELSE 0)
  <2>1. l \in To(a) <=> leg[l].dst = a /\ a \in CashAccounts
    BY DEF To
  <2>2. QED
    BY <1>1, <2>1
<1>5. ASSUME NEW o
      PROVE  /\ Total(S \cap Toward(o)) \in Nat
             /\ Total((S \cup {l}) \cap Toward(o)) =
                   Total(S \cap Toward(o))
                   + (IF leg[l].occ = o THEN leg[l].amount ELSE 0)
  <2>1. l \in Toward(o) <=> leg[l].occ = o
    BY DEF Toward
  <2>2. QED
    BY <1>1, <2>1
<1>6. QED
  BY <1>2, <1>3, <1>4, <1>5 DEF Adds

(* After a step the books are read over the payments that were there. *)
LEMMA BooksAfter ==
    ASSUME EngineAssumption, Phases, [Next]_vars,
           UnsettledLegs' \subseteq Built, SettledLegs' \subseteq Built,
           ConfirmedLegs' \subseteq Built,
           \A a \in Accounts :
              /\ reserved'[a] = Total(UnsettledLegs' \cap From(a))
              /\ available'[a] = InitAvailable[a]
                                   - Total(SettledLegs' \cap From(a))
                                   + Total(SettledLegs' \cap To(a)),
           \A o \in BillOccurrences :
              /\ funded'[o] = Total(SettledLegs' \cap Toward(o))
              /\ paid'[o] = Total(ConfirmedLegs' \cap Toward(o))
    PROVE  Books'
<1>1. Phases' /\ LegStep
  BY PhasesStep
<1>2. Built \subseteq Built' /\ \A x \in Built : leg'[x] = leg[x]
  BY <1>1 DEF LegStep
<1>3. \A a : /\ UnsettledLegs' \cap From(a)' = UnsettledLegs' \cap From(a)
             /\ SettledLegs' \cap From(a)' = SettledLegs' \cap From(a)
             /\ SettledLegs' \cap To(a)' = SettledLegs' \cap To(a)
  BY <1>2 DEF From, To
<1>4. \A o : /\ SettledLegs' \cap Toward(o)' = SettledLegs' \cap Toward(o)
             /\ ConfirmedLegs' \cap Toward(o)' = ConfirmedLegs' \cap Toward(o)
  BY <1>2 DEF Toward
<1>5. \A F : /\ Cardinality(Cents(leg', UnsettledLegs' \cap F))
                   = Total(UnsettledLegs' \cap F)
             /\ Cardinality(Cents(leg', SettledLegs' \cap F))
                   = Total(SettledLegs' \cap F)
             /\ Cardinality(Cents(leg', ConfirmedLegs' \cap F))
                   = Total(ConfirmedLegs' \cap F)
  BY <1>1, TotalKept
<1>6. \A a : /\ Total(UnsettledLegs \cap From(a))' = Total(UnsettledLegs' \cap From(a))
             /\ Total(SettledLegs \cap From(a))' = Total(SettledLegs' \cap From(a))
             /\ Total(SettledLegs \cap To(a))' = Total(SettledLegs' \cap To(a))
  <2>1. TAKE a
  <2>2. Total(UnsettledLegs \cap From(a))' = Total(UnsettledLegs' \cap From(a))
    BY <1>3, <1>5 DEF Total
  <2>3. Total(SettledLegs \cap From(a))' = Total(SettledLegs' \cap From(a))
    BY <1>3, <1>5 DEF Total
  <2>4. Total(SettledLegs \cap To(a))' = Total(SettledLegs' \cap To(a))
    BY <1>3, <1>5 DEF Total
  <2>5. QED
    BY <2>2, <2>3, <2>4
<1>7. \A o : /\ Total(SettledLegs \cap Toward(o))' = Total(SettledLegs' \cap Toward(o))
             /\ Total(ConfirmedLegs \cap Toward(o))' = Total(ConfirmedLegs' \cap Toward(o))
  BY <1>4, <1>5 DEF Total
<1>8. \A a \in Accounts :
         /\ reserved'[a] = Total(UnsettledLegs \cap From(a))'
         /\ available'[a] = InitAvailable[a] - Total(SettledLegs \cap From(a))'
                                            + Total(SettledLegs \cap To(a))'
  <2>1. TAKE a \in Accounts
  <2>2. QED
    BY <1>6
<1>9. \A o \in BillOccurrences :
         /\ funded'[o] = Total(SettledLegs \cap Toward(o))'
         /\ paid'[o] = Total(ConfirmedLegs \cap Toward(o))'
  <2>1. TAKE o \in BillOccurrences
  <2>2. QED
    BY <1>7
<1>10. QED
  BY <1>1, <1>8, <1>9, Zenon DEF Books

(* The creditor's confirmation is recorded once for each payment. *)
LEMMA CreditStep ==
    ASSUME EngineAssumption, Books, [Next]_vars, NEW l \in Built,
           Credit(l) \/ UNCHANGED <<paid, paidApplied>>
    PROVE  /\ ConfirmedLegs' \subseteq Built
           /\ \A o \in BillOccurrences :
                 paid'[o] = Total(ConfirmedLegs' \cap Toward(o))
<1>1. /\ Phases /\ Phases' /\ LegStep /\ TypeOK
      /\ l \in Legs /\ Built \subseteq Legs
  BY PhasesStep DEF Books, Phases
<1>2. \A x \in Legs : paidApplied[x] => x \in Built
  BY <1>1 DEF Phases, TypeOK, Usable
<1>3. Built \subseteq Built' /\ Built' \subseteq Legs
  <2>1. built' \in 0..MaxLegs /\ MaxLegs \in Nat
    BY <1>1 DEF Phases, TypeOK, EngineAssumption
  <2>2. Built' \subseteq Legs
    BY <2>1 DEF Built, Legs
  <2>3. QED
    BY <1>1, <2>2 DEF LegStep
<1>4. CASE \/ UNCHANGED <<paid, paidApplied>>
           \/ Credit(l) /\ (paidApplied[l] \/ leg[l].occ \notin BillOccurrences)
  <2>1. ConfirmedLegs' = ConfirmedLegs
    BY <1>1, <1>2, <1>3, <1>4 DEF Credit, ConfirmedLegs, TypeOK
  <2>2. \A o \in BillOccurrences : paid'[o] = paid[o]
    BY <1>4 DEF Credit
  <2>3. QED
    BY <2>1, <2>2 DEF Books, ConfirmedLegs
<1>5. CASE Credit(l) /\ ~paidApplied[l] /\ leg[l].occ \in BillOccurrences
  <2>1. /\ ConfirmedLegs' = ConfirmedLegs \cup {l}
        /\ l \in Built \ ConfirmedLegs /\ ConfirmedLegs \subseteq Built
    <3>1. \A x \in Legs : paidApplied'[x] <=> (paidApplied[x] \/ x = l)
      BY <1>1, <1>5 DEF Credit, TypeOK
    <3>2. QED
      BY <1>1, <1>2, <1>3, <1>5, <3>1 DEF ConfirmedLegs
  <2>2. \A o \in BillOccurrences :
            paid'[o] = IF leg[l].occ = o THEN paid[o] + leg[l].amount ELSE paid[o]
    BY <1>1, <1>5 DEF Credit, TypeOK
  <2> DEFINE S == ConfirmedLegs
  <2>3. /\ S \subseteq Built /\ l \in Built \ S /\ ConfirmedLegs' = S \cup {l}
        /\ \A o \in BillOccurrences : paid[o] = Total(S \cap Toward(o))
    BY <2>1 DEF Books
  <2> HIDE DEF S
  <2>4. Adds(S, l)
    BY <1>1, <2>3, Sums
  <2>5. ASSUME NEW o \in BillOccurrences
        PROVE  paid'[o] = Total((S \cup {l}) \cap Toward(o))
    <3> DEFINE sum == Total(S \cap Toward(o))
               sum1 == Total((S \cup {l}) \cap Toward(o))
               amt == leg[l].amount
    <3>1. /\ sum \in Nat /\ amt \in Nat /\ paid[o] = sum
          /\ sum1 = sum + (IF leg[l].occ = o THEN amt ELSE 0)
          /\ paid'[o] = IF leg[l].occ = o THEN paid[o] + amt
                                             ELSE paid[o]
      BY <2>2, <2>3, <2>4 DEF Adds
    <3> HIDE DEF sum, sum1, amt
    <3>2. paid'[o] = sum1
      BY <3>1
    <3>3. QED
      BY <3>2 DEF sum1
  <2>6. QED
    BY <2>1, <2>3, <2>5
<1>6. QED
  BY <1>4, <1>5

LEMMA BooksStep ==
    ASSUME EngineAssumption, Books, [Next]_vars
    PROVE  Books'
<1>1. /\ Phases /\ Phases' /\ LegStep /\ MoneyStep /\ TypeOK
      /\ Built \subseteq Legs
  BY PhasesStep DEF Books, Phases
<1>2. /\ UnsettledLegs \subseteq Built /\ SettledLegs \subseteq Built
      /\ ConfirmedLegs \subseteq Built
  BY DEF UnsettledLegs, SettledLegs, ConfirmedLegs
<1>3. CASE Quiet
  <2>1. UNCHANGED <<UnsettledLegs, SettledLegs, ConfirmedLegs>>
        /\ UNCHANGED <<reserved, available, funded, paid>>
    BY <1>1, <1>3, SetsStep DEF Quiet, SettledKept
  <2>2. QED
    BY <1>1, <1>2, <2>1, BooksAfter DEF Books
<1>4. ASSUME NEW l \in Built, Commits(l) PROVE Books'
  <2>1. /\ l \in Built \ UnsettledLegs /\ UnsettledLegs' = UnsettledLegs \cup {l}
        /\ UNCHANGED <<SettledLegs, ConfirmedLegs>>
        /\ UNCHANGED <<available, funded, paid>>
    BY <1>1, <1>4, SetsStep DEF Commits, SettledKept
  <2>2. \A a \in Accounts :
            reserved'[a] = IF leg[l].src = a THEN reserved[a] + leg[l].amount
                                             ELSE reserved[a]
    BY <1>1, <1>4 DEF Commits, Reserve, TypeOK, LegRecord
  <2> DEFINE S == UnsettledLegs
  <2>3. /\ S \subseteq Built /\ l \in Built \ S /\ UnsettledLegs' = S \cup {l}
        /\ \A a \in Accounts : reserved[a] = Total(S \cap From(a))
    BY <1>2, <2>1 DEF Books
  <2> HIDE DEF S
  <2>4. Adds(S, l)
    BY <1>1, <2>3, Sums
  <2>5. ASSUME NEW a \in Accounts
        PROVE  reserved'[a] = Total(UnsettledLegs' \cap From(a))
    <3> DEFINE sum == Total(S \cap From(a))
               sum1 == Total((S \cup {l}) \cap From(a))
               amt == leg[l].amount
    <3>1. /\ sum \in Nat /\ amt \in Nat /\ reserved[a] = sum
          /\ sum1 = sum + (IF leg[l].src = a THEN amt ELSE 0)
          /\ reserved'[a] = IF leg[l].src = a THEN reserved[a] + amt
                                             ELSE reserved[a]
      BY <2>2, <2>3, <2>4 DEF Adds
    <3> HIDE DEF sum, sum1, amt
    <3>2. reserved'[a] = sum1
      BY <3>1
    <3>3. QED
      BY <2>3, <3>2 DEF sum1
  <2>6. QED
    BY <1>1, <1>2, <2>1, <2>5, BooksAfter DEF Books
<1>5. ASSUME NEW l \in Built, l \in UnsettledLegs, reserved' = Release(l),
             UnsettledLegs' = UnsettledLegs \ {l}
      PROVE  \A a \in Accounts : reserved'[a] = Total(UnsettledLegs' \cap From(a))
  <2> DEFINE S == UnsettledLegs \ {l}
  <2>1. /\ S \subseteq Built /\ l \in Built \ S /\ UnsettledLegs' = S
        /\ S \cup {l} = UnsettledLegs
    BY <1>2, <1>5
  <2> HIDE DEF S
  <2>2. Adds(S, l)
    BY <1>1, <2>1, Sums
  <2>3. \A a \in Accounts : reserved[a] = Total((S \cup {l}) \cap From(a))
    BY <2>1 DEF Books
  <2>4. \A a \in Accounts :
            reserved'[a] = IF leg[l].src = a THEN Min0(reserved[a] - leg[l].amount)
                                             ELSE reserved[a]
    BY <1>1, <1>5 DEF Release, TypeOK, LegRecord
  <2>5. ASSUME NEW a \in Accounts PROVE reserved'[a] = Total(S \cap From(a))
    <3> DEFINE sum == Total(S \cap From(a))
               n == leg[l].amount
    <3>1. /\ sum \in Nat /\ n \in Nat
          /\ reserved[a] = sum + (IF leg[l].src = a THEN n ELSE 0)
          /\ reserved'[a] = IF leg[l].src = a THEN Min0(reserved[a] - n)
                                              ELSE reserved[a]
      BY <2>2, <2>3, <2>4 DEF Adds
    <3> HIDE DEF sum, n
    <3>2. QED
      BY <3>1 DEF Min0, sum
  <2>6. QED
    BY <2>1, <2>5
<1>6. ASSUME NEW l \in Built, Releases(l) PROVE Books'
  <2>1. /\ l \in UnsettledLegs /\ UnsettledLegs' = UnsettledLegs \ {l}
        /\ UNCHANGED <<SettledLegs, ConfirmedLegs>>
        /\ UNCHANGED <<available, funded, paid>> /\ reserved' = Release(l)
    BY <1>1, <1>6, SetsStep DEF Releases, SettledKept
  <2>2. \A a \in Accounts : reserved'[a] = Total(UnsettledLegs' \cap From(a))
    BY <1>5, <2>1
  <2>3. QED
    BY <1>1, <1>2, <2>1, <2>2, BooksAfter DEF Books
<1>7. ASSUME NEW l \in Built, Posts(l) PROVE Books'
  <2>1. /\ l \in UnsettledLegs /\ UnsettledLegs' = UnsettledLegs \ {l}
        /\ l \in Built \ SettledLegs /\ SettledLegs' = SettledLegs \cup {l}
        /\ reserved' = Release(l)
    BY <1>1, <1>7, SetsStep DEF Posts, Post
  <2>2. \A a \in Accounts : reserved'[a] = Total(UnsettledLegs' \cap From(a))
    BY <1>5, <2>1
  <2>3. /\ ConfirmedLegs' \subseteq Built
        /\ \A o \in BillOccurrences :
              paid'[o] = Total(ConfirmedLegs' \cap Toward(o))
    BY <1>7, CreditStep DEF Posts
  <2> DEFINE S == SettledLegs
             n == leg[l].amount
  <2>4. /\ S \subseteq Built /\ l \in Built \ S /\ SettledLegs' = S \cup {l}
        /\ \A a \in Accounts :
              /\ available[a] = InitAvailable[a] - Total(S \cap From(a))
                                                 + Total(S \cap To(a))
              /\ InitAvailable[a] \in Nat
        /\ \A o \in BillOccurrences : funded[o] = Total(S \cap Toward(o))
    BY <1>2, <2>1 DEF Books, EngineAssumption
  <2>5. /\ \A a \in Accounts :
              available'[a] = available[a]
                 - (IF leg[l].src = a THEN n ELSE 0)
                 + (IF leg[l].dst = a /\ a \in CashAccounts THEN n ELSE 0)
        /\ \A o \in BillOccurrences :
              funded'[o] = IF leg[l].occ = o THEN funded[o] + n ELSE funded[o]
    BY <1>7 DEF Posts, Post, Move
  <2> HIDE DEF S, n
  <2>6. Adds(S, l)
    BY <1>1, <2>4, Sums
  <2>7. ASSUME NEW a \in Accounts
        PROVE  available'[a] = InitAvailable[a] - Total((S \cup {l}) \cap From(a))
                                                + Total((S \cup {l}) \cap To(a))
    <3> DEFINE out == Total(S \cap From(a))
               in == Total(S \cap To(a))
               out1 == Total((S \cup {l}) \cap From(a))
               in1 == Total((S \cup {l}) \cap To(a))
    <3>1. /\ out \in Nat /\ in \in Nat /\ n \in Nat /\ InitAvailable[a] \in Nat
          /\ out1 = out + (IF leg[l].src = a THEN n ELSE 0)
          /\ in1 = in + (IF leg[l].dst = a /\ a \in CashAccounts THEN n ELSE 0)
      BY <2>4, <2>6 DEF Adds, n
    <3>2. available[a] = InitAvailable[a] - out + in
      BY <2>4
    <3>3. available'[a] = available[a] - (IF leg[l].src = a THEN n ELSE 0)
              + (IF leg[l].dst = a /\ a \in CashAccounts THEN n ELSE 0)
      BY <2>5
    <3> HIDE DEF out, in, out1, in1
    <3>4. available'[a] = InitAvailable[a] - out1 + in1
      BY <3>1, <3>2, <3>3
    <3>5. QED
      BY <3>4 DEF out, in, out1, in1
  <2>8. ASSUME NEW o \in BillOccurrences
        PROVE  funded'[o] = Total((S \cup {l}) \cap Toward(o))
    <3> DEFINE sum == Total(S \cap Toward(o))
               sum1 == Total((S \cup {l}) \cap Toward(o))
               amt == leg[l].amount
    <3>1. /\ sum \in Nat /\ amt \in Nat /\ funded[o] = sum
          /\ sum1 = sum + (IF leg[l].occ = o THEN amt ELSE 0)
          /\ funded'[o] = IF leg[l].occ = o THEN funded[o] + amt
                                             ELSE funded[o]
      BY <2>4, <2>5, <2>6 DEF Adds, n
    <3> HIDE DEF sum, sum1, amt
    <3>2. funded'[o] = sum1
      BY <3>1
    <3>3. QED
      BY <3>2 DEF sum1
  <2>9. UnsettledLegs' \subseteq Built /\ SettledLegs' \subseteq Built
    BY <1>2, <2>1
  <2>10. QED
    BY <1>1, <2>2, <2>3, <2>4, <2>7, <2>8, <2>9, BooksAfter
<1>8. ASSUME NEW l \in Built, Credits(l) PROVE Books'
  <2>1. /\ UNCHANGED <<UnsettledLegs, SettledLegs>>
        /\ UNCHANGED <<available, reserved, funded>>
    BY <1>1, <1>8, SetsStep DEF Credits
  <2>2. /\ ConfirmedLegs' \subseteq Built
        /\ \A o \in BillOccurrences :
              paid'[o] = Total(ConfirmedLegs' \cap Toward(o))
    BY <1>8, CreditStep DEF Credits
  <2>3. QED
    BY <1>1, <1>2, <2>1, <2>2, BooksAfter DEF Books
<1>9. ASSUME NEW l \in Built, Unposts(l) PROVE Books'
  <2>1. /\ l \in SettledLegs /\ SettledLegs' = SettledLegs \ {l}
        /\ ConfirmedLegs' = ConfirmedLegs \ {l}
        /\ UNCHANGED UnsettledLegs /\ UNCHANGED reserved
    BY <1>1, <1>9, SetsStep DEF Unposts, Unpost
  <2> DEFINE S == SettledLegs \ {l}
             n == leg[l].amount
  <2>2. /\ S \subseteq Built /\ l \in Built \ S /\ SettledLegs' = S
        /\ S \cup {l} = SettledLegs
    BY <1>2, <2>1
  <2>3. /\ \A a \in Accounts :
              available'[a] = available[a]
                 - (IF leg[l].src = a THEN -n ELSE 0)
                 + (IF leg[l].dst = a /\ a \in CashAccounts THEN -n ELSE 0)
        /\ \A o \in BillOccurrences :
              funded'[o] = IF leg[l].occ = o THEN Min0(funded[o] - n)
                                             ELSE funded[o]
    BY <1>9 DEF Unposts, Unpost, Move
  <2> HIDE DEF S, n
  <2>4. /\ \A a \in Accounts :
              /\ available[a] = InitAvailable[a]
                                - Total((S \cup {l}) \cap From(a))
                                + Total((S \cup {l}) \cap To(a))
              /\ InitAvailable[a] \in Nat
        /\ \A o \in BillOccurrences :
              funded[o] = Total((S \cup {l}) \cap Toward(o))
    BY <2>2 DEF Books, EngineAssumption
  <2>5. Adds(S, l)
    BY <1>1, <2>2, Sums
  <2>6. ASSUME NEW a \in Accounts
        PROVE  available'[a] = InitAvailable[a] - Total(S \cap From(a))
                                                + Total(S \cap To(a))
    <3> DEFINE out == Total(S \cap From(a))
               in == Total(S \cap To(a))
               out1 == Total((S \cup {l}) \cap From(a))
               in1 == Total((S \cup {l}) \cap To(a))
    <3>1. /\ out \in Nat /\ in \in Nat /\ n \in Nat /\ InitAvailable[a] \in Nat
          /\ out1 = out + (IF leg[l].src = a THEN n ELSE 0)
          /\ in1 = in + (IF leg[l].dst = a /\ a \in CashAccounts THEN n ELSE 0)
      BY <2>4, <2>5 DEF Adds, n
    <3>2. available[a] = InitAvailable[a] - out1 + in1
      BY <2>4
    <3>3. available'[a] = available[a] - (IF leg[l].src = a THEN -n ELSE 0)
              + (IF leg[l].dst = a /\ a \in CashAccounts THEN -n ELSE 0)
      BY <2>3
    <3> HIDE DEF out, in, out1, in1
    <3>4. available'[a] = InitAvailable[a] - out + in
      BY <3>1, <3>2, <3>3
    <3>5. QED
      BY <3>4 DEF out, in, out1, in1
  <2>7. ASSUME NEW o \in BillOccurrences
        PROVE  funded'[o] = Total(S \cap Toward(o))
    <3> DEFINE sum == Total(S \cap Toward(o))
    <3>1. /\ sum \in Nat /\ n \in Nat
          /\ funded[o] = sum + (IF leg[l].occ = o THEN n ELSE 0)
          /\ funded'[o] = IF leg[l].occ = o THEN Min0(funded[o] - n)
                                            ELSE funded[o]
      BY <2>3, <2>4, <2>5 DEF Adds, n
    <3> HIDE DEF sum
    <3>2. QED
      BY <3>1 DEF Min0, sum
  <2>8. \A o \in BillOccurrences : paid'[o] = Total(ConfirmedLegs' \cap Toward(o))
    <3>1. CASE ~paidApplied[l]
      <4>1. ConfirmedLegs' = ConfirmedLegs
        BY <2>1, <3>1 DEF ConfirmedLegs
      <4>2. \A o \in BillOccurrences : paid'[o] = paid[o]
        BY <1>9, <3>1 DEF Unposts, Unpost
      <4>3. QED
        BY <4>1, <4>2 DEF Books
    <3>2. CASE paidApplied[l]
      <4> DEFINE C == ConfirmedLegs \ {l}
      <4>1. /\ C \subseteq Built /\ l \in Built \ C /\ ConfirmedLegs' = C
            /\ C \cup {l} = ConfirmedLegs
        BY <1>2, <2>1, <3>2 DEF ConfirmedLegs
      <4> HIDE DEF C
      <4>2. Adds(C, l)
        BY <1>1, <4>1, Sums
      <4>3. \A o \in BillOccurrences :
                /\ paid[o] = Total((C \cup {l}) \cap Toward(o))
                /\ paid'[o] = IF leg[l].occ = o THEN Min0(paid[o] - n) ELSE paid[o]
        BY <1>9, <3>2, <4>1 DEF Books, Unposts, Unpost, n
      <4>4. ASSUME NEW o \in BillOccurrences
            PROVE  paid'[o] = Total(C \cap Toward(o))
        <5> DEFINE sum == Total(C \cap Toward(o))
        <5>1. /\ sum \in Nat /\ n \in Nat
              /\ paid[o] = sum + (IF leg[l].occ = o THEN n ELSE 0)
              /\ paid'[o] = IF leg[l].occ = o THEN Min0(paid[o] - n) ELSE paid[o]
          BY <4>2, <4>3 DEF Adds, n
        <5> HIDE DEF sum
        <5>2. QED
          BY <5>1 DEF Min0, sum
      <4>5. QED
        BY <4>1, <4>4
    <3>3. QED
      BY <3>1, <3>2
  <2>9. QED
    BY <1>1, <1>2, <2>1, <2>2, <2>6, <2>7, <2>8, BooksAfter DEF Books
<1>10. QED
  BY <1>1, <1>3, <1>4, <1>6, <1>7, <1>8, <1>9 DEF MoneyStep

LEMMA BooksInit == ASSUME EngineAssumption, Init PROVE Books
<1>1. Phases
  BY PhasesInit
<1>2. UnsettledLegs = {} /\ SettledLegs = {} /\ ConfirmedLegs = {}
  BY DEF Init, UnsettledLegs, SettledLegs, ConfirmedLegs, Built
<1>3. \A F : Total({} \cap F) = 0
  <2>1. Cents(leg, {}) = {}
    BY DEF Cents
  <2>2. \A F : {} \cap F = {}
    OBVIOUS
  <2>3. QED
    BY <2>1, <2>2, FS_EmptySet DEF Total
<1>4. /\ \A a \in Accounts : /\ reserved[a] = 0 /\ InitAvailable[a] \in Nat
                             /\ available[a] = InitAvailable[a] - 0 + 0
      /\ \A o \in BillOccurrences : funded[o] = 0 /\ paid[o] = 0
  BY DEF Init, EngineAssumption
<1>5. QED
  BY <1>1, <1>2, <1>3, <1>4 DEF Books

LEMMA BooksAreExact == ASSUME EngineAssumption, Books PROVE BooksExact
<1>1. Phases /\ TypeOK /\ Built \subseteq Legs
  <2>1. Phases /\ TypeOK
    BY DEF Books, Phases
  <2>2. QED
    BY <2>1 DEF TypeOK, Built, Legs, EngineAssumption
<1>2. ASSUME NEW a \in Accounts
      PROVE  /\ UnsettledLegs \cap From(a)
                   = {l \in Built : Unsettled(l) /\ leg[l].src = a}
             /\ SettledLegs \cap From(a)
                   = {l \in Built : applied[l] /\ leg[l].src = a}
             /\ SettledLegs \cap To(a)
                   = {l \in Built : /\ applied[l] /\ leg[l].dst = a
                                    /\ a \in CashAccounts}
  BY DEF UnsettledLegs, SettledLegs, From, To
<1>3. ASSUME NEW o \in BillOccurrences
      PROVE  /\ SettledLegs \cap Toward(o)
                   = {l \in Built : applied[l] /\ leg[l].occ = o}
             /\ ConfirmedLegs \cap Toward(o)
                   = {l \in Built : paidApplied[l] /\ leg[l].occ = o}
             /\ paid[o] <= funded[o]
  <2>1. ConfirmedLegs \cap Toward(o) \subseteq SettledLegs \cap Toward(o)
    BY <1>1 DEF ConfirmedLegs, SettledLegs, Phases
  <2>2. SettledLegs \cap Toward(o) \subseteq Built
    BY DEF SettledLegs
  <2>3. Total(ConfirmedLegs \cap Toward(o)) <= Total(SettledLegs \cap Toward(o))
    BY <1>1, <2>1, <2>2, TotalPart
  <2>4. QED
    BY <2>3 DEF Books, ConfirmedLegs, SettledLegs, Toward
<1>4. QED
  BY <1>2, <1>3 DEF Books, BooksExact

(* The books of every household are exact whatever happens to its payments *)
(* and in whatever order: what an account has reserved is what its         *)
(* unsettled payments will take, what left or reached it is what settled,  *)
(* what a bill has received and what its creditor confirmed are those      *)
(* payments and no others. No release or return loses money to a clamp.    *)
THEOREM BooksExactCorrect == Spec => []BooksExact
<1>1. Init => Books
  BY BooksInit, EngineAssumption
<1>2. Books /\ [Next]_vars => Books'
  BY BooksStep, EngineAssumption
<1>3. Books => BooksExact
  BY BooksAreExact, EngineAssumption
<1>4. QED
  BY <1>1, <1>2, <1>3, PTL DEF Spec
-----------------------------------------------------------------------------
(* Under the commands the reserves of an account are covered by its balance.*)

(* A payment that funds a goal moves its money into the goal's account.    *)
GoalsKept ==
    \A l \in Built : leg[l].reserve # None =>
                        leg[l].dst = leg[l].reserve /\ leg[l].dst \in CashAccounts

LEMMA AllocationGoal ==
    ASSUME EngineAssumption, GoalRulesFund, NEW a \in Allocations, NEW e, NEW g,
           AllocationLeg(a, e, g).reserve # None
    PROVE  /\ AllocationLeg(a, e, g).dst = AllocationLeg(a, e, g).reserve
           /\ AllocationLeg(a, e, g).dst \in CashAccounts
<1> DEFINE p == a.policy
<1>1. /\ p \in Policies /\ RulePays(p, a.occ)
      /\ AllocationLeg(a, e, g).reserve = PolicyReserve[p]
      /\ AllocationLeg(a, e, g).dst = IF a.occ \in BillOccurrences
                                      THEN Payee[BillOf[a.occ]] ELSE PolicyDest[p]
  BY DEF Allocations, AllocationLeg
<1>2. PolicyReserve[p] = PolicyDest[p] /\ PolicyReserve[p] \in CashAccounts
  BY <1>1 DEF EngineAssumption
<1>3. CASE a.occ \in BillOccurrences
  <2>1. PolicyBill[p] # None /\ BillOf[a.occ] = PolicyBill[p]
    BY <1>1, <1>3 DEF RulePays, EngineAssumption
  <2>2. Payee[PolicyBill[p]] = PolicyReserve[p]
    BY <1>1, <2>1 DEF GoalRulesFund
  <2>3. QED
    BY <1>1, <1>2, <1>3, <2>1, <2>2
<1>4. QED
  BY <1>1, <1>2, <1>3

(* What is drafted keeps the rule; a one-time payment funds no goal.       *)
LEMMA DraftGoal ==
    ASSUME EngineAssumption, TypeOK, GoalsKept, NEW last, NEW id,
           last \in {built + 1, built + 2},
           Draft(built + 1, last, id),
           \A l \in built + 1 .. last : id[l].reserve # None =>
               id[l].dst = id[l].reserve /\ id[l].dst \in CashAccounts
    PROVE  GoalsKept'
<1>1. /\ built' = last /\ last <= MaxLegs
      /\ leg' = [l \in Legs |-> IF l \in built + 1 .. last THEN id[l] ELSE leg[l]]
  BY DEF Draft
<1>2. built \in Nat /\ MaxLegs \in Nat
  BY DEF TypeOK, EngineAssumption
<1>3. \A l \in Built' : l \in Legs /\ (l \in Built \/ l \in built + 1 .. last)
  BY <1>1, <1>2 DEF Built, Legs
<1>4. QED
  BY <1>1, <1>3 DEF GoalsKept

LEMMA GoalsStep ==
    ASSUME EngineAssumption, GoalRulesFund, TypeOK, GoalsKept, [HostedNext]_vars
    PROVE  GoalsKept'
<1>1. ASSUME UNCHANGED <<built, leg>> PROVE GoalsKept'
  BY <1>1 DEF GoalsKept, Built
<1>2. ASSUME NEW e \in IncomeEvents, BuildFromAllocation(e) PROVE GoalsKept'
  <2>1. PICK a \in Allocations, b \in Allocations :
            LET last == IF a = b THEN built + 1 ELSE built + 2 IN
            Draft(built + 1, last,
                  [l \in built + 1 .. last |->
                     AllocationLeg(IF l = built + 1 THEN a ELSE b, e, built + 1)])
    BY <1>2 DEF BuildFromAllocation
  <2> DEFINE last == IF a = b THEN built + 1 ELSE built + 2
             id == [l \in built + 1 .. last |->
                     AllocationLeg(IF l = built + 1 THEN a ELSE b, e, built + 1)]
  <2>2. \A l \in built + 1 .. last : id[l].reserve # None =>
            id[l].dst = id[l].reserve /\ id[l].dst \in CashAccounts
    BY AllocationGoal
  <2>3. Draft(built + 1, last, id) /\ last \in {built + 1, built + 2}
    BY <2>1
  <2> HIDE DEF last, id
  <2>4. QED
    BY <2>2, <2>3, DraftGoal
<1>3. ASSUME NEW o \in BillOccurrences, BuildFromBill(o) PROVE GoalsKept'
  <2> DEFINE last == built + 1
             id == [l \in built + 1 .. last |-> BillLeg(o, built + 1)]
  <2>1. \A l \in built + 1 .. last : id[l].reserve # None =>
            id[l].dst = id[l].reserve /\ id[l].dst \in CashAccounts
    BY DEF BillLeg
  <2>2. Draft(built + 1, last, id) /\ last \in {built + 1, built + 2}
    BY <1>3 DEF BuildFromBill
  <2> HIDE DEF last, id
  <2>3. QED
    BY <2>1, <2>2, DraftGoal
<1>4. CASE Running
  <2>1. PICK l \in Built : RunExecute(l) \/ RunSkip(l) \/ RunSettle(l)
    BY <1>4 DEF Running
  <2>2. CASE RunExecute(l)
    BY <1>1, <2>2 DEF RunExecute, Execute, legVars
  <2>3. CASE RunSkip(l)
    BY <1>1, <2>3 DEF RunSkip, legVars
  <2>4. CASE RunSettle(l)
    BY <1>1, <2>4 DEF RunSettle, Settle, legVars
  <2>5. QED
    BY <2>1, <2>2, <2>3, <2>4
<1>5. CASE \E l \in Built : RecoverUnknown(l)
  BY <1>1, <1>5 DEF RecoverUnknown, legVars
<1>6. CASE \/ PauseAll \/ ResumeExecution \/ NextDay
           \/ \E g \in Built : RunGroup(g, TRUE)
  BY <1>1, <1>6 DEF PauseAll, ResumeExecution, NextDay, RunGroup, legVars
<1>7. CASE \/ \E p \in Policies, mode \in {"standing", "one_time"} :
                 AuthorizeRule(p, mode)
           \/ \E p \in Policies : \/ RenameRule(p) \/ ReviseRule(p)
                                  \/ PauseRule(p) \/ SkipRule(p)
           \/ \E b \in Bills : EditBill(b)
  <2>1. UNCHANGED <<built, leg>>
    BY <1>7 DEF AuthorizeRule, RenameRule, ReviseRule, PauseRule, SkipRule,
                EditBill, Assign, engineVars, legVars
  <2>2. QED
    BY <1>1, <2>1
<1>8. CASE UNCHANGED vars
  BY <1>1, <1>8 DEF vars
<1>9. QED
  BY <1>2, <1>3, <1>4, <1>5, <1>6, <1>7, <1>8 DEF HostedNext, Commands

(* What an account has reserved holds the amount of each payment in it.    *)
LEMMA ReservedHolds ==
    ASSUME EngineAssumption, Books, NEW l \in Built, Unsettled(l)
    PROVE  leg[l].amount <= reserved[leg[l].src]
<1> DEFINE S == UnsettledLegs \cap From(leg[l].src)
<1>1. TypeOK
  BY DEF Books, Phases
<1>2. S \subseteq Built /\ l \in S
  BY DEF UnsettledLegs, From
<1>3. reserved[leg[l].src] = Total(S)
  <2>1. leg[l].src \in Accounts
    BY <1>1 DEF TypeOK, LegRecord, Built, Legs, EngineAssumption
  <2>2. QED
    BY <2>1 DEF Books
<1> HIDE DEF S
<1>4. /\ Total(S) = Total(S \ {l}) + leg[l].amount /\ leg[l].amount \in Nat
      /\ Total(S \ {l}) \in Nat
  BY <1>1, <1>2, TotalMinus, TotalType
<1>5. QED
  BY <1>3, <1>4

(* The inductive invariant of Covered. *)
CoverInv == Books /\ FirstAttempts /\ GoalsKept /\ Covered

(* A payment is committed within what is free, and its settlement takes    *)
(* reservation and balance of its source down alike; what it adds to a     *)
(* goal it adds to the balance of the goal's account too.                  *)
LEMMA CoveredStep ==
    ASSUME EngineAssumption, CoverInv, [HostedNext]_vars
    PROVE  Covered'
<1>1. /\ Books /\ Phases /\ TypeOK /\ Covered /\ GoalsKept /\ [Next]_vars
  BY DEF CoverInv, Books, Phases, Next
<1>2. /\ MoneyStep /\ Built \subseteq Legs
  BY <1>1, PhasesStep
<1>3. /\ reserved \in [Accounts -> Nat] /\ protected \in [Accounts -> Nat]
      /\ available \in [Accounts -> Int] /\ CashAccounts \subseteq Accounts
  BY <1>1 DEF TypeOK, EngineAssumption
<1>4. \A l \in Built : leg[l].amount \in Nat /\ leg[l].src \in Accounts
  BY <1>1, <1>2 DEF TypeOK, LegRecord, Built
<1>5. CASE Quiet
  BY <1>1, <1>5 DEF Quiet, SettledKept, Covered
<1>6. ASSUME NEW l \in Built, Commits(l) PROVE Covered'
  <2> DEFINE a == leg[l].src
             n == leg[l].amount
  <2>1. /\ UNCHANGED <<available, protected>>
        /\ reserved' = [reserved EXCEPT ![a] = @ + n]
    BY <1>6 DEF Commits, SettledKept, Reserve
  <2>2. n <= Min0(available[a] - reserved[a] - protected[a]) /\ n > 0
    BY <1>6 DEF Commits, Preflight, FundsAllow
  <2>3. n \in Nat /\ a \in Accounts
    BY <1>4
  <2> HIDE DEF a, n
  <2>4. reserved[a] + n + protected[a] <= available[a]
    BY <1>3, <2>2, <2>3 DEF Min0
  <2>5. ASSUME NEW c \in CashAccounts
        PROVE  reserved'[c] + protected'[c] <= available'[c]
    <3>1. CASE c = a
      BY <1>3, <2>1, <2>3, <2>4, <3>1
    <3>2. CASE c # a
      BY <1>1, <1>3, <2>1, <3>2 DEF Covered
    <3>3. QED
      BY <3>1, <3>2
  <2>6. QED
    BY <2>5 DEF Covered
<1>7. ASSUME NEW l \in Built, Releases(l) PROVE Covered'
  <2>1. UNCHANGED <<available, protected>> /\ reserved' = Release(l)
    BY <1>7 DEF Releases, SettledKept
  <2>2. \A c \in Accounts : reserved'[c] <= reserved[c] /\ reserved'[c] \in Nat
    BY <1>3, <1>4, <2>1 DEF Release, Min0
  <2>3. QED
    BY <1>1, <1>3, <2>1, <2>2 DEF Covered
<1>8. ASSUME NEW l \in Built, Posts(l) PROVE Covered'
  <2> DEFINE a == leg[l].src
             b == leg[l].dst
             r == leg[l].reserve
             n == leg[l].amount
  <2>1. Unsettled(l)
    BY <1>1, <1>2, <1>8
    DEF Posts, Unsettled, Out, OutStates, Phases, Usable
  <2>2. n <= reserved[a] /\ n \in Nat /\ a \in Accounts
    BY <1>1, <1>4, <2>1, ReservedHolds
  <2>3. r # None => b = r /\ b \in CashAccounts
    BY <1>1 DEF GoalsKept
  <2>4. /\ available' = Move(available, a, b, n)
        /\ reserved' = [reserved EXCEPT ![a] = Min0(@ - n)]
        /\ protected' = [c \in Accounts |->
              IF c = r THEN protected[c] + n ELSE protected[c]]
    BY <1>8 DEF Posts, Post, Release
  <2>5. None \notin Accounts
    BY DEF EngineAssumption
  <2> HIDE DEF a, b, r, n
  <2>6. ASSUME NEW c \in CashAccounts
        PROVE  reserved'[c] + protected'[c] <= available'[c]
    <3> DEFINE gain == IF c = b THEN n ELSE 0
               loss == IF c = a THEN n ELSE 0
               goal == IF c = r THEN n ELSE 0
    <3>1. c \in Accounts /\ gain \in Nat /\ loss \in Nat /\ goal \in Nat
      BY <1>3, <2>2
    <3>2. goal <= gain
      BY <2>2, <2>3, <2>5, <3>1
    <3>3. available'[c] = available[c] - loss + gain
      BY <2>4, <3>1 DEF Move
    <3>4. reserved'[c] = reserved[c] - loss
      BY <1>3, <2>2, <2>4, <3>1 DEF Min0
    <3>5. protected'[c] = protected[c] + goal
      BY <1>3, <2>4, <3>1
    <3>6. /\ reserved[c] + protected[c] <= available[c]
          /\ reserved[c] \in Nat /\ protected[c] \in Nat /\ available[c] \in Int
      BY <1>1, <1>3, <3>1 DEF Covered
    <3> HIDE DEF gain, loss, goal
    <3>7. QED
      BY <3>1, <3>2, <3>3, <3>4, <3>5, <3>6
  <2>7. QED
    BY <2>6 DEF Covered
<1>9. ASSUME NEW l \in Built, Credits(l) PROVE Covered'
  BY <1>1, <1>9 DEF Credits, Covered
<1>10. \A l \in Built : ~Unposts(l)
  <2>1. \A l \in Legs : state'[l] # "returned"
    BY HostedFirst DEF CoverInv
  <2>2. QED
    BY <1>2, <2>1 DEF Unposts
<1>11. QED
  BY <1>2, <1>5, <1>6, <1>7, <1>8, <1>9, <1>10 DEF MoneyStep

(* Whatever the commands do, in whatever order drafts, edits, timeouts and *)
(* settlements come, an account never has more committed to payments and   *)
(* set aside for goals than it holds, if it began that way and if no rule  *)
(* pays a bill while it names a goal in another account.                   *)
THEOREM CoveredCorrect ==
    ASSUME Solvent, GoalRulesFund
    PROVE  HostedSpec => []Covered
<1>1. Init => CoverInv
  <2> SUFFICES ASSUME Init PROVE CoverInv
    OBVIOUS
  <2>1. Books /\ OneOut
    BY BooksInit, OneOutInit, EngineAssumption
  <2>2. Built = {} /\ \A l \in Legs : state[l] # "returned"
    BY DEF Init, Built
  <2>3. FirstAttempts /\ GoalsKept
    BY <2>1, <2>2 DEF FirstAttempts, GoalsKept, OneOut
  <2>4. ASSUME NEW a \in CashAccounts
        PROVE  reserved[a] + protected[a] <= available[a]
    <3>1. /\ a \in Accounts /\ InitProtected[a] \in Nat /\ InitAvailable[a] \in Nat
          /\ InitProtected[a] <= InitAvailable[a]
      BY Solvent, EngineAssumption DEF Solvent, EngineAssumption
    <3>2. reserved[a] = 0 /\ protected = InitProtected /\ available = InitAvailable
      BY <3>1 DEF Init
    <3>3. QED
      BY <3>1, <3>2
  <2>5. QED
    BY <2>1, <2>3, <2>4 DEF CoverInv, Covered
<1>2. CoverInv /\ [HostedNext]_vars => CoverInv'
  <2> SUFFICES ASSUME CoverInv, [HostedNext]_vars PROVE CoverInv'
    OBVIOUS
  <2>1. [Next]_vars /\ Books /\ FirstAttempts /\ GoalsKept /\ TypeOK
    BY DEF CoverInv, Next, FirstAttempts
  <2>2. Books'
    BY <2>1, BooksStep, EngineAssumption
  <2>3. FirstAttempts'
    <3>1. TypeOK' /\ OneOut
      BY <2>1, TypeStep, EngineAssumption DEF FirstAttempts, OneOut
    <3>2. OneOut'
      BY <2>1, <3>1, OneOutStep, EngineAssumption
    <3>3. QED
      BY <2>1, <3>2, HostedFirst, EngineAssumption DEF FirstAttempts, OneOut
  <2>4. GoalsKept'
    BY <2>1, GoalsStep, EngineAssumption
  <2>5. Covered'
    BY CoveredStep, EngineAssumption
  <2>6. QED
    BY <2>2, <2>3, <2>4, <2>5 DEF CoverInv
<1>3. CoverInv => Covered
  BY DEF CoverInv
<1>4. QED
  BY <1>1, <1>2, <1>3, PTL DEF HostedSpec
=============================================================================
