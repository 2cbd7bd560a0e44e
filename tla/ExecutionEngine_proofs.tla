----------------------- MODULE ExecutionEngine_proofs -----------------------
(* Proofs about the payment engine, for every household and every bound.   *)
EXTENDS ExecutionEngine, TLAPS, FiniteSetTheorems

(* Money is never negative once it is clamped. *)
LEMMA Min0Type == ASSUME NEW n \in Int PROVE Min0(n) \in Nat
BY DEF Min0

(* A count of built legs is a number. *)
LEMMA AttemptType ==
    ASSUME EngineAssumption, TypeOK, NEW o, NEW base
    PROVE  Attempt(o, base) \in Nat
<1> DEFINE S == {l \in Built : /\ leg[l].occ = o /\ leg[l].base = base
                               /\ state[l] = "returned"}
<1>1. IsFiniteSet(Built)
  BY FS_Interval DEF TypeOK, EngineAssumption, Built
<1>2. IsFiniteSet(S)
  BY <1>1, FS_Subset
<1>3. QED
  BY <1>2, FS_CardinalityType DEF Attempt

(* The legs the allocator drafts are well-formed. *)
LEMMA AllocationLegType ==
    ASSUME EngineAssumption, TypeOK, NEW a \in Allocations,
           NEW e \in IncomeEvents, NEW g \in Nat
    PROVE  AllocationLeg(a, e, g) \in LegRecord
<1> DEFINE base == <<"policy", a.policy, e>>
<1>1. a \in [policy : Policies, occ : Occurrences, amount : Amounts]
  BY DEF Allocations
<1>2. base \in Bases
  BY <1>1 DEF Bases
<1>3. Attempt(a.occ, base) \in Nat
  BY AttemptType
<1>4. a.amount \in Nat
  BY <1>1 DEF EngineAssumption
<1>5. /\ PolicySource[a.policy] \in Accounts
      /\ PolicyDest[a.policy] \in Accounts
      /\ PolicyReserve[a.policy] \in Accounts \cup {None}
  BY <1>1 DEF EngineAssumption
<1>6. a.occ \in BillOccurrences => Payee[BillOf[a.occ]] \in Accounts \cup {None}
  BY DEF EngineAssumption
<1>7. QED
  BY <1>1, <1>2, <1>3, <1>4, <1>5, <1>6 DEF AllocationLeg, LegRecord

(* So is the leg of a one-time bill payment. *)
LEMMA BillLegType ==
    ASSUME EngineAssumption, TypeOK, NEW o \in BillOccurrences, NEW g \in Nat
    PROVE  BillLeg(o, g) \in LegRecord
<1> DEFINE base == <<"manual", funded[o]>>
           p == RuleOfBill(BillOf[o])
<1>1. funded[o] \in Nat /\ Due[o] \in Nat /\ BillOf[o] \in Bills
  BY DEF TypeOK, EngineAssumption
<1>2. base \in Bases
  BY <1>1 DEF Bases
<1>3. Attempt(o, base) \in Nat
  BY AttemptType
<1>4. CashRemaining(o) \in Nat
  BY <1>1 DEF CashRemaining, Min0
<1>5. p \in Policies \cup {None}
  BY DEF RuleOfBill
<1>6. bill[BillOf[o]].source \in Accounts
  BY <1>1 DEF TypeOK, EngineAssumption
<1>7. Payee[BillOf[o]] \in Accounts \cup {None}
  BY <1>1 DEF EngineAssumption
<1>8. o \in Occurrences
  BY DEF Occurrences
<1>9. QED
  BY <1>1, <1>2, <1>3, <1>4, <1>5, <1>6, <1>7, <1>8
  DEF BillLeg, LegRecord

(* The month of a built leg is a month. *)
LEMMA MonthType ==
    ASSUME EngineAssumption, TypeOK, NEW l \in Built
    PROVE  Month(l) \in Months
<1>1. l \in Legs
  BY DEF TypeOK, Built, Legs, EngineAssumption
<1>2. leg[l].occ \in Occurrences
  BY <1>1 DEF TypeOK, LegRecord
<1>3. QED
  BY <1>2 DEF Month, Months

(* Recording, refusing and releasing a use keep budgets well-formed. *)
Budgets == [Mandates -> [used : Nat, period : Months \cup {None}]]

LEMMA UseType ==
    ASSUME EngineAssumption, TypeOK, NEW l \in Built
    PROVE  /\ authority[l] # None =>
                 RecordUse(l) \in Budgets /\ RefusedUse(l) \in Budgets
           /\ ReleaseUse(l) \in Budgets
<1> DEFINE m == authority[l]
<1>1. l \in Legs
  BY DEF TypeOK, Built, Legs, EngineAssumption
<1>2. leg[l].amount \in Nat /\ m \in Mandates \cup {None}
  BY <1>1 DEF TypeOK, LegRecord
<1>3. Month(l) \in Months
  BY MonthType
<1>4. usage \in Budgets
  BY DEF TypeOK, Budgets
<1>5. ASSUME m \in Mandates, NEW n \in Nat
      PROVE  Used(m, n, Month(l)) \in Budgets
  BY <1>3, <1>4, <1>5 DEF Used, Budgets
<1>6. ASSUME m \in Mandates
      PROVE  /\ Usage(m, Month(l)) \in Nat
             /\ Usage(m, Month(l)) + leg[l].amount \in Nat
             /\ Min0(usage[m].used - leg[l].amount) \in Nat
  BY <1>2, <1>4, <1>6 DEF Usage, Budgets, Min0
<1>7. QED
  BY <1>2, <1>4, <1>5, <1>6 DEF RecordUse, RefusedUse, ReleaseUse

(* Reserving and releasing keep reservations natural numbers. *)
LEMMA ReserveType ==
    ASSUME EngineAssumption, TypeOK, NEW l \in Built
    PROVE  Reserve(l) \in [Accounts -> Nat] /\ Release(l) \in [Accounts -> Nat]
<1>1. l \in Legs
  BY DEF TypeOK, Built, Legs, EngineAssumption
<1>2. leg[l].amount \in Nat /\ leg[l].src \in Accounts
  BY <1>1 DEF TypeOK, LegRecord
<1>3. reserved \in [Accounts -> Nat]
  BY DEF TypeOK
<1>4. QED
  BY <1>2, <1>3 DEF Reserve, Release, Min0

-----------------------------------------------------------------------------
(* Appending drafts keeps every variable in its type. *)
LEMMA DraftType ==
    ASSUME EngineAssumption, TypeOK, NEW last \in Nat, last > built,
           NEW id, \A l \in built + 1 .. last : id[l] \in LegRecord,
           Draft(built + 1, last, id)
    PROVE  TypeOK'
<1> DEFINE new == built + 1 .. last
<1>1. /\ built' = last /\ last <= MaxLegs /\ built \in Nat /\ MaxLegs \in Nat
      /\ new \subseteq Legs
      /\ leg' = [l \in Legs |-> IF l \in new THEN id[l] ELSE leg[l]]
      /\ state' = [l \in Legs |-> IF l \in new THEN "draft" ELSE state[l]]
  BY DEF Draft, TypeOK, EngineAssumption, Legs
<1>2. Built' = Built \cup new /\ Built \subseteq Legs
  BY <1>1 DEF Built, Legs
<1>3. leg' \in [Legs -> LegRecord \cup {Blank}]
  BY <1>1 DEF TypeOK
<1>4. state' \in [Legs -> LegStates \cup {"absent"}]
  BY <1>1 DEF TypeOK, LegStates
<1>5. \A l \in Legs : IF l \in Built' THEN leg'[l] \in LegRecord /\ state'[l] # "absent"
                      ELSE state'[l] = "absent"
  BY <1>1, <1>2 DEF TypeOK
<1>6. authority' \in [Legs -> Mandates \cup {None}]
  <2>1. ASSUME NEW l \in new
        PROVE  id[l].policy # None => rule[id[l].policy].mandate \in Mandates
    BY DEF TypeOK, LegRecord
  <2>2. QED
    BY <2>1 DEF Draft, TypeOK
<1>7. run' \in [legs : SUBSET Built', settle : BOOLEAN]
  BY <1>2 DEF TypeOK, Draft
<1>8. QED
  BY <1>1, <1>3, <1>4, <1>5, <1>6, <1>7
  DEF Draft, TypeOK, ledgerVars, ruleVars

(* One locked execution of a leg keeps every variable in its type. *)
LEMMA ExecuteType ==
    ASSUME EngineAssumption, TypeOK, NEW l \in Built, Execute(l),
           run' = run \/ Done(l)
    PROVE  TypeOK'
<1>1. l \in Legs /\ Built' = Built
  BY DEF TypeOK, Built, Legs, EngineAssumption, Execute, legVars
<1>2. state' \in [Legs -> LegStates \cup {"absent"}] /\ state'[l] # "absent"
      /\ \A x \in Legs \ {l} : state'[x] = state[x]
  <2>1. \E s \in {"failed", "processing", "outcome_unknown"} :
            state' = [state EXCEPT ![l] = s]
    BY DEF Execute
  <2>2. QED
    BY <1>1, <2>1 DEF TypeOK, LegStates
<1>3. reserved' \in [Accounts -> Nat]
  BY ReserveType DEF Execute, TypeOK
<1>4. Preflight(l) => authority[l] # None
  BY DEF Preflight
<1>5. usage' \in Budgets
  BY <1>4, UseType DEF Execute, TypeOK, Budgets
<1>6. Key(l) \in Occurrences \X Bases \X Nat \X Nat
  BY <1>1 DEF Key, TypeOK, LegRecord
<1>7. submitted' \subseteq Occurrences \X Bases \X Nat \X Nat
  BY <1>6 DEF Execute, TypeOK
<1>8. run' \in [legs : SUBSET Built', settle : BOOLEAN]
  BY <1>1 DEF TypeOK, Done
<1>9. QED
  BY <1>1, <1>2, <1>3, <1>5, <1>7, <1>8
  DEF Execute, TypeOK, Budgets, legVars, ledgerVars, ruleVars

(* What settlement moves keeps its types, and so does what a return undoes. *)
LEMMA PostType ==
    ASSUME EngineAssumption, TypeOK, NEW l \in Built, Post(l) \/ Unpost(l)
    PROVE  /\ available' \in [Accounts -> Int]
           /\ reserved' \in [Accounts -> Nat]
           /\ applied' \in [Legs -> BOOLEAN]
           /\ protected' \in [Accounts -> Nat]
           /\ funded' \in [BillOccurrences -> Nat]
           /\ ruleFunded' \in [Policies -> [Months -> Nat]]
<1> DEFINE n == leg[l].amount
<1>1. l \in Legs
  BY DEF TypeOK, Built, Legs, EngineAssumption
<1>2. n \in Nat /\ -n \in Int
  BY <1>1 DEF TypeOK, LegRecord
<1>3. reserved' \in [Accounts -> Nat]
  BY ReserveType DEF Post, Unpost, TypeOK
<1>4. \A k \in Int : \A from, to : Move(available, from, to, k) \in [Accounts -> Int]
  BY DEF Move, TypeOK
<1>5. available' \in [Accounts -> Int]
  BY <1>2, <1>4 DEF Post, Unpost
<1>6. \A k \in Nat : k + n \in Nat /\ Min0(k - n) \in Nat
  BY <1>2 DEF Min0
<1>7. protected' \in [Accounts -> Nat] /\ funded' \in [BillOccurrences -> Nat]
  <2>1. /\ protected \in [Accounts -> Nat]
        /\ \A o \in BillOccurrences : funded[o] \in Nat
    BY DEF TypeOK
  <2>2. CASE Post(l)
    BY <1>6, <2>1, <2>2 DEF Post
  <2>3. CASE Unpost(l)
    BY <1>6, <2>1, <2>3 DEF Unpost
  <2>4. QED
    BY <2>2, <2>3
<1>8. ruleFunded' \in [Policies -> [Months -> Nat]]
  <2>1. \A p \in Policies, k \in Months : ruleFunded[p][k] \in Nat
    BY DEF TypeOK
  <2>2. CASE Post(l)
    BY <1>6, <2>1, <2>2 DEF Post
  <2>3. CASE Unpost(l)
    BY <1>6, <2>1, <2>3 DEF Unpost
  <2>4. QED
    BY <2>2, <2>3
<1>9. applied' \in [Legs -> BOOLEAN]
  BY DEF Post, Unpost, TypeOK
<1>10. QED
  BY <1>3, <1>5, <1>7, <1>8, <1>9

(* Settlement keeps every variable in its type. *)
LEMMA SettleType ==
    ASSUME EngineAssumption, TypeOK, NEW l \in Built, NEW credited \in BOOLEAN,
           Settle(l, credited), run' = run \/ Done(l)
    PROVE  TypeOK'
<1>1. l \in Legs /\ Built' = Built
  BY DEF TypeOK, Built, Legs, EngineAssumption, Settle, legVars
<1>2. state' \in [Legs -> LegStates \cup {"absent"}] /\ state'[l] # "absent"
      /\ \A x \in Legs \ {l} : state'[x] = state[x]
  BY <1>1 DEF Settle, TypeOK, LegStates
<1>3. leg[l].amount \in Nat
  BY <1>1 DEF TypeOK, LegRecord
<1>4. /\ available' \in [Accounts -> Int]
      /\ reserved' \in [Accounts -> Nat]
      /\ applied' \in [Legs -> BOOLEAN]
      /\ protected' \in [Accounts -> Nat]
      /\ funded' \in [BillOccurrences -> Nat]
      /\ ruleFunded' \in [Policies -> [Months -> Nat]]
  BY PostType DEF Settle, TypeOK
<1>5. Credit(l) => /\ paid' \in [BillOccurrences -> Nat]
                   /\ paidApplied' \in [Legs -> BOOLEAN]
  <2>1. \A k \in Nat : k + leg[l].amount \in Nat
    BY <1>3
  <2>2. Credit(l) => paid' \in [BillOccurrences -> Nat]
    BY <2>1 DEF Credit, TypeOK
  <2>3. Credit(l) => paidApplied' \in [Legs -> BOOLEAN]
    BY Zenon DEF Credit, TypeOK
  <2>4. QED
    BY <2>2, <2>3
<1>6. paid' \in [BillOccurrences -> Nat] /\ paidApplied' \in [Legs -> BOOLEAN]
  BY <1>5 DEF Settle, TypeOK
<1>7. run' \in [legs : SUBSET Built', settle : BOOLEAN]
  BY <1>1 DEF TypeOK, Done
<1>8. QED
  BY <1>1, <1>2, <1>4, <1>6, <1>7
  DEF Settle, TypeOK, legVars, ruleVars, grantVars

(* Recovery of an unknown outcome keeps every variable in its type. *)
LEMMA RecoverType ==
    ASSUME EngineAssumption, TypeOK, NEW l \in Built, RecoverUnknown(l)
    PROVE  TypeOK'
<1>1. l \in Legs /\ Built' = Built
  BY DEF TypeOK, Built, Legs, EngineAssumption, RecoverUnknown, legVars
<1>2. state' \in [Legs -> LegStates \cup {"absent"}] /\ state'[l] # "absent"
      /\ \A x \in Legs \ {l} : state'[x] = state[x]
  <2>1. \E s \in {"failed", "processing"} : state' = [state EXCEPT ![l] = s]
    BY DEF RecoverUnknown
  <2>2. QED
    BY <1>1, <2>1 DEF TypeOK, LegStates
<1>3. reserved' \in [Accounts -> Nat]
  BY ReserveType DEF RecoverUnknown, TypeOK
<1>4. usage' \in Budgets
  BY UseType DEF RecoverUnknown, TypeOK, Budgets
<1>5. QED
  BY <1>1, <1>2, <1>3, <1>4
  DEF RecoverUnknown, TypeOK, Budgets, legVars, ledgerVars, ruleVars

(* So does a return, applied or not. *)
LEMMA ReturnType ==
    ASSUME EngineAssumption, TypeOK, NEW l \in Built, ApplyReturn(l)
    PROVE  TypeOK'
<1>1. l \in Legs /\ Built' = Built
  BY DEF TypeOK, Built, Legs, EngineAssumption, ApplyReturn, legVars
<1>2. state' \in [Legs -> LegStates \cup {"absent"}]
  BY DEF ApplyReturn, TypeOK, LegStates
<1>3. \A x \in Legs : \/ state'[x] = state[x]
                   \/ (x \in Built /\ state'[x] # "absent")
  <2>1. state' = [x \in Legs |-> IF x = l THEN "returned"
                                 ELSE IF x \in Dependents(l) THEN "canceled"
                                 ELSE state[x]]
    BY DEF ApplyReturn
  <2>2. Dependents(l) \subseteq Built
    BY DEF Dependents
  <2>3. ASSUME NEW x \in Legs
        PROVE  \/ x = l /\ state'[x] = "returned"
               \/ x \in Dependents(l) /\ state'[x] = "canceled"
               \/ state'[x] = state[x]
    BY <2>1
  <2>4. QED
    BY <2>2, <2>3
<1>4. leg[l].amount \in Nat
  BY <1>1 DEF TypeOK, LegRecord
<1>5. CASE applied[l] /\ Unpost(l)
  <2>1. /\ available' \in [Accounts -> Int]
        /\ reserved' \in [Accounts -> Nat]
        /\ applied' \in [Legs -> BOOLEAN]
        /\ protected' \in [Accounts -> Nat]
        /\ funded' \in [BillOccurrences -> Nat]
        /\ ruleFunded' \in [Policies -> [Months -> Nat]]
    BY <1>5, PostType
  <2>2. \A k \in Nat : Min0(k - leg[l].amount) \in Nat
    BY <1>4 DEF Min0
  <2>3. paid' \in [BillOccurrences -> Nat]
    BY <1>5, <2>2 DEF Unpost, TypeOK
  <2>4. paidApplied' \in [Legs -> BOOLEAN]
    BY <1>5, Zenon DEF Unpost, TypeOK
  <2>5. QED
    BY <1>1, <1>2, <1>3, <1>5, <2>1, <2>3, <2>4
    DEF ApplyReturn, Unpost, TypeOK, legVars, ruleVars
<1>6. CASE /\ reserved' = Release(l)
           /\ usage' = ReleaseUse(l)
           /\ UNCHANGED <<ledgerVars, applied, paidApplied>>
  <2>1. reserved' \in [Accounts -> Nat]
    BY <1>6, ReserveType
  <2>2. usage' \in Budgets
    BY <1>6, UseType
  <2>3. QED
    BY <1>1, <1>2, <1>3, <1>6, <2>1, <2>2
    DEF ApplyReturn, TypeOK, Budgets, legVars, ledgerVars, ruleVars
<1>7. QED
  BY <1>5, <1>6 DEF ApplyReturn

(* And every command that leaves the legs alone. *)
LEMMA ControlType ==
    ASSUME EngineAssumption, TypeOK,
           \/ \E p \in Policies, mode \in {"standing", "one_time"} :
                 AuthorizeRule(p, mode)
           \/ \E p \in Policies : \/ RenameRule(p) \/ ReviseRule(p)
                                  \/ PauseRule(p) \/ SkipRule(p)
           \/ \E b \in Bills : EditBill(b)
    PROVE  TypeOK'
<1> DEFINE Rules == [Policies -> [mandate : Mandates, paused : BOOLEAN,
                                  skipped : SUBSET Nat]]
           Grants == [id : Mandates \cup {None},
                      mode : {"explore", "standing", "one_time"},
                      active : BOOLEAN, capped : BOOLEAN]
           Budget == [used : Nat, period : Months \cup {None}]
<1>1. /\ rule \in Rules /\ mandate \in [Mandates -> Grants]
      /\ usage \in Budgets
      /\ \A m \in Mandates : usage[m] \in Budget
  BY DEF TypeOK, Budgets
<1>2. \A p \in Policies : /\ rule[p].mandate \in Mandates
                          /\ rule[p].paused \in BOOLEAN
                          /\ rule[p].skipped \in SUBSET Nat
  BY <1>1
<1>3. ASSUME NEW p \in Policies, NEW m \in Mandates, NEW grant \in Grants,
             NEW used \in Budget, NEW pause \in BOOLEAN,
             Assign(p, m, grant, used, pause)
      PROVE  TypeOK'
  <2>1. mandate' \in [Mandates -> Grants]
    BY <1>1, <1>3 DEF Assign
  <2>2. usage' \in Budgets
    BY <1>1, <1>3 DEF Assign, Budgets
  <2>3. Rule(m, pause, rule[p].skipped)
          \in [mandate : Mandates, paused : BOOLEAN, skipped : SUBSET Nat]
    BY <1>2 DEF Rule
  <2>4. rule' \in Rules
    BY <1>1, <1>3, <2>3 DEF Assign
  <2>5. QED
    BY <1>3, <2>1, <2>2, <2>4
    DEF Assign, TypeOK, Budgets, engineVars, ledgerVars, legVars, Built
<1>4. ASSUME NEW p \in Policies, NEW mode \in {"standing", "one_time"},
             AuthorizeRule(p, mode)
      PROVE  TypeOK'
  <2>1. PICK m \in Mandates :
            Assign(p, m, Grant(m, mode, TRUE, FALSE), Unused, rule[p].paused)
    BY <1>4 DEF AuthorizeRule
  <2>2. Grant(m, mode, TRUE, FALSE) \in Grants /\ Unused \in Budget
    BY DEF Grant, Unused
  <2>3. rule[p].paused \in BOOLEAN
    BY <1>2
  <2>4. \E grant \in Grants, used \in Budget, pause \in BOOLEAN :
            Assign(p, m, grant, used, pause)
    <3> USE <2>2, <2>3
    <3> HIDE DEF Grants, Budget
    <3> WITNESS Grant(m, mode, TRUE, FALSE) \in Grants, Unused \in Budget,
                rule[p].paused \in BOOLEAN
    <3> QED
      BY <2>1
  <2>5. QED
    BY <1>3, <2>4
<1>5. ASSUME NEW p \in Policies, RenameRule(p)
      PROVE  TypeOK'
  <2>1. PICK m \in Mandates, pause \in BOOLEAN :
            Assign(p, m, mandate[rule[p].mandate], usage[rule[p].mandate], pause)
    BY <1>5 DEF RenameRule
  <2>2. /\ mandate[rule[p].mandate] \in Grants
        /\ usage[rule[p].mandate] \in Budget
    BY <1>1, <1>2
  <2>3. QED
    BY <1>3, <2>1, <2>2
<1>6. ASSUME NEW p \in Policies, ReviseRule(p)
      PROVE  TypeOK'
  <2>1. PICK m \in Mandates :
            Assign(p, m, Grant(m, "explore", FALSE, FALSE), Unused,
                   rule[p].paused)
    BY <1>6 DEF ReviseRule
  <2>2. Grant(m, "explore", FALSE, FALSE) \in Grants /\ Unused \in Budget
    BY DEF Grant, Unused
  <2>3. rule[p].paused \in BOOLEAN
    BY <1>2
  <2>4. \E grant \in Grants, used \in Budget, pause \in BOOLEAN :
            Assign(p, m, grant, used, pause)
    <3> USE <2>2, <2>3
    <3> HIDE DEF Grants, Budget
    <3> WITNESS Grant(m, "explore", FALSE, FALSE) \in Grants, Unused \in Budget,
                rule[p].paused \in BOOLEAN
    <3> QED
      BY <2>1
  <2>5. QED
    BY <1>3, <2>4
<1>7. ASSUME NEW p \in Policies, PauseRule(p) \/ SkipRule(p)
      PROVE  TypeOK'
  <2>1. \A d \in RuleDates(p) : d \in Nat
    BY DEF RuleDates, EngineAssumption
  <2>2. \E pause \in BOOLEAN, S \in SUBSET Nat :
            rule' = [rule EXCEPT ![p] = Rule(rule[p].mandate, pause, S)]
    BY <1>2, <1>7, <2>1 DEF PauseRule, SkipRule
  <2>3. rule' \in Rules
    BY <1>1, <1>2, <2>2 DEF Rule
  <2>4. QED
    BY <1>7, <2>3
    DEF PauseRule, SkipRule, TypeOK, engineVars, ledgerVars, legVars, Built
<1>8. ASSUME NEW b \in Bills, EditBill(b)
      PROVE  TypeOK'
  <2>1. bill' \in [Bills -> [source : SendAccounts, app : BOOLEAN]]
    BY <1>8 DEF EditBill, TypeOK
  <2>2. QED
    BY <1>8, <2>1
    DEF EditBill, TypeOK, engineVars, ledgerVars, legVars, Built
<1>9. QED
  BY <1>4, <1>5, <1>6, <1>7, <1>8

(* The build of an allocation and of a one-time payment. *)
LEMMA BuildType ==
    ASSUME EngineAssumption, TypeOK,
           \/ \E e \in IncomeEvents : BuildFromAllocation(e)
           \/ \E o \in BillOccurrences : BuildFromBill(o)
    PROVE  TypeOK'
<1>1. built \in Nat /\ built + 1 \in Nat /\ built + 2 \in Nat
  BY DEF TypeOK, EngineAssumption
<1>2. ASSUME NEW e \in IncomeEvents, BuildFromAllocation(e)
      PROVE  TypeOK'
  <2>1. PICK a \in Allocations, b \in Allocations :
            LET last == IF a = b THEN built + 1 ELSE built + 2 IN
            Draft(built + 1, last,
                  [l \in built + 1 .. last |->
                     AllocationLeg(IF l = built + 1 THEN a ELSE b, e, built + 1)])
    BY <1>2 DEF BuildFromAllocation
  <2> DEFINE last == IF a = b THEN built + 1 ELSE built + 2
             id == [l \in built + 1 .. last |->
                     AllocationLeg(IF l = built + 1 THEN a ELSE b, e, built + 1)]
  <2>2. \A l \in built + 1 .. last : id[l] \in LegRecord
    BY <1>1, AllocationLegType
  <2>3. last \in Nat /\ last > built
    BY <1>1
  <2>4. Draft(built + 1, last, id)
    BY <2>1
  <2> HIDE DEF last, id
  <2>5. QED
    BY <2>2, <2>3, <2>4, DraftType
<1>3. ASSUME NEW o \in BillOccurrences, BuildFromBill(o)
      PROVE  TypeOK'
  <2> DEFINE id == [l \in built + 1 .. built + 1 |-> BillLeg(o, built + 1)]
  <2>1. \A l \in built + 1 .. built + 1 : id[l] \in LegRecord
    BY <1>1, BillLegType
  <2>2. Draft(built + 1, built + 1, id)
    BY <1>3 DEF BuildFromBill
  <2>3. built + 1 > built
    BY <1>1
  <2> HIDE DEF id
  <2>4. QED
    BY <1>1, <2>1, <2>2, <2>3, DraftType
<1>4. QED
  BY <1>2, <1>3

(* The initial state and every step of a run or a call are well-typed. *)
LEMMA InitType == ASSUME EngineAssumption, Init PROVE TypeOK
<1>1. /\ Built = {} /\ built \in 0..MaxLegs /\ today \in Days
  BY DEF Init, Built, EngineAssumption, Days
<1>2. ruleFunded \in [Policies -> [Months -> Nat]]
  BY DEF Init
<1>3. /\ rule \in [Policies -> [mandate : Mandates, paused : BOOLEAN,
                                skipped : SUBSET Nat]]
      /\ bill \in [Bills -> [source : SendAccounts, app : BOOLEAN]]
  BY DEF Init, EngineAssumption
<1>4. mandate \in [Mandates ->
                     [id : Mandates \cup {None},
                      mode : {"explore", "standing", "one_time"},
                      active : BOOLEAN, capped : BOOLEAN]]
  BY DEF Init, Grant
<1>5. usage \in [Mandates -> [used : Nat, period : Months \cup {None}]]
  BY DEF Init, Unused
<1>6. run \in [legs : SUBSET Built, settle : BOOLEAN]
  BY DEF Init
<1>7. /\ available \in [Accounts -> Int] /\ protected \in [Accounts -> Nat]
      /\ reserved \in [Accounts -> Nat]
      /\ funded \in [BillOccurrences -> Nat] /\ paid \in [BillOccurrences -> Nat]
  BY DEF Init, EngineAssumption
<1>8. QED
  BY <1>1, <1>2, <1>3, <1>4, <1>5, <1>6, <1>7 DEF Init, TypeOK

LEMMA RunningType == ASSUME EngineAssumption, TypeOK, Running PROVE TypeOK'
<1>1. PICK l \in Built : RunExecute(l) \/ RunSkip(l) \/ RunSettle(l)
  BY DEF Running
<1>2. CASE RunExecute(l)
  <2>1. Execute(l) /\ (run' = run \/ Done(l))
    BY <1>2 DEF RunExecute
  <2>2. QED
    BY <2>1, ExecuteType
<1>3. CASE RunSkip(l)
  BY <1>3 DEF RunSkip, Done, TypeOK, legVars, ledgerVars, ruleVars, grantVars,
              Built
<1>4. CASE RunSettle(l)
  <2>1. Settle(l, TRUE) /\ Done(l) /\ TRUE \in BOOLEAN
    BY <1>4 DEF RunSettle
  <2>2. QED
    BY <2>1, SettleType
<1>5. QED
  BY <1>1, <1>2, <1>3, <1>4

LEMMA CommandsType == ASSUME EngineAssumption, TypeOK, Commands PROVE TypeOK'
<1>1. ASSUME NEW g, NEW settle \in BOOLEAN, RunGroup(g, settle)
      PROVE  TypeOK'
  BY <1>1 DEF RunGroup, TypeOK, legVars, ledgerVars, ruleVars, grantVars, Built
<1>2. CASE PauseAll
  <2>1. \A l \in Legs : \/ state'[l] = state[l]
                        \/ state[l] \in Cancellable /\ state'[l] = "canceled"
    BY <1>2 DEF PauseAll
  <2>2. state' \in [Legs -> LegStates \cup {"absent"}]
    BY <1>2 DEF PauseAll, TypeOK, LegStates
  <2>3. QED
    BY <1>2, <2>1, <2>2 DEF PauseAll, TypeOK, Cancellable, legVars, ledgerVars,
                            ruleVars, grantVars, Built
<1>3. CASE ResumeExecution
  BY <1>3 DEF ResumeExecution, TypeOK, legVars, ledgerVars, ruleVars, grantVars,
              Built
<1>4. CASE NextDay
  BY <1>4 DEF NextDay, TypeOK, legVars, ledgerVars, grantVars, Built, Days
<1>5. TRUE \in BOOLEAN
  OBVIOUS
<1>6. QED
  BY <1>1, <1>2, <1>3, <1>4, <1>5, BuildType, RecoverType, ControlType
  DEF Commands

LEMMA DirectType == ASSUME EngineAssumption, TypeOK, Direct PROVE TypeOK'
<1>1. PICK l \in Built :
        \/ \E m \in Mandates : Authorize(l, m)
        \/ ExecuteOne(l)
        \/ \E credited \in BOOLEAN : SettleOne(l, credited)
        \/ RunGroup(l, FALSE)
        \/ LoseCallback(l)
        \/ ApplyReturn(l)
  BY DEF Direct
<1>2. ASSUME NEW m \in Mandates, Authorize(l, m) PROVE TypeOK'
  <2>1. state' \in [Legs -> LegStates \cup {"absent"}]
    BY <1>2 DEF Authorize, TypeOK, LegStates
  <2>2. QED
    BY <1>2, <2>1 DEF Authorize, TypeOK, legVars, ledgerVars, ruleVars, Built
<1>3. CASE ExecuteOne(l)
  BY <1>3, ExecuteType DEF ExecuteOne
<1>4. ASSUME NEW credited \in BOOLEAN, SettleOne(l, credited) PROVE TypeOK'
  BY <1>4, SettleType DEF SettleOne
<1>5. CASE RunGroup(l, FALSE)
  BY <1>5 DEF RunGroup, TypeOK, legVars, ledgerVars, ruleVars, grantVars, Built
<1>6. CASE LoseCallback(l)
  BY <1>6 DEF LoseCallback, TypeOK, LegStates, legVars, ledgerVars, ruleVars,
              grantVars, Built
<1>7. QED
  BY <1>1, <1>2, <1>3, <1>4, <1>5, <1>6, ReturnType

LEMMA StutterType == ASSUME TypeOK, UNCHANGED vars PROVE TypeOK'
  BY DEF TypeOK, vars, ledgerVars, grantVars, Built

LEMMA TypeStep == ASSUME EngineAssumption, TypeOK, [Next]_vars PROVE TypeOK'
  BY RunningType, CommandsType, DirectType, StutterType DEF Next, HostedNext

(* Every variable keeps its type, under the commands and under every other *)
(* call of the engine: no balance, budget or reservation becomes negative  *)
(* and no leg leaves the states of the engine.                             *)
THEOREM TypeCorrect == Spec => []TypeOK
<1>1. Init => TypeOK
  BY InitType, EngineAssumption
<1>2. TypeOK /\ [Next]_vars => TypeOK'
  BY TypeStep, EngineAssumption
<1>3. QED
  BY <1>1, <1>2, PTL DEF Spec

-----------------------------------------------------------------------------
(* What a step does to the legs. *)

(* A step keeps every built leg as it was built, and a leg that goes out   *)
(* goes out by the one execution the step performs, after its preflight.   *)
Sent(l) == /\ l \in Built /\ Execute(l) /\ Preflight(l)
           /\ \A x \in Legs \ {l} : state'[x] = state[x]
           /\ state'[l] # "outcome_unknown" => Key(l) \in submitted'

LegStep ==
    /\ Built \subseteq Built'
    /\ submitted \subseteq submitted'
    /\ \A l \in Built : leg'[l] = leg[l]
    /\ \A l \in Legs : Out(l)' =>
          \/ Sent(l)
          \/ /\ Out(l)
             /\ \/ state'[l] = "outcome_unknown"
                \/ state[l] # "outcome_unknown"
                \/ Key(l) \in submitted

LEMMA QuietStep ==
    ASSUME TypeOK, UNCHANGED <<built, leg>>,
           submitted \subseteq submitted',
           \A x \in Legs : \/ state'[x] = state[x]
                           \/ state'[x] \notin OutStates
    PROVE  LegStep
  BY DEF LegStep, Out, Built

LEMMA ExecuteStep ==
    ASSUME EngineAssumption, TypeOK, NEW l \in Built, Execute(l)
    PROVE  LegStep
<1>1. l \in Legs /\ UNCHANGED <<built, leg>>
  BY DEF TypeOK, Built, Legs, EngineAssumption, Execute, legVars
<1>2. \A x \in Legs \ {l} : state'[x] = state[x]
  <2>1. \E s \in {"failed", "processing", "outcome_unknown"} :
            state' = [state EXCEPT ![l] = s]
    BY DEF Execute
  <2>2. QED
    BY <2>1 DEF TypeOK
<1>3. state'[l] = "failed" \/ Preflight(l)
  BY <1>1 DEF Execute, TypeOK
<1>4. CASE state'[l] = "failed"
  <2>1. submitted \subseteq submitted'
    BY DEF Execute
  <2>2. "failed" \notin OutStates
    BY DEF OutStates
  <2>3. QED
    BY <1>1, <1>2, <1>4, <2>1, <2>2, QuietStep
<1>5. CASE Preflight(l)
  <2>1. submitted \subseteq submitted'
    BY DEF Execute
  <2>2. state'[l] \in {"failed", "processing", "outcome_unknown"}
        /\ (state'[l] = "processing" => Key(l) \in submitted')
    BY <1>1 DEF Execute, TypeOK
  <2>3. Out(l)' => Sent(l)
    BY <1>2, <1>5, <2>2 DEF Sent, Out, OutStates
  <2>4. QED
    BY <1>1, <1>2, <2>1, <2>3 DEF LegStep, Out, Built
<1>6. QED
  BY <1>3, <1>4, <1>5

LEMMA SettleStep ==
    ASSUME EngineAssumption, TypeOK, NEW l \in Built, NEW credited,
           Settle(l, credited)
    PROVE  LegStep
<1>1. /\ l \in Legs /\ UNCHANGED <<built, leg, submitted>>
      /\ state[l] \in {"processing", "funds_available"}
      /\ \E s \in {"reconciled", "funds_available"} :
            state' = [state EXCEPT ![l] = s]
  BY DEF TypeOK, Built, Legs, EngineAssumption, Settle, legVars
<1>2. \A x \in Legs \ {l} : state'[x] = state[x]
  BY <1>1 DEF TypeOK
<1>3. Out(l) /\ state[l] # "outcome_unknown"
  BY <1>1 DEF Out, OutStates
<1>4. QED
  BY <1>1, <1>2, <1>3 DEF LegStep, Out, Built

LEMMA DraftStep ==
    ASSUME EngineAssumption, TypeOK, NEW last \in Nat, last > built, NEW id,
           Draft(built + 1, last, id)
    PROVE  LegStep
<1>1. /\ built' = last
      /\ UNCHANGED submitted
      /\ leg' = [l \in Legs |-> IF l \in built + 1 .. last THEN id[l] ELSE leg[l]]
      /\ state' = [l \in Legs |-> IF l \in built + 1 .. last THEN "draft"
                                   ELSE state[l]]
  BY DEF Draft
<1>2. built \in Nat /\ Built \subseteq Legs /\ Built \subseteq Built'
  BY <1>1 DEF TypeOK, EngineAssumption, Built, Legs
<1>3. \A l \in Built : l \notin built + 1 .. last
  BY <1>2 DEF Built
<1>4. "draft" \notin OutStates
  BY DEF OutStates
<1>5. \A l \in Built : leg'[l] = leg[l]
  BY <1>1, <1>2, <1>3
<1>6. \A l \in Legs : Out(l)' => Out(l) /\ state'[l] = state[l]
  BY <1>1, <1>4 DEF Out
<1>7. QED
  BY <1>1, <1>2, <1>5, <1>6 DEF LegStep

LEMMA BuildStep ==
    ASSUME EngineAssumption, TypeOK,
           \/ \E e \in IncomeEvents : BuildFromAllocation(e)
           \/ \E o \in BillOccurrences : BuildFromBill(o)
    PROVE  LegStep
<1>1. built \in Nat
  BY DEF TypeOK, EngineAssumption
<1>2. \E last \in {built + 1, built + 2} : \E id : Draft(built + 1, last, id)
  <2>1. CASE \E e \in IncomeEvents : BuildFromAllocation(e)
    BY <2>1 DEF BuildFromAllocation
  <2>2. CASE \E o \in BillOccurrences : BuildFromBill(o)
    BY <2>2 DEF BuildFromBill
  <2>3. QED
    BY <2>1, <2>2
<1>3. QED
  BY <1>1, <1>2, DraftStep

LEMMA NextStep ==
    ASSUME EngineAssumption, TypeOK, [Next]_vars
    PROVE  LegStep
<1>1. ASSUME NEW l \in Built, RecoverUnknown(l) PROVE LegStep
  <2>1. /\ l \in Legs /\ UNCHANGED <<built, leg, submitted>>
        /\ state[l] = "outcome_unknown"
        /\ \/ Key(l) \in submitted /\ state' = [state EXCEPT ![l] = "processing"]
           \/ state' = [state EXCEPT ![l] = "failed"]
    BY <1>1 DEF TypeOK, Built, Legs, EngineAssumption, RecoverUnknown, legVars
  <2>2. \A x \in Legs \ {l} : state'[x] = state[x]
    BY <2>1 DEF TypeOK
  <2>3. Out(l) /\ (Out(l)' => Key(l) \in submitted)
    BY <2>1 DEF Out, OutStates, TypeOK
  <2>4. QED
    BY <2>1, <2>2, <2>3 DEF LegStep, Out, Built
<1>2. ASSUME NEW l \in Built, ApplyReturn(l) PROVE LegStep
  <2>1. /\ UNCHANGED <<built, leg, submitted>>
        /\ state' = [x \in Legs |-> IF x = l THEN "returned"
                                    ELSE IF x \in Dependents(l) THEN "canceled"
                                    ELSE state[x]]
    BY <1>2 DEF ApplyReturn, legVars
  <2>2. "returned" \notin OutStates /\ "canceled" \notin OutStates
    BY DEF OutStates
  <2>3. QED
    BY <2>1, <2>2, QuietStep
<1>3. CASE Running
  <2>1. PICK l \in Built : RunExecute(l) \/ RunSkip(l) \/ RunSettle(l)
    BY <1>3 DEF Running
  <2>2. CASE RunSkip(l)
    BY <2>2, QuietStep DEF RunSkip, legVars
  <2>3. QED
    BY <2>1, <2>2, ExecuteStep, SettleStep DEF RunExecute, RunSettle
<1>4. CASE PauseAll
  <2>1. "canceled" \notin OutStates
    BY DEF OutStates
  <2>2. QED
    BY <1>4, <2>1, QuietStep DEF PauseAll, legVars
<1>5. ASSUME NEW g, NEW settle, RunGroup(g, settle) PROVE LegStep
  BY <1>5, QuietStep DEF RunGroup, legVars
<1>6. CASE ResumeExecution \/ NextDay
  BY <1>6, QuietStep DEF ResumeExecution, NextDay, legVars
<1>7. CASE \/ \E p \in Policies, mode \in {"standing", "one_time"} :
                 AuthorizeRule(p, mode)
           \/ \E p \in Policies : \/ RenameRule(p) \/ ReviseRule(p)
                                  \/ PauseRule(p) \/ SkipRule(p)
           \/ \E b \in Bills : EditBill(b)
  <2>1. UNCHANGED <<built, leg, state, submitted>>
    BY <1>7 DEF AuthorizeRule, RenameRule, ReviseRule, PauseRule, SkipRule,
                EditBill, Assign, engineVars, legVars
  <2>2. QED
    BY <2>1, QuietStep
<1>8. CASE Commands
  BY <1>1, <1>4, <1>5, <1>6, <1>7, <1>8, BuildStep DEF Commands
<1>9. ASSUME NEW l \in Built, NEW m \in Mandates, Authorize(l, m) PROVE LegStep
  <2>1. \A x \in Legs : state'[x] = state[x] \/ state'[x] = "authorized"
    BY <1>9 DEF Authorize, TypeOK
  <2>2. "authorized" \notin OutStates
    BY DEF OutStates
  <2>3. QED
    BY <1>9, <2>1, <2>2, QuietStep DEF Authorize, legVars
<1>10. ASSUME NEW l \in Built, LoseCallback(l) PROVE LegStep
  <2>1. /\ UNCHANGED <<built, leg, submitted>>
        /\ state[l] = "processing"
        /\ state' = [state EXCEPT ![l] = "outcome_unknown"]
    BY <1>10 DEF LoseCallback, legVars
  <2>2. Out(l)
    BY <2>1 DEF Out, OutStates
  <2>3. \A x \in Legs : \/ state'[x] = state[x]
                        \/ (x = l /\ state'[x] = "outcome_unknown")
    BY <2>1 DEF TypeOK
  <2>4. QED
    BY <2>1, <2>2, <2>3 DEF LegStep, Out, Built
<1>11. CASE Direct
  <2>1. PICK l \in Built :
          \/ \E m \in Mandates : Authorize(l, m)
          \/ ExecuteOne(l)
          \/ \E credited \in BOOLEAN : SettleOne(l, credited)
          \/ RunGroup(l, FALSE)
          \/ LoseCallback(l)
          \/ ApplyReturn(l)
    BY <1>11 DEF Direct
  <2>2. CASE \E credited \in BOOLEAN : SettleOne(l, credited)
    BY <2>2, SettleStep DEF SettleOne
  <2>3. QED
    BY <2>1, <2>2, <1>2, <1>5, <1>9, <1>10, ExecuteStep DEF ExecuteOne
<1>12. CASE UNCHANGED vars
  BY <1>12, QuietStep DEF vars
<1>13. QED
  BY <1>3, <1>8, <1>11, <1>12 DEF Next, HostedNext

(* The inductive invariant of both theorems below. *)
OneOut == TypeOK /\ OneOutPerIntent /\ ProviderKnows

LEMMA OutBuilt == ASSUME TypeOK, NEW l \in Legs, Out(l) PROVE l \in Built
  BY DEF TypeOK, Out, OutStates

LEMMA OneOutStep ==
    ASSUME EngineAssumption, OneOut, [Next]_vars, TypeOK'
    PROVE  OneOut'
<1>1. LegStep
  BY NextStep DEF OneOut
<1>2. Built \subseteq Legs /\ Built' \subseteq Legs
  BY DEF TypeOK, Built, Legs, EngineAssumption, OneOut
<1>3. ASSUME NEW l \in Legs, Out(l)'
      PROVE  l \in Built /\ Intent(l)' = Intent(l) /\ Key(l)' = Key(l)
  <2>1. l \in Built
    <3>1. CASE Out(l)
      BY <3>1, OutBuilt DEF OneOut
    <3>2. CASE Sent(l)
      BY <3>2 DEF Sent
    <3>3. QED
      BY <1>1, <1>3, <3>1, <3>2 DEF LegStep
  <2>2. QED
    BY <1>1, <2>1 DEF LegStep, Intent, Key
<1>4. ASSUME NEW l \in Built', NEW m \in Built', l # m, Out(l)', Out(m)'
      PROVE  Intent(l)' # Intent(m)'
  <2>1. l \in Legs /\ m \in Legs
    BY <1>2
  <2>2. ASSUME NEW x \in Legs, NEW y \in Legs, x # y, Sent(x), Out(y)'
        PROVE  Intent(x) # Intent(y)
    <3>1. Out(y)
      BY <2>2 DEF Sent, Out
    <3>2. y \in Built
      BY <3>1, OutBuilt DEF OneOut
    <3>3. QED
      BY <2>2, <3>1, <3>2 DEF Sent, Preflight, Duplicate
  <2>3. CASE Out(l) /\ Out(m)
    BY <1>3, <1>4, <2>1, <2>3, OutBuilt DEF OneOut, OneOutPerIntent
  <2>4. (Sent(l) \/ Out(l)) /\ (Sent(m) \/ Out(m))
    BY <1>1, <1>4, <2>1 DEF LegStep
  <2>5. CASE Sent(l)
    BY <1>3, <1>4, <2>1, <2>2, <2>5
  <2>6. CASE Sent(m)
    BY <1>3, <1>4, <2>1, <2>2, <2>6
  <2>7. QED
    BY <2>3, <2>4, <2>5, <2>6
<1>5. ASSUME NEW l \in Built', Out(l)', state'[l] # "outcome_unknown"
      PROVE  Key(l)' \in submitted'
  <2>1. l \in Legs /\ l \in Built /\ Key(l)' = Key(l)
    BY <1>2, <1>3, <1>5
  <2>2. CASE Sent(l)
    BY <1>5, <2>1, <2>2 DEF Sent
  <2>3. CASE Out(l) /\ state[l] # "outcome_unknown"
    BY <1>1, <2>1, <2>3 DEF OneOut, ProviderKnows, LegStep
  <2>4. CASE Key(l) \in submitted
    BY <1>1, <2>1, <2>4 DEF LegStep
  <2>5. QED
    BY <1>1, <1>5, <2>1, <2>2, <2>3, <2>4 DEF LegStep
<1>6. QED
  BY <1>4, <1>5 DEF OneOut, OneOutPerIntent, ProviderKnows

LEMMA OneOutInit == ASSUME EngineAssumption, Init PROVE OneOut
<1>1. Built = {}
  BY DEF Init, Built
<1>2. QED
  BY <1>1, InitType DEF OneOut, OneOutPerIntent, ProviderKnows

(* Two payments that carry one funding intent (the same obligation, the    *)
(* same source of funding, the same attempt) are never out together, for   *)
(* any household and whatever order drafts, runs, retries, timeouts and    *)
(* returns come in.                                                        *)
THEOREM OneOutCorrect == Spec => []OneOutPerIntent
<1>1. Init => OneOut
  BY OneOutInit, EngineAssumption
<1>3. OneOut /\ [Next]_vars => OneOut'
  BY TypeStep, OneOutStep, EngineAssumption DEF OneOut
<1>4. OneOut => OneOutPerIntent
  BY DEF OneOut
<1>5. QED
  BY <1>1, <1>3, <1>4, PTL DEF Spec

(* Every payment the engine counts as accepted was submitted under its own *)
(* identity: a fault, a recovery or a retry never settles a payment the    *)
(* provider has not seen.                                                  *)
THEOREM ProviderKnowsCorrect == Spec => []ProviderKnows
<1>1. Init => OneOut
  BY OneOutInit, EngineAssumption
<1>3. OneOut /\ [Next]_vars => OneOut'
  BY TypeStep, OneOutStep, EngineAssumption DEF OneOut
<1>4. OneOut => ProviderKnows
  BY DEF OneOut
<1>5. QED
  BY <1>1, <1>3, <1>4, PTL DEF Spec
=============================================================================
