------------------------- MODULE MCExecutionEngine -------------------------
(* The payment engine on a small household: a checking account that pays a *)
(* bill and a savings goal.                                                *)
EXTENDS ExecutionEngine, TLC

CONSTANTS checking, savings, rent, rentDue, goalDate, goalLater, payRent, save, standing

MCBillOf == rentDue :> rent
MCDue == rentDue :> 2
MCDueMore == rentDue :> 4
MCDateOf == [o \in Occurrences |-> 0]
MCDateLater == rentDue :> 0 @@ goalDate :> 0 @@ goalLater :> 1
MCPayee == rent :> None
MCBillSource == rent :> checking
MCSavedSource == rent :> savings
MCPolicyBill == [p \in Policies |-> IF p = payRent THEN rent ELSE None]
MCPolicySource == [p \in Policies |-> checking]
MCEitherSource == [p \in Policies |-> IF p = payRent THEN savings ELSE checking]
MCPolicyDest == [p \in Policies |-> IF p = save THEN savings ELSE checking]
MCPolicyReserve == [p \in Policies |-> IF p = save THEN savings ELSE None]
MCPolicyDates == [p \in Policies |-> IF p = save THEN {goalDate} ELSE {}]
MCPolicyMonths == [p \in Policies |-> IF p = save THEN {goalDate, goalLater} ELSE {}]
MCNoDependencies == [l \in Legs |-> {}]
MCChained == [l \in Legs |-> IF l = 2 THEN {1} ELSE {}]
MCMonthOf(d) == d
MCInitAvailable == checking :> 3 @@ savings :> 1
MCRich == checking :> 5 @@ savings :> 1
MCSaved == checking :> 4 @@ savings :> 4
MCInitProtected == checking :> 0 @@ savings :> 1
MCProtectedCash == checking :> 0 @@ savings :> 2
(* The households of the runs are those that the proof of Covered is about. *)
ASSUME CoverHolds == Solvent /\ GoalRulesFund
Twins == Permutations(Mandates \ {FirstMandate})
=============================================================================
