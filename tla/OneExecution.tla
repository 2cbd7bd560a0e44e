---------------------------- MODULE OneExecution ----------------------------
(***************************************************************************)
(* What a reviewed action promises.  It is on offer, in versions, until it *)
(* is withdrawn, forgotten or taken; it is taken once, and what then runs  *)
(* is the version that was on offer; its receipt names the version that    *)
(* ran.  An action that was taken may fail, and is never on offer again.   *)
(***************************************************************************)
EXTENDS Integers, Sequences

CONSTANTS Props

VARIABLES stage,     \* "new", "offered" or "closed"
          version,   \* the version that is or was on offer
          held,      \* the versions taken, whose execution is still open
          ran,       \* the versions executed, in order
          receipt    \* the version that the receipt names, 0 without one

executionVars == <<stage, version, held, ran, receipt>>

Init ==
    /\ stage = [p \in Props |-> "new"]
    /\ version = [p \in Props |-> 0]
    /\ held = [p \in Props |-> {}]
    /\ ran = [p \in Props |-> <<>>]
    /\ receipt = [p \in Props |-> 0]

Close(p) == stage[p] = "offered" /\ stage' = [stage EXCEPT ![p] = "closed"]
Ran(p, v) == ran' = [ran EXCEPT ![p] = Append(@, v)]

Offer(p) ==
    /\ stage[p] = "new" /\ stage' = [stage EXCEPT ![p] = "offered"]
    /\ version' = [version EXCEPT ![p] = 1]
    /\ UNCHANGED <<held, ran, receipt>>
Revise(p) ==
    /\ stage[p] = "offered"
    /\ version' = [version EXCEPT ![p] = @ + 1]
    /\ UNCHANGED <<stage, held, ran, receipt>>
Withdraw(p) == Close(p) /\ UNCHANGED <<version, held, ran, receipt>>

(* At home: taken, executed and receipted at once.                         *)
Settle(p) ==
    /\ Close(p) /\ Ran(p, version[p])
    /\ receipt' = [receipt EXCEPT ![p] = version[p]]
    /\ UNCHANGED <<version, held>>

(* Abroad: taken, then executed or given up, then receipted.               *)
Take(p) ==
    /\ Close(p) /\ held' = [held EXCEPT ![p] = {version[p]}]
    /\ UNCHANGED <<version, ran, receipt>>
Run(p) ==
    /\ \E v \in held[p] : Ran(p, v)
    /\ held' = [held EXCEPT ![p] = {}]
    /\ UNCHANGED <<stage, version, receipt>>
GiveUp(p) ==
    /\ held' = [held EXCEPT ![p] = {}]
    /\ UNCHANGED <<stage, version, ran, receipt>>
Record(p) ==
    /\ ran[p] # <<>>
    /\ receipt' = [receipt EXCEPT ![p] = ran[p][Len(ran[p])]]
    /\ UNCHANGED <<stage, version, held, ran>>

(* Forgotten with the conversation; what was taken before may still run.   *)
Forget ==
    /\ stage' = [p \in Props |-> "closed"]
    /\ version' = [p \in Props |-> 0]
    /\ receipt' = [p \in Props |-> 0]
    /\ UNCHANGED <<held, ran>>

Next ==
    \/ \E p \in Props : \/ Offer(p) \/ Revise(p) \/ Withdraw(p)
                        \/ Settle(p) \/ Take(p) \/ Run(p) \/ GiveUp(p) \/ Record(p)
    \/ Forget
Spec == Init /\ [][Next]_executionVars

(* What follows: nothing is executed twice, a version on offer or taken    *)
(* has not been executed, and a receipt names what was.                    *)
Once == \A p \in Props :
    /\ Len(ran[p]) <= 1
    /\ stage[p] # "closed" \/ held[p] # {} => ran[p] = <<>>
    /\ receipt[p] # 0 => ran[p] = <<receipt[p]>>
=============================================================================
