--------------------------- MODULE HouseholdLedger ---------------------------
(***************************************************************************)
(* What a household's store promises: a ledger that is a sequence of       *)
(* revisions, each the edit of one record of the revision before it, with  *)
(* an audit entry for each and a projection that is always the last.       *)
(***************************************************************************)
EXTENDS Integers, Sequences

CONSTANTS Tx, Values, Users, None

VARIABLES history, projection, audit

ledgerVars == <<history, projection, audit>>

Books == [Tx -> Values \cup {None}]
Newest == history[Len(history)]

Init ==
    /\ \E b \in Books : history = <<b>> /\ projection = b
    /\ audit = <<>>

Append1(u, t, v) ==
    /\ history' = Append(history, [Newest EXCEPT ![t] = v])
    /\ projection' = [Newest EXCEPT ![t] = v]
    /\ audit' = Append(audit, [actor |-> u, revision |-> Len(history) + 1])

Next == \E u \in Users, t \in Tx, v \in Values \cup {None} : Append1(u, t, v)
Spec == Init /\ [][Next]_ledgerVars
=============================================================================
