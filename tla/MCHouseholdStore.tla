--------------------------- MODULE MCHouseholdStore ---------------------------
(* Two processes, one with two threads, serving one user. *)
EXTENDS HouseholdStore, TLC

CONSTANTS p1, p2, w1, w2, w3, t1, a

MCRoles == {"owner", "viewer", None}
MCFirstBook == t1 :> a
MCProcessOf == [w \in Workers |-> IF w = w3 THEN p2 ELSE p1]
(* The threads of one process are alike. *)
MCThreads == Permutations({w1, w2})
=============================================================================
