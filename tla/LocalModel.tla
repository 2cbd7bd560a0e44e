----------------------------- MODULE LocalModel -----------------------------
(***************************************************************************)
(* The client of the local model (ai/llm.py) that every request of the      *)
(* process shares: its connection pool, the cooldown after a failure,       *)
(* discovery at start and close at shutdown (runtime.py). Time is abstract: *)
(* a cooldown may end at any moment after it began. The observed health is  *)
(* shown to users and decides nothing; it is left out.                      *)
(***************************************************************************)
EXTENDS Naturals

VARIABLES available,       \* an endpoint and a model are configured
          pool,            \* "none" or "open": the connection pool
          using,           \* the callers inside a request to the model
          closed,          \* the client accepts no more requests
          cooling          \* a failure was seen less than a cooldown ago

modelVars == <<available, pool, using, closed, cooling>>

ModelInit ==
    /\ available = FALSE
    /\ pool = "none"
    /\ using = {}
    /\ closed = FALSE
    /\ cooling = FALSE

Connect(c) ==
    /\ ~closed
    /\ pool' = "open"
    /\ using' = using \union {c}
    /\ UNCHANGED closed

\* The last caller out closes the pool of a closed client.
Disconnect(c) ==
    /\ using' = using \ {c}
    /\ pool' = IF closed /\ using = {c} THEN "none" ELSE pool
    /\ UNCHANGED closed

\* Mutant: closing does not wait for the callers inside.
CloseAtOnce ==
    /\ ~closed
    /\ closed' = TRUE
    /\ pool' = "none"
    /\ UNCHANGED <<available, using, cooling>>

Close ==
    /\ ~closed
    /\ closed' = TRUE
    /\ pool' = IF using = {} THEN "none" ELSE pool
    /\ UNCHANGED <<available, using, cooling>>

\* A chat is sent to a model that is not cooling down, by a client that is open.
Chat(c) ==
    /\ available /\ ~cooling
    /\ Connect(c)
    /\ UNCHANGED <<available, cooling>>

ChatSucceeds(c) ==
    /\ Disconnect(c)
    /\ cooling' = FALSE
    /\ UNCHANGED available

ChatFails(c) ==
    /\ Disconnect(c)
    /\ cooling' = TRUE
    /\ UNCHANGED available

CoolingEnds ==
    /\ cooling
    /\ cooling' = FALSE
    /\ UNCHANGED <<available, pool, using, closed>>

\* Discovery replaces the unconfigured client, which nothing could have used.
Discover ==
    /\ ~available /\ ~closed
    /\ available' = TRUE
    /\ UNCHANGED <<pool, using, closed, cooling>>

ModelNext == Close \/ CoolingEnds \/ Discover

(***************************************************************************)
(* Nobody is inside a request on a pool that has been closed under it, and  *)
(* a closed client that nobody uses has given its connections back.         *)
(***************************************************************************)
PoolOpenWhileUsed ==
    /\ using /= {} => pool = "open"
    /\ closed /\ using = {} => pool = "none"
=============================================================================
