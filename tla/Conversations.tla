---------------------------- MODULE Conversations ----------------------------
(***************************************************************************)
(* One saved conversation: src/finpilot/services/conversations.py and the  *)
(* request around it, ask in src/finpilot/api/assistant_routes.py.         *)
(*                                                                         *)
(* No transaction is open while a model answers; a lease of 180 seconds    *)
(* serializes the answers.  A generation stands for the request that       *)
(* produces it, so every generation is asked for once.                     *)
(***************************************************************************)
EXTENDS Integers, FiniteSets

CONSTANTS
    Gens,            \* generations: one question and its answer each
    None

ASSUME ConversationAssumption == None \notin Gens

VARIABLES
    convo,           \* ConversationRow
    gen,             \* GenerationRow's: status, version begun at
    saved,           \* receipts in the saved result of each generation
    ask              \* what each request is doing, and what it inherited

convoVars == <<convo, gen, saved, ask>>

Init ==
    /\ convo = [present |-> TRUE, active |-> None, lease |-> "free",
                version |-> 0, context |-> None]
    /\ gen = [g \in Gens |-> [status |-> "absent", begun |-> 0]]
    /\ saved = [g \in Gens |-> {}]
    /\ ask = [g \in Gens |-> [step |-> "idle", version |-> 0, context |-> None]]

Go(g, step) == ask' = [ask EXCEPT ![g].step = step]
Free == [convo EXCEPT !.active = None, !.lease = "free"]
Judged(g, status) == gen' = [gen EXCEPT ![g].status = status]

-----------------------------------------------------------------------------
(* The request reads the conversation, and the context it will inherit.    *)
Ask(g) ==
    /\ ask[g].step = "idle"
    /\ convo.present
    /\ ask' = [ask EXCEPT ![g] = [step |-> "read", version |-> convo.version,
                                  context |-> convo.context]]
    /\ UNCHANGED <<convo, gen, saved>>

(* Mutant: a conversation that has moved on is taken. *)
ClaimableMoved(g) == convo.present /\ convo.lease # "held"
Claimable(g) ==
    /\ convo.present
    /\ convo.version = ask[g].version
    /\ convo.lease # "held"

(* The conditional update takes the lease; a pending generation that was   *)
(* abandoned becomes interrupted.  Otherwise the request is turned away.   *)
Begin(g) ==
    /\ ask[g].step = "read"
    /\ \/ /\ Claimable(g)
          /\ convo' = [convo EXCEPT !.active = g, !.lease = "held",
                                    !.version = @ + 1, !.context = g]
          /\ gen' = [h \in Gens |->
                IF h = g THEN [status |-> "pending", begun |-> convo.version + 1]
                ELSE IF gen[h].status = "pending"
                     THEN [gen[h] EXCEPT !.status = "interrupted"]
                     ELSE gen[h]]
          /\ Go(g, "thinking")
       \/ /\ ~Claimable(g)
          /\ Go(g, "over")
          /\ UNCHANGED <<convo, gen>>
    /\ UNCHANGED saved

(* Mutant: completion does not look at who holds the lease. *)
OwnsAny(g) == convo.present
Owns(g) == convo.present /\ convo.active = g

(* The saved result is the answer's own: it holds no receipt yet.          *)
Finish(g) ==
    /\ ask[g].step = "thinking"
    /\ Owns(g)
    /\ convo' = Free
    /\ Judged(g, "completed")
    /\ saved' = [saved EXCEPT ![g] = {}]
    /\ Go(g, "over")

(* The answer failed, or found on completion that it owns the lease no     *)
(* more.                                                                   *)
Fail(g) ==
    /\ ask[g].step = "thinking"
    /\ convo' = IF Owns(g) THEN Free ELSE convo
    /\ IF gen[g].status = "pending" THEN Judged(g, "failed") ELSE UNCHANGED gen
    /\ Go(g, "over")
    /\ UNCHANGED saved

(* The process of the request dies: its lease and its row stay behind.     *)
Abandon(g) ==
    /\ ask[g].step \in {"read", "thinking"}
    /\ Go(g, "over")
    /\ UNCHANGED <<convo, gen, saved>>

(* 180 seconds have passed. *)
Lapse ==
    /\ convo.lease = "held"
    /\ convo' = [convo EXCEPT !.lease = "lapsed"]
    /\ UNCHANGED <<gen, saved, ask>>

(* The conversation goes with its generations; requests learn it later.    *)
Remove ==
    /\ convo' = [Free EXCEPT !.present = FALSE]
    /\ gen' = [g \in Gens |-> [gen[g] EXCEPT !.status = "absent"]]
    /\ saved' = [g \in Gens |-> {}]
    /\ UNCHANGED ask

Writes == \E g \in Gens : Begin(g) \/ Finish(g) \/ Fail(g)
Elsewhere == Lapse \/ \E g \in Gens : Ask(g) \/ Abandon(g)

-----------------------------------------------------------------------------
GenStates == {"absent", "pending", "completed", "failed", "interrupted"}

ConversationTypes ==
    /\ convo \in [present : BOOLEAN, active : Gens \cup {None},
                  lease : {"free", "held", "lapsed"}, version : Nat,
                  context : Gens \cup {None}]
    /\ gen \in [Gens -> [status : GenStates, begun : Nat]]
    /\ DOMAIN saved = Gens
    /\ ask \in [Gens -> [step : {"idle", "read", "thinking", "over"},
                         version : Nat, context : Gens \cup {None}]]

(* A request that was overtaken never completes its answer.                *)
OvertakenNeverCompletes ==
    [][\A g \in Gens :
          gen'[g].status = "completed" /\ gen[g].status # "completed"
          => gen[g].begun = convo.version]_convoVars

(* A question replaces only the context it was asked in.                   *)
ContextInherited ==
    [][\A g \in Gens :
          convo'.context = g /\ convo.context # g
          => ask[g].context = convo.context]_convoVars
=============================================================================
