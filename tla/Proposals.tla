------------------------------ MODULE Proposals ------------------------------
(***************************************************************************)
(* Reviewed actions: src/finpilot/services/proposals.py and                *)
(* provider_actions.py.  A proposal is previewed, edited, cancelled and    *)
(* confirmed; its execution leaves one receipt.  A worker is a request     *)
(* being handled by some process; the requests of a conversation's         *)
(* generations are those of Conversations.                                 *)
(*                                                                         *)
(* A transaction of the database is one step where nothing it reads can    *)
(* change before it commits.  A local confirmation is two: its proposal's  *)
(* row is locked from Claim to Commit, and so is the household's when it   *)
(* writes, but the conversation that it looks at is not.  This is what     *)
(* PostgreSQL allows; SQLite, with one writer at a time, allows less.      *)
(***************************************************************************)
EXTENDS Conversations, Sequences

CONSTANTS
    Workers,
    Props,
    Kinds,           \* \subseteq {"write", "private", "bank", "import"}
    MaxVersion,      \* bound: edits of a proposal
    MaxRequests,     \* bound: requests the workers handle
    MaxEvents        \* bound: changes of the world around them

Local == {"write", "private"}
Remote == {"bank", "import"}
Guarded == {"write", "bank"}     \* need an owner or an approver

ASSUME ProposalAssumption ==
    /\ Kinds \subseteq Local \cup Remote
    /\ None \notin Props \cup Nat \cup [version : Nat, revision : Nat]
    /\ MaxVersion \in Nat \ {0} /\ MaxRequests \in Nat /\ MaxEvents \in Nat

VARIABLES
    house,           \* the household's revision, its planning day, the role
    prop,            \* ActionProposalRow's
    receipt,         \* ActionReceiptRow's
    calls, effects,  \* ghosts: remote calls made, changes made, per proposal
    pc, task,        \* what each worker is doing
    requests, events

propVars == <<prop, receipt>>
ghosts == <<calls, effects>>
vars == <<convoVars, house, propVars, ghosts, pc, task, requests, events>>

NoTask == [p |-> None, v |-> 0, seen |-> 0, kind |-> None, revision |-> 0,
           day |-> 0, gen |-> None]
Blank == [status |-> "none", kind |-> None, version |-> 0, revision |-> 0,
          day |-> 0, expired |-> FALSE, gen |-> None]

PInit ==
    /\ Init
    /\ house = [revision |-> 1, day |-> 0, writer |-> TRUE]
    /\ prop = [p \in Props |-> Blank]
    /\ receipt = [p \in Props |-> None]
    /\ calls = [p \in Props |-> 0]
    /\ effects = [p \in Props |-> <<>>]
    /\ pc = [w \in Workers |-> "idle"]
    /\ task = [w \in Workers |-> NoTask]
    /\ requests = 0 /\ events = 0

-----------------------------------------------------------------------------
(* Who holds what. *)
Idle == {"idle", "refused", "answered"}
Claimed == {w \in Workers : pc[w] = "claimed"}
RowFree(p) == \A w \in Claimed : task[w].p # p
HouseFree == \A w \in Claimed : task[w].kind # "write"

Arrive(w) == pc[w] \in Idle /\ requests < MaxRequests
                            /\ requests' = requests + 1
At(w, step) == pc' = [pc EXCEPT ![w] = step]
Take(w, t) == task' = [task EXCEPT ![w] = t]
Over(w, end) == At(w, end) /\ Take(w, NoTask)
Offered(p, v) == prop[p].status = "proposed" /\ prop[p].version = v
Exists(p) == prop[p].status # "none" /\ convo.present
Put(p, row) == prop' = [prop EXCEPT ![p] = row]

-----------------------------------------------------------------------------
(* ProposalService.create and .edit: the preview reads the workspace in a  *)
(* transaction of its own.                                                 *)

MayPropose(kind) == kind \in Guarded => house.writer
Preview(p, v, kind, g) ==
    [p |-> p, v |-> v, seen |-> v, kind |-> kind, revision |-> house.revision,
     day |-> house.day, gen |-> g]

(* A generation proposes while it thinks; a form proposes for nobody.      *)
Author(g) ==
    g # None => /\ ask[g].step = "thinking"
                /\ \A p \in Props : prop[p].gen # g
                /\ \A x \in Workers : task[x].gen # g
Draft(w, p, kind, g) ==
    /\ Arrive(w)
    /\ convo.present /\ Author(g) /\ MayPropose(kind)
    /\ prop[p].status = "none" /\ \A x \in Workers : task[x].p # p
    /\ Take(w, Preview(p, 1, kind, g))
    /\ At(w, "drafting")
    /\ UNCHANGED <<convoVars, house, propVars, ghosts>>

Create(w) ==
    /\ pc[w] = "drafting"
    /\ LET t == task[w] IN
       prop' = IF convo.present
               THEN [prop EXCEPT ![t.p] =
                        [status |-> "proposed", kind |-> t.kind, version |-> 1,
                         revision |-> t.revision, day |-> t.day,
                         expired |-> FALSE, gen |-> t.gen]]
               ELSE prop
    /\ Over(w, "idle")
    /\ UNCHANGED <<convoVars, house, receipt, ghosts, requests>>

StartEdit(w, p, kind) ==
    /\ Arrive(w)
    /\ prop[p].version < MaxVersion /\ MayPropose(kind)
    /\ Exists(p) /\ Offered(p, prop[p].version)
    /\ Take(w, Preview(p, prop[p].version, kind, prop[p].gen))
    /\ At(w, "editing")
    /\ UNCHANGED <<convoVars, house, propVars, ghosts>>

SaveEdit(w) ==
    /\ pc[w] = "editing"
    /\ RowFree(task[w].p)
    /\ LET t == task[w] IN
       IF Exists(t.p) /\ Offered(t.p, t.v)
       THEN Put(t.p, [prop[t.p] EXCEPT !.kind = t.kind, !.version = t.v + 1,
                          !.revision = t.revision, !.day = t.day,
                          !.expired = FALSE])
       ELSE UNCHANGED prop
    /\ Over(w, "idle")
    /\ UNCHANGED <<convoVars, house, receipt, ghosts, requests>>

(* ProposalService.cancel is one transaction.                              *)
Cancel(p) ==
    /\ Exists(p) /\ Offered(p, prop[p].version)
    /\ RowFree(p)
    /\ requests < MaxRequests /\ requests' = requests + 1
    /\ Put(p, [prop[p] EXCEPT !.status = "canceled"])
    /\ UNCHANGED <<convoVars, house, receipt, ghosts, pc, task>>

(* ProposalService.get and .list: an operation that ran out of its lease   *)
(* is reported as unknown, and by nobody but a reader.  Mutant: it is      *)
(* offered again.                                                          *)
SweptRetry(row) ==
    IF row.status = "running" /\ row.expired
    THEN [row EXCEPT !.status = "proposed"] ELSE row
Swept(row) ==
    IF row.status = "running" /\ row.expired
    THEN [row EXCEPT !.status = "outcome_unknown"] ELSE row
Get(p) == Put(p, Swept(prop[p]))
Sweep(p) ==
    /\ Swept(prop[p]) # prop[p]
    /\ Get(p)
    /\ UNCHANGED <<convoVars, house, receipt, ghosts, pc, task, requests>>

-----------------------------------------------------------------------------
(* ProposalService.confirm and confirm_provider: the client names the      *)
(* version on its screen.                                                  *)
Confirm(w, p, v) ==
    /\ Arrive(w)
    /\ Exists(p)
    /\ Get(p)
    /\ IF receipt[p] # None
       THEN Over(w, IF prop[p].version = v THEN "answered" ELSE "refused")
       ELSE /\ Take(w, [NoTask EXCEPT
                       !.p = p, !.v = v, !.seen = prop[p].version,
                       !.kind = prop[p].kind, !.revision = prop[p].revision])
            /\ At(w, IF prop[p].kind \in Local THEN "confirming" ELSE "checking")
    /\ UNCHANGED <<convoVars, house, receipt, ghosts>>

(* What check and the caller around it make of a confirmation.  Mutants:   *)
(* the version of the proposal, or its status, is ignored.                 *)
StaleAnyVersion(p, v) == prop[p].status # "proposed" \/ prop[p].expired
StaleAnyStatus(p, v) == prop[p].version # v \/ prop[p].expired
Stale(p, v) == ~Offered(p, v) \/ prop[p].expired
Answering == convo.active # None

Verdict(p, v) ==
    IF ~Exists(p) THEN "refused"
    ELSE IF receipt[p] # None
         THEN IF receipt[p].version = v THEN "answered" ELSE "conflict"
    ELSE IF Stale(p, v) THEN "conflict"
    ELSE IF Answering THEN "refused"
    ELSE "free"

(* Runtime.transaction refuses a lost role, then a moved revision, before  *)
(* the proposal is looked at.                                              *)
Previewed(p) == prop[p].revision = house.revision /\ prop[p].day = house.day
LocalVerdict(w) ==
    LET t == task[w] IN
    IF t.kind = "write" /\ ~house.writer THEN "refused"
    ELSE IF t.kind = "write" /\ t.revision # house.revision THEN "conflict"
    ELSE IF Verdict(t.p, t.v) = "free" /\ t.kind = "write" /\ ~Previewed(t.p)
         THEN "conflict"
    ELSE Verdict(t.p, t.v)

Claim(w) ==
    /\ pc[w] = "confirming"
    /\ RowFree(task[w].p)
    /\ task[w].kind = "write" => HouseFree
    /\ CASE LocalVerdict(w) = "free" ->
               \/ At(w, "claimed") /\ Take(w, [task[w] EXCEPT !.day = house.day])
               \/ Over(w, "refused")          \* the operations fail
         [] LocalVerdict(w) = "conflict" -> At(w, "conflicted") /\ UNCHANGED task
         [] OTHER -> Over(w, LocalVerdict(w))
    /\ UNCHANGED <<convoVars, house, propVars, ghosts, requests>>

(* ProposalService.receipt: the receipt joins the saved answer that        *)
(* proposed it, once that is complete.                                     *)
Attached(p) ==
    IF prop[p].gen # None /\ gen[prop[p].gen].status = "completed"
    THEN [saved EXCEPT ![prop[p].gen] = @ \cup {p}] ELSE saved
Succeeds(p, revision) ==
    /\ Put(p, [prop[p] EXCEPT !.status = "succeeded"])
    /\ receipt' = [receipt EXCEPT ![p] =
                      [version |-> prop[p].version, revision |-> revision]]
    /\ saved' = Attached(p)
    /\ UNCHANGED <<convo, gen, ask>>
Effect(t, version) ==
    effects' = [effects EXCEPT ![t.p] = Append(@,
        [asked |-> t.v, did |-> version, kind |-> t.kind,
         revision |-> house.revision, day |-> t.day])]

(* The changes and the receipt commit together; a failure undoes the claim. *)
Commit(w) ==
    /\ pc[w] = "claimed"
    /\ LET t == task[w] IN
       \/ /\ Effect(t, prop[t.p].version)
          /\ IF t.kind = "write"
             THEN /\ house' = [house EXCEPT !.revision = @ + 1]
                  /\ Succeeds(t.p, house.revision + 1)
             ELSE Succeeds(t.p, t.revision) /\ UNCHANGED house
          /\ Over(w, "answered")
       \/ Over(w, "refused") /\ UNCHANGED <<convoVars, house, propVars, effects>>
    /\ UNCHANGED <<calls, requests>>

(* A conflict looks for the receipt of a confirmation that was faster.     *)
(* Mutant: it is passed on at once. *)
LookNowhere(w) == FALSE
Found(w) == receipt[task[w].p] # None /\ prop[task[w].p].version = task[w].v
Look(w) ==
    /\ pc[w] = "conflicted"
    /\ Get(task[w].p)
    /\ Over(w, IF Found(w) THEN "answered" ELSE "refused")
    /\ UNCHANGED <<convoVars, house, receipt, ghosts, requests>>

-----------------------------------------------------------------------------
(* provider_actions: a durable claim around external work. *)

(* The source of an import may not be approved any more.                   *)
Check(w) ==
    /\ pc[w] = "checking"
    /\ \/ /\ house.revision = task[w].revision
          /\ At(w, "checked") /\ UNCHANGED task
       \/ /\ house.revision = task[w].revision => task[w].kind = "import"
          /\ Over(w, "refused")
    /\ UNCHANGED <<convoVars, house, propVars, ghosts, requests>>

Starts(p) == Put(p, [prop[p] EXCEPT !.status = "running", !.expired = FALSE])
ClaimRemote(w) ==
    /\ pc[w] = "checked"
    /\ RowFree(task[w].p)
    /\ LET t == task[w]
           verdict == Verdict(t.p, t.v)
       IN  IF verdict = "free" /\ (t.kind = "bank" => house.writer)
           THEN Starts(t.p) /\ At(w, "remote") /\ UNCHANGED task
           ELSE /\ Over(w, IF verdict = "answered" THEN verdict ELSE "refused")
                /\ UNCHANGED prop
    /\ UNCHANGED <<convoVars, house, receipt, ghosts, requests>>

(* Mutant: a failure is taken for a success. *)
FailedIgnored(w) == At(w, "completing")
Failed(w) == At(w, "failing")
(* The provider is called; the call may fail before or after it worked.    *)
Call(w) ==
    /\ pc[w] = "remote"
    /\ \/ calls' = [calls EXCEPT ![task[w].p] = @ + 1] /\ At(w, "applying")
       \/ calls' = [calls EXCEPT ![task[w].p] = @ + 1] /\ Failed(w)
       \/ UNCHANGED calls /\ Failed(w)
    /\ UNCHANGED <<convoVars, house, propVars, effects, task, requests>>

(* A bank's answer is saved by a transaction of the household.  What the   *)
(* operation does was read before the claim.                               *)
Apply(w) ==
    /\ pc[w] = "applying"
    /\ \/ /\ task[w].kind = "bank"
          /\ HouseFree /\ house.writer /\ house.revision = task[w].revision
          /\ house' = [house EXCEPT !.revision = @ + 1]
          /\ Effect(task[w], task[w].seen)
          /\ At(w, "completing")
       \/ /\ task[w].kind = "import"
          /\ Effect(task[w], task[w].seen)
          /\ At(w, "completing")
          /\ UNCHANGED house
       \/ Failed(w) /\ UNCHANGED <<house, effects>>
    /\ UNCHANGED <<convoVars, propVars, calls, task, requests>>

(* complete: it looks at nothing but the row.  The answer to its commit    *)
(* may be lost.                                                            *)
Complete(w) ==
    /\ pc[w] = "completing"
    /\ LET t == task[w]
           revision == IF t.kind = "bank" THEN t.revision + 1 ELSE t.revision
       IN  \/ /\ Exists(t.p)
              /\ Succeeds(t.p, revision)
              /\ \/ Over(w, "answered")
                 \/ Failed(w) /\ UNCHANGED task
           \/ /\ Failed(w)
              /\ UNCHANGED <<convoVars, propVars, task>>
    /\ UNCHANGED <<house, ghosts, requests>>

Unknown(p) == Put(p, [prop[p] EXCEPT !.status = "outcome_unknown"])
Uncertain(w) ==
    /\ pc[w] = "failing"
    /\ IF Exists(task[w].p) THEN Unknown(task[w].p) ELSE UNCHANGED prop
    /\ Over(w, "refused")
    /\ UNCHANGED <<convoVars, house, receipt, ghosts, requests>>

-----------------------------------------------------------------------------
(* delete_private on the conversation itself: what it reads is not locked  *)
(* when it deletes.                                                        *)
Pending(p) == prop[p].status = "running" /\ ~prop[p].expired
StartDelete(w) ==
    /\ Arrive(w)
    /\ convo.present
    /\ \A p \in Props : ~Pending(p)
    /\ At(w, "deleting")
    /\ UNCHANGED <<convoVars, house, propVars, ghosts, task>>

Delete(w) ==
    /\ pc[w] = "deleting"
    /\ Claimed = {}
    /\ Remove
    /\ prop' = [p \in Props |-> Blank]
    /\ receipt' = [p \in Props |-> None]
    /\ Over(w, "idle")
    /\ UNCHANGED <<house, ghosts, requests>>

-----------------------------------------------------------------------------
(* Around the requests: other writers, an operator, the calendar, crashes. *)
World ==
    /\ events < MaxEvents /\ events' = events + 1
    /\ UNCHANGED <<convoVars, propVars, ghosts, requests>>
    /\ \/ /\ HouseFree
          /\ \/ house' = [house EXCEPT !.revision = @ + 1]
             \/ house' = [house EXCEPT !.writer = ~@]
          /\ UNCHANGED <<pc, task>>
       \/ house' = [house EXCEPT !.day = @ + 1] /\ UNCHANGED <<pc, task>>
       \/ \E w \in Workers : Over(w, "idle") /\ pc[w] \notin Idle /\ UNCHANGED house

Expire(p) ==
    /\ prop[p].status \in {"proposed", "running"} /\ ~prop[p].expired
    /\ Put(p, [prop[p] EXCEPT !.expired = TRUE])
    /\ UNCHANGED <<convoVars, house, receipt, ghosts, pc, task,
                   requests, events>>

Talk ==
    /\ Writes \/ Elsewhere
    /\ UNCHANGED <<house, propVars, ghosts, pc, task, requests, events>>

Step(w) ==
    /\ UNCHANGED events
    /\ \/ Create(w) \/ SaveEdit(w)
       \/ Claim(w) \/ Commit(w) \/ Look(w)
       \/ Check(w) \/ ClaimRemote(w) \/ Call(w) \/ Apply(w) \/ Complete(w)
       \/ Uncertain(w)
       \/ Delete(w)
Request ==
    /\ UNCHANGED events
    /\ \/ \E w \in Workers, p \in Props, kind \in Kinds :
             \/ \E g \in Gens \cup {None} : Draft(w, p, kind, g)
             \/ StartEdit(w, p, kind)
       \/ \E w \in Workers, p \in Props : \E v \in 1..prop[p].version : Confirm(w, p, v)
       \/ \E w \in Workers : StartDelete(w)
       \/ \E p \in Props : Cancel(p)
Next ==
    \/ \E w \in Workers : Step(w)
    \/ Request
    \/ UNCHANGED events /\ \E p \in Props : Sweep(p)
    \/ \E p \in Props : Expire(p)
    \/ Talk
    \/ World

Spec == PInit /\ [][Next]_vars

-----------------------------------------------------------------------------
Statuses == {"none", "proposed", "running", "succeeded", "outcome_unknown", "canceled"}
Steps == Idle \cup {"drafting", "editing", "confirming", "claimed", "conflicted",
                    "checking", "checked", "remote", "applying", "completing",
                    "failing", "deleting"}
Rows == [status : Statuses, kind : Kinds \cup {None}, version : Nat,
         revision : Nat, day : Nat, expired : BOOLEAN, gen : Gens \cup {None}]
Tasks == [p : Props \cup {None}, v : Nat, seen : Nat, kind : Kinds \cup {None},
          revision : Nat, day : Nat, gen : Gens \cup {None}]
Effects == [asked : Nat, did : Nat, kind : Kinds, revision : Nat, day : Nat]

TypeOK ==
    /\ ConversationTypes /\ saved \in [Gens -> SUBSET Props]
    /\ house \in [revision : Nat, day : Nat, writer : BOOLEAN]
    /\ prop \in [Props -> Rows]
    /\ receipt \in [Props -> [version : Nat, revision : Nat] \cup {None}]
    /\ calls \in [Props -> Nat]
    /\ effects \in [Props -> Seq(Effects)]
    /\ pc \in [Workers -> Steps]
    /\ task \in [Workers -> Tasks]
    /\ requests \in Nat /\ events \in Nat

-----------------------------------------------------------------------------
(* The proposals as what they promise (OneExecution): a provider's         *)
(* operation is open from its claim until it is applied or fails.          *)
Stage(p) == CASE ~convo.present -> "closed"
              [] convo.present /\ prop[p].status = "none" -> "new"
              [] convo.present /\ prop[p].status = "proposed" -> "offered"
              [] OTHER -> "closed"
stages == [p \in Props |-> Stage(p)]
versions == [p \in Props |-> prop[p].version]
Holding == {"remote", "applying"}
Holders(p) == {w \in Workers : pc[w] \in Holding /\ task[w].p = p}
holdings == [p \in Props |-> {task[w].v : w \in Holders(p)}]
executions == [p \in Props |-> [i \in DOMAIN effects[p] |-> effects[p][i].did]]
receipts == [p \in Props |-> IF receipt[p] = None THEN 0 ELSE receipt[p].version]

Execution == INSTANCE OneExecution
             WITH stage <- stages, version <- versions, held <- holdings,
                  ran <- executions, receipt <- receipts

(* However requests, retries, edits, deletions and crashes interleave, a   *)
(* proposal goes the way of a single execution: offered, taken once, run   *)
(* as it was on offer, receipted as it ran, and never offered again.       *)
ExecutionSpec == Execution!Spec

(* A proposal is executed at most once, by whichever request, process or   *)
(* retry: no provider is called twice for it and nothing is applied twice; *)
(* while it can be confirmed, or when it was canceled, it has done nothing.*)
NeverOfferedAgain ==
    \A p \in Props :
        convo.present /\ prop[p].status \in {"proposed", "canceled"} =>
            calls[p] = 0 /\ effects[p] = <<>>
ExecutedOnce ==
    /\ \A p \in Props : calls[p] <= 1 /\ Len(effects[p]) <= 1
    /\ NeverOfferedAgain

(* What ran is the version that was confirmed; a change of the workspace   *)
(* ran on the very revision, and a financial one on the planning day, that *)
(* its preview showed.                                                     *)
ReviewedExactly ==
    \A p \in Props : \A i \in DOMAIN effects[p] :
        LET e == effects[p][i] IN
        /\ e.asked = e.did
        /\ convo.present =>
              /\ e.did = prop[p].version
              /\ e.kind \in Guarded => e.revision = prop[p].revision
              /\ e.kind = "write" => e.day = prop[p].day

(* A receipt tells of a change that was made, and of the revision it made; *)
(* a local change is never without its receipt, nor is the completed       *)
(* answer that proposed it, however the two commits race.                  *)
ReceiptsTrue ==
    convo.present =>
        \A p \in Props :
            /\ receipt[p] # None =>
                  /\ Len(effects[p]) = 1
                  /\ receipt[p].version = effects[p][1].did
                  /\ effects[p][1].kind \in Guarded =>
                        receipt[p].revision = effects[p][1].revision + 1
            /\ Len(effects[p]) = 1 /\ effects[p][1].kind \in Local =>
                  receipt[p] # None
            /\ /\ receipt[p] # None /\ prop[p].gen # None
               /\ gen[prop[p].gen].status = "completed"
               => p \in saved[prop[p].gen]

Refused(w, steps) == pc[w] \in steps /\ pc'[w] = "refused"
Done(t) == receipt[t.p] # None /\ receipt[t.p].version = t.v
(* A local confirmation is not refused when its version has been executed: *)
(* a duplicate gets the original receipt, however the two race.            *)
DuplicatesAnswered ==
    [][\A w \in Workers :
          /\ Refused(w, {"confirming", "claimed", "conflicted"})
          /\ house.writer
          => ~Done(task[w])]_vars

(* A duplicate confirmation of a provider operation gets the receipt too.  *)
ProviderDuplicatesAnswered ==
    [][\A w \in Workers : Refused(w, {"checking", "checked"}) => ~Done(task[w])]_vars

(* A conversation is not deleted under a pending connection operation.     *)
DeleteWaits ==
    [][convo.present /\ ~convo'.present => \A p \in Props : ~Pending(p)]_vars

(* Handlers go on, answers end unless their process dies, and time passes. *)
Fairness ==
    /\ \A w \in Workers : WF_vars(Step(w))
    /\ \A g \in Gens : WF_vars(Talk /\ (Finish(g) \/ Fail(g)))
    /\ WF_vars(Talk /\ Lapse)
FairSpec == Spec /\ Fairness

(* A confirmation told to wait for the current answer can wait for it: no  *)
(* answer is current for ever.                                             *)
WaitEnds == \A g \in Gens : convo.active = g ~> convo.active # g
=============================================================================
