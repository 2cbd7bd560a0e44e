--------------------------- MODULE Proposals_proofs ---------------------------
(***************************************************************************)
(* What is proved of Proposals for any workers, proposals, questions and   *)
(* bounds: an action runs at most once, as it was reviewed, its receipt is *)
(* true and is found by a duplicate, nothing that may have happened is     *)
(* offered again, and an answer that was overtaken never completes.  Taken *)
(* together, they implement OneExecution, which executes nothing twice.    *)
(***************************************************************************)
EXTENDS Proposals, TLAPS

-----------------------------------------------------------------------------
(* The conversation. The answer that owns it began as its version; what a  *)
(* question inherited is the context of the version it read.               *)
Leased ==
    /\ \A g \in Gens : convo.active = g => gen[g].begun = convo.version
    /\ \A g \in Gens : ask[g].step = "read" =>
          /\ ask[g].version <= convo.version
          /\ ask[g].version = convo.version => ask[g].context = convo.context

Conversing == ConversationTypes /\ Leased

(* What a step of the conversation may do.                                 *)
Overtaking ==
    \A g \in Gens :
        gen'[g].status = "completed" /\ gen[g].status # "completed"
        => gen[g].begun = convo.version
Replacing ==
    \A g \in Gens :
        convo'.context = g /\ convo.context # g => ask[g].context = convo.context

LEMMA FreeConvo ==
    ASSUME Conversing
    PROVE  /\ Free.present = convo.present /\ Free.active = None /\ Free.lease = "free"
           /\ Free.version = convo.version /\ Free.context = convo.context
BY DEF Free, Conversing, ConversationTypes

Asks == [step : {"idle", "read", "thinking", "over"}, version : Nat,
         context : Gens \cup {None}]
Answers == [status : GenStates, begun : Nat]

LEMMA Goes ==
    ASSUME ConversationTypes, NEW g \in Gens,
           NEW step \in {"idle", "read", "thinking", "over"}, Go(g, step)
    PROVE  /\ ask' \in [Gens -> Asks] /\ ask'[g].step = step
           /\ \A h \in Gens : h # g => ask'[h] = ask[h]
BY DEF ConversationTypes, Asks, Go

LEMMA Judges ==
    ASSUME ConversationTypes, NEW g \in Gens, NEW status \in GenStates, Judged(g, status)
    PROVE  /\ gen' \in [Gens -> Answers]
           /\ gen'[g].status = status /\ gen'[g].begun = gen[g].begun
           /\ \A h \in Gens : h # g => gen'[h] = gen[h]
BY DEF ConversationTypes, Answers, Judged

LEMMA BeginKeeps ==
    ASSUME Conversing, NEW g \in Gens, Begin(g)
    PROVE  Conversing' /\ Overtaking /\ Replacing
<1>1. ConversationTypes /\ Leased /\ ask[g].step = "read" /\ saved' = saved
  BY DEF Conversing, Begin
<1>2. CASE Claimable(g) /\ Go(g, "thinking")
  <2>1. /\ convo' = [convo EXCEPT !.active = g, !.lease = "held",
                                  !.version = @ + 1, !.context = g]
        /\ gen' = [h \in Gens |->
                IF h = g THEN [status |-> "pending", begun |-> convo.version + 1]
                ELSE IF gen[h].status = "pending"
                     THEN [gen[h] EXCEPT !.status = "interrupted"]
                     ELSE gen[h]]
        /\ Go(g, "thinking")
        /\ convo.version = ask[g].version
    BY <1>2 DEF Begin, Claimable
  <2>2. convo.version \in Nat /\ g # None
    BY <1>1, ConversationAssumption DEF ConversationTypes
  <2>3. /\ convo' \in [present : BOOLEAN, active : Gens \cup {None},
                  lease : {"free", "held", "lapsed"}, version : Nat, context : Gens \cup {None}]
        /\ convo'.active = g /\ convo'.version = convo.version + 1 /\ convo'.context = g
    <3> DEFINE next == convo.version + 1
    <3>1. next \in Nat
      BY <2>2
    <3>2. convo' = [convo EXCEPT !.active = g, !.lease = "held", !.version = next, !.context = g]
      BY <2>1
    <3> HIDE DEF next
    <3>3. /\ convo' \in [present : BOOLEAN, active : Gens \cup {None},
                  lease : {"free", "held", "lapsed"}, version : Nat, context : Gens \cup {None}]
          /\ convo'.active = g /\ convo'.version = next /\ convo'.context = g
      BY <1>1, <3>1, <3>2 DEF ConversationTypes
    <3>4. QED
      BY <3>3 DEF next
  <2>4. \A h \in Gens : /\ gen'[h] \in Answers
                        /\ gen'[h].status # "completed" \/ gen'[h].status = gen[h].status
    BY <1>1, <2>1, <2>2 DEF ConversationTypes, Answers, GenStates
  <2>5. /\ gen' \in [Gens -> Answers]
        /\ gen'[g].begun = convo.version + 1
    BY <2>1, <2>4
  <2>6. /\ ask' \in [Gens -> Asks]
        /\ ask'[g].step = "thinking"
        /\ \A h \in Gens : h # g => ask'[h] = ask[h]
    BY <1>1, <2>1, Goes
  <2>7. ConversationTypes'
    BY <1>1, <2>3, <2>5, <2>6 DEF ConversationTypes, Asks, Answers
  <2>8. Leased'
    <3>1. \A h \in Gens : ask[h].version \in Nat
      BY <1>1 DEF ConversationTypes
    <3>2. QED
      BY <1>1, <2>2, <2>3, <2>5, <2>6, <3>1 DEF Leased
  <2>9. Overtaking /\ Replacing
    <3>1. ask[g].context = convo.context
      BY <1>1, <2>1 DEF Leased
    <3>2. QED
      BY <2>3, <2>4, <3>1 DEF Overtaking, Replacing
  <2>10. QED
    BY <2>7, <2>8, <2>9 DEF Conversing
<1>3. CASE Go(g, "over") /\ UNCHANGED <<convo, gen>>
  <2>1. /\ ask' \in [Gens -> Asks]
        /\ ask'[g].step = "over"
        /\ \A h \in Gens : h # g => ask'[h] = ask[h]
    BY <1>1, <1>3, Goes
  <2>2. ConversationTypes'
    BY <1>1, <1>3, <2>1 DEF ConversationTypes, Asks, Answers
  <2>3. QED
    BY <1>1, <1>3, <2>1, <2>2 DEF Conversing, Leased, Overtaking, Replacing
<1>4. QED
  BY <1>2, <1>3 DEF Begin

LEMMA FinishKeeps ==
    ASSUME Conversing, NEW g \in Gens, Finish(g)
    PROVE  Conversing' /\ Overtaking /\ Replacing
<1>1. /\ ConversationTypes /\ Leased /\ convo.active = g
      /\ convo' = Free /\ Judged(g, "completed")
      /\ saved' = [saved EXCEPT ![g] = {}] /\ Go(g, "over")
  BY DEF Conversing, Finish, Owns
<1>2. /\ Free \in [present : BOOLEAN, active : Gens \cup {None},
                  lease : {"free", "held", "lapsed"}, version : Nat, context : Gens \cup {None}]
      /\ Free.active = None /\ Free.version = convo.version /\ Free.context = convo.context
  BY <1>1 DEF Free, ConversationTypes
<1>3. /\ gen' \in [Gens -> Answers]
      /\ \A h \in Gens : h # g => gen'[h] = gen[h]
  BY <1>1, Judges DEF GenStates
<1>4. /\ ask' \in [Gens -> Asks]
      /\ ask'[g].step = "over" /\ \A h \in Gens : h # g => ask'[h] = ask[h]
  BY <1>1, Goes
<1>5. ConversationTypes'
  BY <1>1, <1>2, <1>3, <1>4 DEF ConversationTypes, Asks, Answers
<1>6. Leased'
  BY <1>1, <1>2, <1>4, ConversationAssumption DEF Leased
<1>7. Overtaking /\ Replacing
  BY <1>1, <1>2, <1>3 DEF Leased, Overtaking, Replacing
<1>8. QED
  BY <1>5, <1>6, <1>7 DEF Conversing

LEMMA FailKeeps ==
    ASSUME Conversing, NEW g \in Gens, Fail(g)
    PROVE  Conversing' /\ Overtaking /\ Replacing
<1>1. /\ ConversationTypes /\ Leased
      /\ convo' = Free \/ convo' = convo
      /\ Judged(g, "failed") \/ gen' = gen
      /\ saved' = saved /\ Go(g, "over")
  BY DEF Conversing, Fail
<1>2. /\ Free \in [present : BOOLEAN, active : Gens \cup {None},
                  lease : {"free", "held", "lapsed"}, version : Nat, context : Gens \cup {None}]
      /\ Free.active = None /\ Free.version = convo.version /\ Free.context = convo.context
  BY <1>1 DEF Free, ConversationTypes
<1>3. /\ gen' \in [Gens -> Answers]
      /\ \A h \in Gens : gen'[h].begun = gen[h].begun
                         /\ (gen'[h].status = "completed" => gen[h].status = "completed")
  <2>1. gen \in [Gens -> Answers]
    BY <1>1 DEF ConversationTypes, Answers
  <2>2. QED
    BY <1>1, <2>1, Judges DEF GenStates
<1>4. /\ ask' \in [Gens -> Asks]
      /\ ask'[g].step = "over" /\ \A h \in Gens : h # g => ask'[h] = ask[h]
  BY <1>1, Goes
<1>5. ConversationTypes'
  BY <1>1, <1>2, <1>3, <1>4 DEF ConversationTypes, Asks, Answers
<1>6. Leased'
  BY <1>1, <1>2, <1>3, <1>4, ConversationAssumption DEF Leased
<1>7. Overtaking /\ Replacing
  BY <1>1, <1>2, <1>3 DEF Overtaking, Replacing
<1>8. QED
  BY <1>5, <1>6, <1>7 DEF Conversing

LEMMA ElsewhereKeeps ==
    ASSUME Conversing, Elsewhere
    PROVE  Conversing' /\ Overtaking /\ Replacing
<1>1. ConversationTypes /\ Leased
  BY DEF Conversing
<1>2. CASE Lapse
  <2>1. /\ convo' \in [present : BOOLEAN, active : Gens \cup {None},
                  lease : {"free", "held", "lapsed"}, version : Nat, context : Gens \cup {None}]
        /\ convo'.active = convo.active /\ convo'.version = convo.version
        /\ convo'.context = convo.context /\ UNCHANGED <<gen, saved, ask>>
    BY <1>1, <1>2 DEF Lapse, ConversationTypes
  <2>2. QED
    BY <1>1, <2>1 DEF Conversing, ConversationTypes, Leased, Overtaking, Replacing
<1>3. ASSUME NEW g \in Gens, Ask(g)
      PROVE  Conversing' /\ Overtaking /\ Replacing
  <2> DEFINE new == [step |-> "read", version |-> convo.version, context |-> convo.context]
  <2>1. new \in Asks
        /\ new.version = convo.version /\ new.context = convo.context
    BY <1>1 DEF ConversationTypes, Asks
  <2>2. ask' = [ask EXCEPT ![g] = new] /\ UNCHANGED <<convo, gen, saved>>
    BY <1>3 DEF Ask
  <2> HIDE DEF new
  <2>3. convo.version \in Nat
    BY <1>1 DEF ConversationTypes
  <2>4. ConversationTypes'
    BY <1>1, <2>1, <2>2 DEF ConversationTypes, Asks
  <2>5. Leased'
    BY <1>1, <2>1, <2>2, <2>3 DEF ConversationTypes, Leased
  <2>6. QED
    BY <2>2, <2>4, <2>5 DEF Conversing, Overtaking, Replacing
<1>4. ASSUME NEW g \in Gens, Abandon(g)
      PROVE  Conversing' /\ Overtaking /\ Replacing
  <2>1. /\ ask' \in [Gens -> Asks]
        /\ ask'[g].step = "over" /\ \A h \in Gens : h # g => ask'[h] = ask[h]
        /\ UNCHANGED <<convo, gen, saved>>
    BY <1>1, <1>4, Goes DEF Abandon
  <2>2. ConversationTypes'
    BY <1>1, <2>1 DEF ConversationTypes, Asks
  <2>3. QED
    BY <1>1, <2>1, <2>2 DEF Conversing, Leased, Overtaking, Replacing
<1>5. QED
  BY <1>2, <1>3, <1>4 DEF Elsewhere

LEMMA RemoveKeeps ==
    ASSUME Conversing, Remove
    PROVE  Conversing' /\ Overtaking /\ Replacing
<1>1. ConversationTypes /\ Leased /\ ask' = ask /\ saved' = [g \in Gens |-> {}]
  BY DEF Conversing, Remove
<1>2. /\ Free \in [present : BOOLEAN, active : Gens \cup {None},
                  lease : {"free", "held", "lapsed"}, version : Nat, context : Gens \cup {None}]
      /\ Free.active = None /\ Free.version = convo.version /\ Free.context = convo.context
  BY <1>1 DEF Free, ConversationTypes
<1>3. /\ convo' \in [present : BOOLEAN, active : Gens \cup {None},
                  lease : {"free", "held", "lapsed"}, version : Nat, context : Gens \cup {None}]
      /\ convo'.active = None /\ convo'.version = convo.version /\ convo'.context = convo.context
  <2> DEFINE freed == Free
  <2>1. convo' = [freed EXCEPT !.present = FALSE]
    BY DEF Remove
  <2>2. /\ freed \in [present : BOOLEAN, active : Gens \cup {None},
                  lease : {"free", "held", "lapsed"}, version : Nat, context : Gens \cup {None}]
        /\ freed.active = None /\ freed.version = convo.version /\ freed.context = convo.context
    BY <1>2
  <2> HIDE DEF freed
  <2>3. QED
    BY <2>1, <2>2
<1>4. /\ gen' = [g \in Gens |-> [gen[g] EXCEPT !.status = "absent"]]
      /\ \A g \in Gens : gen'[g] \in Answers
                         /\ gen'[g].status = "absent"
  BY <1>1 DEF Remove, ConversationTypes, Answers, GenStates
<1>5. ConversationTypes'
  BY <1>1, <1>3, <1>4 DEF ConversationTypes, Answers
<1>6. Leased'
  BY <1>1, <1>3, ConversationAssumption DEF Leased
<1>7. Overtaking /\ Replacing
  BY <1>3, <1>4 DEF Overtaking, Replacing
<1>8. QED
  BY <1>5, <1>6, <1>7 DEF Conversing

(* A receipt joins a saved answer, and leaves the conversation alone.      *)
LEMMA SucceedsKeeps ==
    ASSUME Conversing, NEW p, NEW revision, Succeeds(p, revision)
    PROVE  Conversing' /\ Overtaking /\ Replacing
<1>1. /\ ConversationTypes /\ Leased /\ UNCHANGED <<convo, gen, ask>>
      /\ saved' = Attached(p)
  BY DEF Conversing, Succeeds
<1>2. DOMAIN saved' = Gens
  BY <1>1 DEF Attached, ConversationTypes
<1>3. ConversationTypes'
  BY <1>1, <1>2 DEF ConversationTypes
<1>4. QED
  BY <1>1, <1>3 DEF Conversing, Leased, Overtaking, Replacing

LEMMA ConversingStep ==
    ASSUME Conversing, [Next]_vars
    PROVE  Conversing' /\ Overtaking /\ Replacing
<1>1. CASE UNCHANGED convoVars
  BY <1>1 DEF convoVars, Conversing, ConversationTypes, Leased, Overtaking, Replacing
<1>2. ASSUME NEW w \in Workers, Step(w)
      PROVE  Conversing' /\ Overtaking /\ Replacing
  <2>1. CASE Commit(w)
    BY <2>1, <1>1, SucceedsKeeps DEF Commit
  <2>2. CASE Complete(w)
    BY <2>2, <1>1, SucceedsKeeps DEF Complete
  <2>3. CASE Delete(w)
    BY <2>3, RemoveKeeps DEF Delete
  <2>4. CASE Create(w) \/ SaveEdit(w) \/ Claim(w) \/ Look(w) \/ Check(w) \/ ClaimRemote(w)
             \/ Call(w) \/ Apply(w) \/ Uncertain(w)
    BY <2>4, <1>1 DEF Create, SaveEdit, Claim, Look, Check, ClaimRemote, Call, Apply, Uncertain
  <2>5. QED
    BY <1>2, <2>1, <2>2, <2>3, <2>4 DEF Step
<1>3. CASE Request
  BY <1>3, <1>1 DEF Request, Draft, StartEdit, Confirm, StartDelete, Cancel
<1>4. CASE (\E p \in Props : Sweep(p) \/ Expire(p)) \/ World
  BY <1>4, <1>1 DEF Sweep, Expire, World
<1>5. CASE Talk
  BY <1>5, BeginKeeps, FinishKeeps, FailKeeps, ElsewhereKeeps DEF Talk, Writes
<1>6. CASE UNCHANGED vars
  BY <1>6, <1>1 DEF vars
<1>7. QED
  BY <1>2, <1>3, <1>4, <1>5, <1>6 DEF Next

LEMMA ConversingAlways == Spec => []Conversing
<1>1. PInit => Conversing
  <2> SUFFICES ASSUME Init PROVE Conversing
    BY DEF PInit
  <2>1. ConversationTypes
    BY DEF Init, ConversationTypes, GenStates
  <2>2. Leased
    BY ConversationAssumption DEF Init, Leased
  <2>3. QED
    BY <2>1, <2>2 DEF Conversing
<1>2. Conversing /\ [Next]_vars => Conversing'
  BY ConversingStep
<1>3. QED
  BY <1>1, <1>2, PTL DEF Spec

(* An answer completes only while its question owns the conversation that  *)
(* it began (ConversationService.complete): an overtaken one never does.   *)
THEOREM OvertakenCorrect == Spec => OvertakenNeverCompletes
<1>1. Conversing /\ [Next]_vars => [Overtaking]_convoVars
  BY ConversingStep
<1>2. QED
  BY <1>1, ConversingAlways, PTL DEF Spec, OvertakenNeverCompletes, Overtaking

(* A question takes the conversation only from the context that it read    *)
(* (ConversationService.begin).                                            *)
THEOREM ContextCorrect == Spec => ContextInherited
<1>1. Conversing /\ [Next]_vars => [Replacing]_convoVars
  BY ConversingStep
<1>2. QED
  BY <1>1, ConversingAlways, PTL DEF Spec, ContextInherited, Replacing

-----------------------------------------------------------------------------
(* The proposals. What a worker goes by, from the rows it read to what it  *)
(* has done; a proposal is sound; no two workers are in each other's way.  *)
Executing == {"remote", "applying", "completing", "failing"}
Active == {"claimed"} \cup Executing
Started == {"running", "succeeded", "outcome_unknown"}
Working == Steps \ (Idle \cup {"deleting"})
Begun(g) == ask[g].step \in {"thinking", "over"}

(* A local confirmation holds the very row, revision and day reviewed.     *)
Claims(t) ==
    /\ t.kind \in Local /\ convo.present /\ Offered(t.p, t.v)
    /\ t.kind = "write" => house.revision = prop[t.p].revision /\ t.day = prop[t.p].day

(* What a provider's confirmation saw may be overtaken by an edit, which   *)
(* counts the version up.                                                  *)
Compares(t) ==
    /\ t.kind \in Remote /\ t.v <= t.seen
    /\ convo.present =>
          /\ t.seen <= prop[t.p].version
          /\ t.seen = prop[t.p].version => t.revision = prop[t.p].revision

(* How far an operation has come shows in its row, its calls and effects.  *)
Executes(t, step) ==
    /\ t.kind \in Remote
    /\ convo.present => prop[t.p].status \in Started
    /\ step = "remote" => calls[t.p] = 0
    /\ step \in {"remote", "applying"} =>
          /\ effects[t.p] = <<>> /\ t.v = t.seen
          /\ convo.present => t.seen = prop[t.p].version /\ t.revision = prop[t.p].revision
    /\ step = "completing" =>
          /\ Len(effects[t.p]) = 1 /\ effects[t.p][1].kind = t.kind
          /\ t.kind = "bank" => effects[t.p][1].revision = t.revision

Fits(w) ==
    LET t == task[w] IN
    /\ pc[w] \in Idle \cup {"deleting"} => t = NoTask
    /\ pc[w] \in Working => t.p \in Props /\ t.kind \in Kinds
    /\ t.gen # None => Begun(t.gen)
    /\ pc[w] = "drafting" /\ convo.present => prop[t.p].status = "none"
    /\ pc[w] = "confirming" => t.kind \in Local
    /\ pc[w] = "claimed" => Claims(t)
    /\ pc[w] \in {"checking", "checked"} => Compares(t)
    /\ pc[w] \in Executing => Executes(t, pc[w])
    /\ pc[w] \in Active /\ prop[t.p].gen # None => convo.active # prop[t.p].gen

(* No two workers execute one proposal or write to the household at once,  *)
(* and a proposal that is being drafted is nobody else's.                  *)
Apart(w, x) ==
    /\ pc[w] \in Active /\ pc[x] \in Active => task[w].p # task[x].p
    /\ pc[w] = "claimed" /\ pc[x] = "claimed" =>
          task[w].kind # "write" \/ task[x].kind # "write"
    /\ pc[w] = "drafting" \/ pc[x] = "drafting" => task[w].p # task[x].p

(* The version that ran, of which the receipt tells.                       *)
Reviewed(p) ==
    Len(effects[p]) = 1 =>
        LET e == effects[p][1] IN
        /\ e.asked = e.did
        /\ convo.present =>
              /\ e.did = prop[p].version
              /\ e.kind \in Guarded => e.revision = prop[p].revision
              /\ e.kind = "write" => e.day = prop[p].day
Received(p) ==
    /\ receipt[p] # None =>
          /\ Len(effects[p]) = 1
          /\ receipt[p].version = effects[p][1].did
          /\ effects[p][1].kind \in Guarded =>
                receipt[p].revision = effects[p][1].revision + 1
    /\ convo.present /\ Len(effects[p]) = 1 /\ effects[p][1].kind \in Local =>
          receipt[p] # None
    /\ /\ receipt[p] # None /\ prop[p].gen # None
       => /\ convo.active # prop[p].gen
          /\ gen[prop[p].gen].status = "completed" => p \in saved[prop[p].gen]

Sound(p) ==
    /\ prop[p].status # "none" => prop[p].kind \in Kinds
    /\ ~convo.present => prop[p].status = "none" /\ receipt[p] = None
    /\ convo.present /\ prop[p].status \notin Started =>
          calls[p] = 0 /\ effects[p] = <<>> /\ receipt[p] = None
    /\ calls[p] <= 1 /\ Len(effects[p]) <= 1
    /\ prop[p].gen # None => Begun(prop[p].gen)
    /\ Reviewed(p) /\ Received(p)

IInv ==
    /\ TypeOK
    /\ \A w \in Workers : Fits(w)
    /\ \A w, x \in Workers : w # x => Apart(w, x)
    /\ \A p \in Props : Sound(p)

-----------------------------------------------------------------------------
(* What a step may do without touching what another one goes by: a row may *)
(* expire, or go from one state of an operation to another; the answers    *)
(* go on, and a question that has begun never gets the conversation back.  *)
Settles(p) ==
    /\ prop'[p].kind = prop[p].kind /\ prop'[p].version = prop[p].version
    /\ prop'[p].revision = prop[p].revision /\ prop'[p].day = prop[p].day
    /\ prop'[p].gen = prop[p].gen
    /\ prop'[p].status = prop[p].status \/ {prop[p].status, prop'[p].status} \subseteq Started
    /\ receipt'[p] = receipt[p] /\ calls'[p] = calls[p] /\ effects'[p] = effects[p]
SameTask(w) == pc'[w] = pc[w] /\ task'[w] = task[w]
Converses ==
    /\ convo'.present = convo.present
    /\ \A g \in Gens : Begun(g) =>
          /\ Begun(g)'
          /\ convo.active # g =>
                /\ convo'.active # g /\ saved[g] \subseteq saved'[g]
                /\ gen'[g].status = "completed" => gen[g].status = "completed"
HouseKept(w) ==
    pc[w] = "claimed" /\ task[w].kind = "write" => house'.revision = house.revision

LEMMA Nothing ==
    ASSUME TypeOK
    PROVE  /\ None \notin Props /\ None \notin Gens /\ None \notin Nat
           /\ NoTask \in Tasks /\ NoTask.p = None /\ NoTask.gen = None /\ NoTask.kind = None
           /\ Blank \in Rows /\ Blank.status = "none" /\ Blank.gen = None
<1>1. None \notin Props /\ None \notin Nat /\ None \notin Gens
  BY ProposalAssumption, ConversationAssumption
<1>2. QED
  BY <1>1 DEF NoTask, Tasks, Blank, Rows, Statuses

LEMMA Sets ==
    /\ Active \subseteq Working /\ Executing \subseteq Active
    /\ "claimed" \in Active \ Executing
    /\ {"remote", "applying", "completing", "failing"} \subseteq Executing
    /\ {"drafting", "editing", "confirming", "checking", "checked", "conflicted"}
          \subseteq Working \ Active
    /\ \A s \in Idle \cup {"deleting"} : s \in Steps /\ s \notin Working /\ s \notin Active
    /\ Working \subseteq Steps
BY DEF Working, Active, Executing, Steps, Idle

(* A worker whose proposal is left alone goes on.                          *)
LEMMA FitsAway ==
    ASSUME TypeOK, \A p \in Props : Sound(p),
           NEW w \in Workers, Fits(w), SameTask(w), Converses, HouseKept(w),
           task[w].p \in Props => Settles(task[w].p)
    PROVE  Fits(w)'
<1> DEFINE t == task[w]
<1>1. /\ t.p \in Props \cup {None} /\ t.gen \in Gens \cup {None} /\ pc[w] \in Steps
      /\ task'[w] = t /\ pc'[w] = pc[w]
  BY DEF TypeOK, Tasks, SameTask
<1>2. pc[w] \in Working => t.p \in Props /\ Settles(t.p)
  BY DEF Fits
<1>3. t.gen # None => Begun(t.gen)'
  BY <1>1 DEF Fits, Converses
<1>4. pc[w] = "claimed" => Claims(t)'
  <2> SUFFICES ASSUME pc[w] = "claimed" PROVE Claims(t)'
    OBVIOUS
  <2>1. Claims(t) /\ Settles(t.p)
    BY <1>2, Sets DEF Fits
  <2>2. Offered(t.p, t.v)'
    BY <1>1, <2>1 DEF Claims, Offered, Settles, Started
  <2>3. QED
    BY <1>1, <2>1, <2>2 DEF Claims, Settles, Converses, HouseKept
<1>5. pc[w] \in {"checking", "checked"} => Compares(t)'
  <2> SUFFICES ASSUME pc[w] \in {"checking", "checked"} PROVE Compares(t)'
    OBVIOUS
  <2>1. Compares(t) /\ Settles(t.p)
    BY <1>2, Sets DEF Fits
  <2>2. QED
    BY <1>1, <2>1 DEF Compares, Settles, Converses
<1>6. pc[w] \in Executing => Executes(t, pc[w])'
  <2> SUFFICES ASSUME pc[w] \in Executing PROVE Executes(t, pc[w])'
    OBVIOUS
  <2>1. Executes(t, pc[w]) /\ Settles(t.p)
    BY <1>2, Sets DEF Fits
  <2>2. QED
    BY <1>1, <2>1 DEF Executes, Settles, Converses
<1>7. pc[w] = "drafting" /\ convo'.present => prop'[t.p].status = "none"
  BY <1>2, Sets DEF Fits, Settles, Converses, Started
<1>8. pc[w] \in Active /\ prop'[t.p].gen # None => convo'.active # prop'[t.p].gen
  <2> SUFFICES ASSUME pc[w] \in Active, prop'[t.p].gen # None
               PROVE convo'.active # prop'[t.p].gen
    OBVIOUS
  <2>1. t.p \in Props /\ Settles(t.p)
    BY <1>2, Sets
  <2>2. prop[t.p].gen \in Gens /\ Begun(prop[t.p].gen) /\ convo.active # prop[t.p].gen
    BY <2>1 DEF TypeOK, Rows, Settles, Sound, Fits
  <2>3. QED
    BY <2>1, <2>2 DEF Settles, Converses
<1>9. QED
  BY <1>1, <1>3, <1>4, <1>5, <1>6, <1>7, <1>8 DEF Fits

(* A worker that does not hold its proposal goes by an older version.      *)
Onward(p) ==
    convo'.present =>
        /\ convo.present
        /\ \/ prop'[p].version = prop[p].version /\ prop'[p].revision = prop[p].revision
           \/ prop'[p].version > prop[p].version

LEMMA FitsLoose ==
    ASSUME TypeOK, TypeOK', NEW w \in Workers, Fits(w), SameTask(w),
           \A g \in Gens : Begun(g) => Begun(g)',
           pc[w] \notin Active \cup {"drafting"},
           task[w].p \in Props => Onward(task[w].p)
    PROVE  Fits(w)'
<1> DEFINE t == task[w]
<1>1. /\ t.gen \in Gens \cup {None} /\ task'[w] = t /\ pc'[w] = pc[w]
      /\ t.seen \in Nat
  BY DEF TypeOK, Tasks, SameTask
<1>2. t.gen # None => Begun(t.gen)'
  BY <1>1 DEF Fits
<1>3. pc[w] \in {"checking", "checked"} => Compares(t)'
  <2> SUFFICES ASSUME pc[w] \in {"checking", "checked"} PROVE Compares(t)'
    OBVIOUS
  <2>1. Compares(t) /\ t.p \in Props /\ Onward(t.p)
    BY Sets DEF Fits
  <2>2. prop[t.p].version \in Nat /\ prop'[t.p].version \in Nat
    BY <2>1 DEF TypeOK, Rows
  <2>3. QED
    BY <1>1, <2>1, <2>2 DEF Compares, Onward
<1>4. QED
  BY <1>1, <1>2, <1>3, Sets DEF Fits

(* A proposal that is left alone stays sound.                              *)
LEMMA SoundAway ==
    ASSUME TypeOK, NEW p \in Props, Sound(p), Settles(p), Converses
    PROVE  Sound(p)'
<1>1. prop[p].gen \in Gens \cup {None} /\ prop[p].status \in Statuses
  BY DEF TypeOK, Rows
<1>2. Reviewed(p)'
  BY DEF Sound, Reviewed, Settles, Converses
<1>3. Received(p)'
  BY <1>1 DEF Sound, Received, Settles, Converses
<1>4. (prop[p].gen # None => Begun(prop[p].gen))'
  BY <1>1 DEF Sound, Settles, Converses, Begun
<1>5. QED
  BY <1>1, <1>2, <1>3, <1>4 DEF Sound, Settles, Converses, Started

(* A step that leaves everybody where he was.                              *)
LEMMA Steady ==
    ASSUME IInv, TypeOK', Converses,
           \A w \in Workers : SameTask(w) /\ HouseKept(w),
           \A p \in Props : Settles(p)
    PROVE  IInv'
<1>1. \A w \in Workers : Fits(w)'
  BY FitsAway DEF IInv
<1>2. \A p \in Props : Sound(p)'
  BY SoundAway DEF IInv
<1>3. \A w, x \in Workers : w # x => Apart(w, x)'
  BY DEF IInv, Apart, SameTask
<1>4. QED
  BY <1>1, <1>2, <1>3 DEF IInv

(* A step of one worker that changes nothing that others go by.            *)
LEMMA Quiet ==
    ASSUME IInv, TypeOK', Converses, NEW w \in Workers,
           \A x \in Workers : x # w => SameTask(x) /\ HouseKept(x) /\ Apart(w, x)',
           \A p \in Props : Settles(p),
           Fits(w)'
    PROVE  IInv'
<1>1. \A x \in Workers : Fits(x)'
  BY FitsAway DEF IInv
<1>2. \A p \in Props : Sound(p)'
  BY SoundAway DEF IInv
<1>3. \A v, x \in Workers : v # x => Apart(v, x)'
  BY DEF IInv, Apart, SameTask
<1>4. QED
  BY <1>1, <1>2, <1>3 DEF IInv

(* It holds nothing, and is not on a proposal that is being drafted.       *)
LEMMA Calm ==
    ASSUME NEW w \in Workers, pc'[w] \notin Active \cup {"drafting"},
           NEW x \in Workers, SameTask(x),
           pc[x] = "drafting" => task[x].p # task'[w].p
    PROVE  Apart(w, x)'
BY Sets DEF Apart, SameTask

-----------------------------------------------------------------------------
(* What the pieces of an action do. *)
LEMMA Moves ==
    ASSUME TypeOK, NEW w \in Workers, NEW s \in Steps, NEW t \in Tasks, At(w, s), Take(w, t)
    PROVE  /\ pc' \in [Workers -> Steps] /\ task' \in [Workers -> Tasks]
           /\ pc'[w] = s /\ task'[w] = t
           /\ \A x \in Workers : x # w => SameTask(x)
BY DEF TypeOK, At, Take, SameTask

LEMMA Stays ==
    ASSUME TypeOK, NEW w \in Workers, NEW s \in Steps, At(w, s), UNCHANGED task
    PROVE  /\ pc' \in [Workers -> Steps] /\ task' \in [Workers -> Tasks]
           /\ pc'[w] = s /\ task'[w] = task[w]
           /\ \A x \in Workers : x # w => SameTask(x)
BY DEF TypeOK, At, SameTask

LEMMA Puts ==
    ASSUME TypeOK, NEW p \in Props, NEW row \in Rows, Put(p, row)
    PROVE  /\ prop' \in [Props -> Rows] /\ prop'[p] = row
           /\ \A q \in Props : q # p => prop'[q] = prop[q]
BY DEF TypeOK, Put

(* Nothing but workers moved. *)
LEMMA Unmoved ==
    ASSUME TypeOK, UNCHANGED <<convoVars, house, propVars, ghosts>>
    PROVE  /\ Converses
           /\ \A p \in Props : Settles(p)
           /\ \A w \in Workers : HouseKept(w)
           /\ pc' \in [Workers -> Steps] /\ task' \in [Workers -> Tasks]
              /\ requests' \in Nat /\ events' \in Nat => TypeOK'
<1>1. UNCHANGED <<convo, gen, saved, ask, house, prop, receipt, calls, effects>>
  BY DEF convoVars, propVars, ghosts
<1>2. ConversationTypes'
  BY <1>1 DEF TypeOK, ConversationTypes
<1>3. Converses
  BY <1>1 DEF Converses, Begun
<1>4. QED
  BY <1>1, <1>2, <1>3 DEF TypeOK, Settles, HouseKept

(* A worker that is done fits wherever it stops. *)
LEMMA Stops ==
    ASSUME TypeOK', NEW w \in Workers, pc'[w] \in Idle, task'[w] = NoTask
    PROVE  /\ Fits(w)'
           /\ \A x \in Workers : SameTask(x) /\ Fits(x) => Apart(w, x)'
<1>1. NoTask.p = None /\ NoTask.gen = None /\ None \notin Props
  BY ProposalAssumption DEF NoTask
<1>2. Fits(w)'
  BY <1>1, Sets DEF Fits, Idle
<1>3. ASSUME NEW x \in Workers, SameTask(x), Fits(x)
      PROVE Apart(w, x)'
  <2>1. pc[x] = "drafting" => task[x].p \in Props
    BY <1>3, Sets DEF Fits
  <2>2. pc'[w] \notin Active \cup {"drafting"}
    BY Sets DEF Idle
  <2>3. QED
    BY <1>1, <1>3, <2>1, <2>2, Calm
<1>4. QED
  BY <1>2, <1>3

(* A request that ends, having settled nothing but rows of operations.     *)
LEMMA Ends ==
    ASSUME IInv, TypeOK', NEW w \in Workers, NEW end \in Idle, Over(w, end), Converses,
           \A x \in Workers : x # w => HouseKept(x),
           \A p \in Props : Settles(p)
    PROVE  IInv'
<1>1. end \in Steps /\ NoTask \in Tasks /\ TypeOK
  BY Sets, Nothing DEF IInv
<1>2. /\ pc'[w] = end /\ task'[w] = NoTask
      /\ \A x \in Workers : x # w => SameTask(x)
  BY <1>1, Moves DEF Over
<1>3. Fits(w)' /\ \A x \in Workers : x # w => Apart(w, x)'
  BY <1>2, Stops DEF IInv
<1>4. QED
  BY <1>2, <1>3, Quiet

LEMMA EndTypes ==
    ASSUME TypeOK, NEW w \in Workers, NEW end \in Idle, Over(w, end)
    PROVE  pc' \in [Workers -> Steps] /\ task' \in [Workers -> Tasks]
BY Moves, Sets, Nothing DEF Over

(* A row that ran out of its lease is reported as unknown. *)
LEMMA Gets ==
    ASSUME TypeOK, NEW p \in Props, Get(p), UNCHANGED <<receipt, ghosts>>
    PROVE  prop' \in [Props -> Rows] /\ \A q \in Props : Settles(q)
<1> DEFINE old == prop[p]
           row == Swept(prop[p])
<1>1. old \in Rows
  BY DEF TypeOK
<1>2. /\ row \in Rows
      /\ row.kind = old.kind /\ row.version = old.version /\ row.revision = old.revision
      /\ row.day = old.day /\ row.gen = old.gen
      /\ row.status = old.status \/ {old.status, row.status} \subseteq Started
  <2>1. row = IF old.status = "running" /\ old.expired
              THEN [old EXCEPT !.status = "outcome_unknown"] ELSE old
    BY DEF Swept
  <2> HIDE DEF old, row
  <2>2. QED
    BY <1>1, <2>1 DEF Rows, Statuses, Started
<1>3. Put(p, row)
  BY DEF Get
<1> HIDE DEF row
<1>4. /\ prop' \in [Props -> Rows] /\ prop'[p] = row
      /\ \A q \in Props : q # p => prop'[q] = prop[q]
  BY <1>2, <1>3, Puts
<1>5. QED
  BY <1>2, <1>4 DEF Settles, ghosts

-----------------------------------------------------------------------------
LEMMA Arrives ==
    ASSUME TypeOK, NEW w \in Workers, Fits(w), Arrive(w)
    PROVE  requests' \in Nat /\ task[w] = NoTask
BY DEF TypeOK, Arrive, Fits

LEMMA InitKeeps == PInit => IInv
<1> SUFFICES ASSUME PInit PROVE IInv
  OBVIOUS
<1>1. /\ convo.present = TRUE /\ convo.active = None
      /\ house = [revision |-> 1, day |-> 0, writer |-> TRUE]
      /\ prop = [p \in Props |-> Blank] /\ receipt = [p \in Props |-> None]
      /\ calls = [p \in Props |-> 0] /\ effects = [p \in Props |-> <<>>]
      /\ pc = [w \in Workers |-> "idle"] /\ task = [w \in Workers |-> NoTask]
      /\ requests = 0 /\ events = 0 /\ saved = [g \in Gens |-> {}]
  BY DEF PInit, Init
<1>2. ConversationTypes
  BY DEF PInit, Init, ConversationTypes, GenStates
<1>3. /\ NoTask \in Tasks /\ NoTask.gen = None
      /\ Blank \in Rows /\ Blank.status = "none" /\ Blank.gen = None
  <2>1. None \notin Props /\ None \notin Nat /\ None \notin Gens
    BY ProposalAssumption, ConversationAssumption
  <2>2. QED
    BY <2>1 DEF NoTask, Tasks, Blank, Rows, Statuses
<1>4. TypeOK
  <2>1. <<>> \in Seq(Effects) /\ "idle" \in Steps
    BY DEF Steps, Idle
  <2>2. QED
    BY <1>1, <1>2, <1>3, <2>1 DEF TypeOK
<1>5. \A w \in Workers : Fits(w)
  BY <1>1, <1>3, Sets DEF Fits, Idle
<1>6. \A w, x \in Workers : w # x => Apart(w, x)
  BY <1>1, Sets DEF Apart, Idle
<1>7. \A p \in Props : Sound(p)
  <2> SUFFICES ASSUME NEW p \in Props PROVE Sound(p)
    OBVIOUS
  <2>1. /\ prop[p] = Blank /\ receipt[p] = None /\ calls[p] = 0 /\ effects[p] = <<>>
        /\ Len(<<>>) = 0
    BY <1>1
  <2>2. QED
    BY <1>1, <1>3, <2>1 DEF Sound, Reviewed, Received
<1>8. QED
  BY <1>4, <1>5, <1>6, <1>7 DEF IInv

LEMMA DraftKeeps ==
    ASSUME IInv, NEW w \in Workers, NEW p \in Props, NEW kind \in Kinds,
           NEW g \in Gens \cup {None}, Draft(w, p, kind, g), UNCHANGED events
    PROVE  IInv'
<1> DEFINE t == Preview(p, 1, kind, g)
<1>1. /\ TypeOK /\ Fits(w) /\ Arrive(w) /\ Take(w, t) /\ At(w, "drafting")
      /\ convo.present /\ prop[p].status = "none" /\ (g # None => Begun(g))
      /\ \A x \in Workers : task[x].p # p
      /\ UNCHANGED <<convoVars, house, propVars, ghosts>>
  BY DEF IInv, Draft, Author, Begun
<1>2. t \in Tasks /\ t.p = p /\ t.kind = kind /\ t.gen = g
  BY <1>1 DEF Preview, Tasks, TypeOK
<1> HIDE DEF t
<1>3. /\ pc' \in [Workers -> Steps] /\ task' \in [Workers -> Tasks]
      /\ pc'[w] = "drafting" /\ task'[w] = t
      /\ \A x \in Workers : x # w => SameTask(x)
  BY <1>1, <1>2, Moves, Sets
<1>4. TypeOK' /\ Converses /\ (\A q \in Props : Settles(q)) /\ \A x \in Workers : HouseKept(x)
  <2>1. requests' \in Nat /\ events' \in Nat
    BY <1>1, Arrives DEF TypeOK
  <2>2. QED
    BY <1>1, <1>3, <2>1, Unmoved
<1>5. Fits(w)'
  <2>1. UNCHANGED <<prop, ask>>
    BY <1>1 DEF convoVars, propVars
  <2>2. QED
    BY <1>1, <1>2, <1>3, <2>1, Sets DEF Fits, Idle, Begun, Active, Executing
<1>6. \A x \in Workers : x # w => Apart(w, x)'
  BY <1>1, <1>2, <1>3 DEF Apart, SameTask, Active, Executing
<1>7. QED
  BY <1>3, <1>4, <1>5, <1>6, Quiet

LEMMA StartEditKeeps ==
    ASSUME IInv, NEW w \in Workers, NEW p \in Props, NEW kind \in Kinds,
           StartEdit(w, p, kind), UNCHANGED events
    PROVE  IInv'
<1> DEFINE t == Preview(p, prop[p].version, kind, prop[p].gen)
<1>1. /\ TypeOK /\ Fits(w) /\ Arrive(w) /\ Take(w, t) /\ At(w, "editing")
      /\ convo.present /\ prop[p].status # "none"
      /\ UNCHANGED <<convoVars, house, propVars, ghosts>>
  BY DEF IInv, StartEdit, Exists
<1>2. t \in Tasks /\ t.p = p /\ t.kind = kind /\ t.gen = prop[p].gen
  BY <1>1 DEF Preview, Tasks, TypeOK, Rows
<1> HIDE DEF t
<1>3. /\ pc' \in [Workers -> Steps] /\ task' \in [Workers -> Tasks]
      /\ pc'[w] = "editing" /\ task'[w] = t
      /\ \A x \in Workers : x # w => SameTask(x)
  BY <1>1, <1>2, Moves, Sets
<1>4. TypeOK' /\ Converses /\ (\A q \in Props : Settles(q)) /\ \A x \in Workers : HouseKept(x)
  <2>1. requests' \in Nat /\ events' \in Nat
    BY <1>1, Arrives DEF TypeOK
  <2>2. QED
    BY <1>1, <1>3, <2>1, Unmoved
<1>5. Fits(w)'
  <2>1. UNCHANGED <<prop, ask>>
    BY <1>1 DEF convoVars, propVars
  <2>2. prop[p].gen # None => Begun(prop[p].gen)
    BY DEF IInv, Sound
  <2>3. QED
    BY <1>1, <1>2, <1>3, <2>1, <2>2, Sets DEF Fits, Idle, Begun, Active, Executing
<1>6. \A x \in Workers : x # w => Apart(w, x)'
  <2>1. \A x \in Workers : pc[x] = "drafting" => task[x].p # p
    BY <1>1 DEF IInv, Fits
  <2>2. QED
    BY <1>2, <1>3, <2>1, Calm DEF Active, Executing
<1>7. QED
  BY <1>3, <1>4, <1>5, <1>6, Quiet

LEMMA ConfirmKeeps ==
    ASSUME IInv, NEW w \in Workers, NEW p \in Props, NEW v \in 1..prop[p].version,
           Confirm(w, p, v), UNCHANGED events
    PROVE  IInv'
<1>1. /\ TypeOK /\ Fits(w) /\ Arrive(w) /\ Get(p) /\ convo.present /\ prop[p].status # "none"
      /\ UNCHANGED <<convoVars, house, receipt, ghosts>>
  BY DEF IInv, Confirm, Exists
<1>2. prop' \in [Props -> Rows] /\ \A q \in Props : Settles(q)
  BY <1>1, Gets
<1>3. requests' \in Nat /\ events' \in Nat
  BY <1>1, Arrives DEF TypeOK
<1>4. /\ UNCHANGED <<convo, gen, saved, ask, house, calls, effects, receipt>>
      /\ Converses /\ \A x \in Workers : HouseKept(x)
  BY <1>1 DEF convoVars, ghosts, Converses, HouseKept, Begun
<1>5. pc' \in [Workers -> Steps] /\ task' \in [Workers -> Tasks] => TypeOK'
  <2>1. ConversationTypes'
    BY <1>1, <1>4 DEF TypeOK, ConversationTypes
  <2>2. QED
    BY <1>1, <1>2, <1>3, <1>4, <2>1 DEF TypeOK
<1>6. CASE receipt[p] # None
  <2> DEFINE end == IF prop[p].version = v THEN "answered" ELSE "refused"
  <2>1. Over(w, end) /\ end \in Idle
    BY <1>6 DEF Confirm, Idle
  <2> HIDE DEF end
  <2>2. TypeOK'
    BY <1>1, <1>5, <2>1, EndTypes
  <2>3. QED
    BY <1>2, <1>4, <2>1, <2>2, Ends
<1>7. CASE receipt[p] = None
  <2> DEFINE t == [NoTask EXCEPT !.p = p, !.v = v, !.seen = prop[p].version,
                                 !.kind = prop[p].kind, !.revision = prop[p].revision]
             s == IF prop[p].kind \in Local THEN "confirming" ELSE "checking"
  <2>1. Take(w, t) /\ At(w, s)
    BY <1>7 DEF Confirm
  <2>2. prop[p] \in Rows /\ prop[p].kind \in Kinds /\ v \in Nat /\ v <= prop[p].version
    BY <1>1 DEF TypeOK, Rows, IInv, Sound
  <2>3. /\ t \in Tasks /\ t.p = p /\ t.v = v /\ t.seen = prop[p].version
        /\ t.kind = prop[p].kind /\ t.revision = prop[p].revision /\ t.gen = None
    <3> DEFINE version == prop[p].version
               kind == prop[p].kind
               revision == prop[p].revision
    <3>1. t = [NoTask EXCEPT !.p = p, !.v = v, !.seen = version, !.kind = kind,
                             !.revision = revision]
      OBVIOUS
    <3>2. version \in Nat /\ kind \in Kinds /\ revision \in Nat
      BY <2>2 DEF Rows
    <3> HIDE DEF t, version, kind, revision
    <3>3. /\ t \in Tasks /\ t.p = p /\ t.v = v /\ t.seen = version
          /\ t.kind = kind /\ t.revision = revision /\ t.gen = None
      BY <1>1, <2>2, <3>1, <3>2, Nothing DEF Tasks
    <3>4. QED
      BY <3>3 DEF version, kind, revision
  <2>4. /\ s \in Steps /\ s \in {"confirming", "checking"}
        /\ s = "confirming" => prop[p].kind \in Local
        /\ s = "checking" => prop[p].kind \in Remote
    BY <2>2, Sets, ProposalAssumption
  <2> HIDE DEF t, s
  <2>5. /\ pc' \in [Workers -> Steps] /\ task' \in [Workers -> Tasks]
        /\ pc'[w] = s /\ task'[w] = t
        /\ \A x \in Workers : x # w => SameTask(x)
    BY <1>1, <2>1, <2>3, <2>4, Moves
  <2>6. Fits(w)'
    <3>1. s = "checking" => Compares(task[w])'
      <4>1. prop'[p].version = prop[p].version /\ prop'[p].revision = prop[p].revision
        BY <1>2 DEF Settles
      <4>2. prop[p].version \in Nat
        BY <2>2 DEF Rows
      <4>3. QED
        BY <2>2, <2>3, <2>4, <2>5, <4>1, <4>2 DEF Compares
    <3>2. QED
      BY <1>1, <2>2, <2>3, <2>4, <2>5, <3>1, Sets DEF Fits, Idle, Active, Executing
  <2>7. \A x \in Workers : x # w => Apart(w, x)'
    <3>1. \A x \in Workers : pc[x] = "drafting" => task[x].p # p
      BY <1>1 DEF IInv, Fits
    <3>2. QED
      BY <2>3, <2>4, <2>5, <3>1, Calm DEF Active, Executing
  <2>8. QED
    BY <1>2, <1>4, <1>5, <2>5, <2>6, <2>7, Quiet
<1>8. QED
  BY <1>6, <1>7

(* Who may confirm is free to: the row is offered, and nobody is on it.    *)
LEMMA FreeVerdict ==
    ASSUME NEW p, NEW v, Verdict(p, v) = "free"
    PROVE  /\ convo.present /\ receipt[p] = None /\ Offered(p, v) /\ ~prop[p].expired
           /\ convo.active = None
BY DEF Verdict, Exists, Stale, Answering

LEMMA Lone ==
    ASSUME IInv, NEW p \in Props, convo.present, prop[p].status = "proposed", RowFree(p),
           NEW x \in Workers, task[x].p = p
    PROVE  pc[x] \notin Active \cup {"drafting"}
<1>1. pc[x] # "claimed"
  BY DEF RowFree, Claimed
<1>2. pc[x] \notin Executing
  BY DEF IInv, Fits, Executes, Started
<1>3. pc[x] # "drafting"
  BY DEF IInv, Fits
<1>4. QED
  BY <1>1, <1>2, <1>3 DEF Active

LEMMA ClaimKeeps ==
    ASSUME IInv, NEW w \in Workers, Claim(w), UNCHANGED events
    PROVE  IInv'
<1> DEFINE old == task[w]
<1>1. /\ TypeOK /\ pc[w] = "confirming" /\ RowFree(old.p) /\ (old.kind = "write" => HouseFree)
      /\ UNCHANGED <<convoVars, house, propVars, ghosts, requests>>
      /\ Fits(w) /\ old \in Tasks
      /\ old.p \in Props /\ old.kind \in Kinds /\ old.kind \in Local
  BY Sets DEF IInv, Claim, Fits, TypeOK
<1>2. Converses /\ (\A q \in Props : Settles(q)) /\ \A x \in Workers : HouseKept(x)
  BY <1>1, Unmoved
<1>3. pc' \in [Workers -> Steps] /\ task' \in [Workers -> Tasks] => TypeOK'
  <2>1. requests' \in Nat /\ events' \in Nat
    BY <1>1 DEF TypeOK
  <2>2. QED
    BY <1>1, <2>1, Unmoved
<1>4. CASE LocalVerdict(w) = "free" /\ At(w, "claimed")
           /\ Take(w, [task[w] EXCEPT !.day = house.day])
  <2> DEFINE today == house.day
             t == [old EXCEPT !.day = today]
  <2>1. Take(w, t) /\ At(w, "claimed") /\ today \in Nat
    BY <1>1, <1>4 DEF TypeOK
  <2>2. old.p \in Props /\ old.kind \in Kinds /\ old.kind \in Local /\ old \in Tasks
    BY <1>1
  <2>3. /\ Verdict(old.p, old.v) = "free"
        /\ old.kind = "write" => house.revision = prop[old.p].revision /\ house.day = prop[old.p].day
    <3>1. LocalVerdict(w) = "free"
      BY <1>4
    <3>2. QED
      BY <3>1 DEF LocalVerdict, Previewed
  <2>4. /\ convo.present /\ Offered(old.p, old.v) /\ convo.active = None
    BY <2>3, FreeVerdict
  <2>5. \A x \in Workers : task[x].p = old.p => pc[x] \notin Active \cup {"drafting"}
    BY <1>1, <2>4, Lone DEF Offered
  <2>6. old.gen # None => Begun(old.gen)
    BY <1>1 DEF Fits
  <2> HIDE DEF old, today
  <2>7. /\ t \in Tasks /\ t.p = old.p /\ t.v = old.v /\ t.kind = old.kind /\ t.gen = old.gen
        /\ t.day = today
    BY <2>1, <2>2 DEF Tasks
  <2> HIDE DEF t
  <2>8. /\ pc' \in [Workers -> Steps] /\ task' \in [Workers -> Tasks]
        /\ pc'[w] = "claimed" /\ task'[w] = t
        /\ \A x \in Workers : x # w => SameTask(x)
    BY <1>1, <2>1, <2>7, Moves, Sets
  <2>9. UNCHANGED <<convo, ask, house, prop>>
    BY <1>1 DEF convoVars, propVars
  <2>10. Fits(w)'
    <3>1. Claims(t)
      BY <2>2, <2>3, <2>4, <2>7 DEF Claims, Offered, today
    <3>2. Claims(task[w])' /\ (prop[task[w].p].gen # None => convo.active # prop[task[w].p].gen)'
      BY <2>4, <2>8, <2>9, <3>1 DEF Claims, Offered
    <3>3. (task[w].gen # None => Begun(task[w].gen))'
      BY <2>6, <2>7, <2>8, <2>9 DEF Begun
    <3>4. QED
      BY <2>2, <2>7, <2>8, <3>2, <3>3, Sets DEF Fits, Idle, Executing
  <2>11. \A x \in Workers : x # w => Apart(w, x)'
    <3> SUFFICES ASSUME NEW x \in Workers, x # w PROVE Apart(w, x)'
      OBVIOUS
    <3>1. SameTask(x)
      BY <2>8
    <3>2. pc[x] = "claimed" /\ t.kind = "write" => task[x].kind # "write"
      BY <1>1, <2>7 DEF HouseFree, Claimed, old
    <3>3. QED
      BY <2>5, <2>7, <2>8, <3>1, <3>2 DEF Apart, SameTask
  <2>12. QED
    BY <1>2, <1>3, <2>8, <2>10, <2>11, Quiet
<1>5. CASE At(w, "conflicted") /\ UNCHANGED task
  <2>1. /\ pc' \in [Workers -> Steps] /\ task' \in [Workers -> Tasks]
        /\ pc'[w] = "conflicted" /\ task'[w] = task[w]
        /\ \A x \in Workers : x # w => SameTask(x)
    BY <1>1, <1>5, Stays, Sets
  <2>2. UNCHANGED ask
    BY <1>1 DEF convoVars
  <2>3. Fits(w)'
    BY <1>1, <2>1, <2>2, Sets DEF Fits, Idle, Executing, Active, Begun
  <2>4. \A x \in Workers : x # w => Apart(w, x)'
    <3>1. \A x \in Workers : x # w /\ pc[x] = "drafting" => task[x].p # task[w].p
      BY DEF IInv, Apart
    <3>2. QED
      BY <2>1, <3>1, Calm DEF Active, Executing
  <2>5. QED
    BY <1>2, <1>3, <2>1, <2>3, <2>4, Quiet
<1>6. ASSUME NEW end \in Idle, Over(w, end)
      PROVE IInv'
  <2>1. TypeOK'
    BY <1>1, <1>3, <1>6, EndTypes
  <2>2. QED
    BY <1>2, <1>6, <2>1, Ends
<1>7. LocalVerdict(w) \in {"free", "conflict", "refused", "answered"}
  BY DEF LocalVerdict, Verdict
<1>8. QED
  BY <1>4, <1>5, <1>6, <1>7 DEF Claim, Idle

(* A step that does no more than settle rows keeps the types. *)
LEMMA SettlesTypes ==
    ASSUME TypeOK, prop' \in [Props -> Rows], pc' \in [Workers -> Steps],
           task' \in [Workers -> Tasks], requests' \in Nat, events' \in Nat,
           UNCHANGED <<convoVars, house, receipt, ghosts>>
    PROVE  /\ TypeOK' /\ Converses
           /\ \A x \in Workers : HouseKept(x)
<1>1. UNCHANGED <<convo, gen, saved, ask, house, receipt, calls, effects>>
  BY DEF convoVars, ghosts
<1>2. ConversationTypes'
  BY <1>1 DEF TypeOK, ConversationTypes
<1>3. QED
  BY <1>1, <1>2 DEF TypeOK, Converses, HouseKept, Begun

LEMMA LookKeeps ==
    ASSUME IInv, NEW w \in Workers, Look(w), UNCHANGED events
    PROVE  IInv'
<1> DEFINE end == IF Found(w) THEN "answered" ELSE "refused"
<1>1. /\ TypeOK /\ pc[w] = "conflicted" /\ Get(task[w].p) /\ Over(w, end) /\ end \in Idle
      /\ UNCHANGED <<convoVars, house, receipt, ghosts, requests>>
  BY DEF IInv, Look, Idle
<1>2. task[w].p \in Props
  BY <1>1, Sets DEF IInv, Fits
<1> HIDE DEF end
<1>3. prop' \in [Props -> Rows] /\ \A q \in Props : Settles(q)
  BY <1>1, <1>2, Gets
<1>4. TypeOK' /\ Converses /\ \A x \in Workers : HouseKept(x)
  <2>1. pc' \in [Workers -> Steps] /\ task' \in [Workers -> Tasks]
    BY <1>1, EndTypes
  <2>2. requests' \in Nat /\ events' \in Nat
    BY <1>1 DEF TypeOK
  <2>3. QED
    BY <1>1, <1>3, <2>1, <2>2, SettlesTypes
<1>5. QED
  BY <1>1, <1>3, <1>4, Ends

LEMMA CheckKeeps ==
    ASSUME IInv, NEW w \in Workers, Check(w), UNCHANGED events
    PROVE  IInv'
<1>1. /\ TypeOK /\ pc[w] = "checking" /\ Fits(w)
      /\ UNCHANGED <<convoVars, house, propVars, ghosts, requests>>
  BY DEF IInv, Check
<1>2. Converses /\ (\A q \in Props : Settles(q)) /\ \A x \in Workers : HouseKept(x)
  BY <1>1, Unmoved
<1>3. pc' \in [Workers -> Steps] /\ task' \in [Workers -> Tasks] => TypeOK'
  <2>1. requests' \in Nat /\ events' \in Nat
    BY <1>1 DEF TypeOK
  <2>2. QED
    BY <1>1, <2>1, Unmoved
<1>4. CASE At(w, "checked") /\ UNCHANGED task
  <2>1. /\ pc' \in [Workers -> Steps] /\ task' \in [Workers -> Tasks]
        /\ pc'[w] = "checked" /\ task'[w] = task[w]
        /\ \A x \in Workers : x # w => SameTask(x)
    BY <1>1, <1>4, Stays, Sets
  <2>2. UNCHANGED <<convo, ask, prop>>
    BY <1>1 DEF convoVars, propVars
  <2>3. Fits(w)'
    BY <1>1, <2>1, <2>2, Sets DEF Fits, Idle, Executing, Active, Begun, Compares
  <2>4. \A x \in Workers : x # w => Apart(w, x)'
    <3>1. \A x \in Workers : x # w /\ pc[x] = "drafting" => task[x].p # task[w].p
      BY DEF IInv, Apart
    <3>2. QED
      BY <2>1, <3>1, Calm DEF Active, Executing
  <2>5. QED
    BY <1>2, <1>3, <2>1, <2>3, <2>4, Quiet
<1>5. CASE Over(w, "refused")
  <2>1. "refused" \in Idle
    BY DEF Idle
  <2>2. TypeOK'
    BY <1>1, <1>3, <1>5, <2>1, EndTypes
  <2>3. QED
    BY <1>2, <1>5, <2>1, <2>2, Ends
<1>6. QED
  BY <1>4, <1>5 DEF Check

LEMMA StartDeleteKeeps ==
    ASSUME IInv, NEW w \in Workers, StartDelete(w), UNCHANGED events
    PROVE  IInv'
<1>1. /\ TypeOK /\ Fits(w) /\ Arrive(w) /\ At(w, "deleting") /\ task' = task
      /\ UNCHANGED <<convoVars, house, propVars, ghosts>>
  BY DEF IInv, StartDelete
<1>2. requests' \in Nat /\ events' \in Nat /\ task[w] = NoTask
  BY <1>1, Arrives DEF TypeOK
<1>3. /\ pc' \in [Workers -> Steps] /\ task' \in [Workers -> Tasks]
      /\ pc'[w] = "deleting" /\ task'[w] = NoTask
      /\ \A x \in Workers : x # w => SameTask(x)
  BY <1>1, <1>2, Stays, Sets
<1>4. TypeOK' /\ Converses /\ (\A q \in Props : Settles(q)) /\ \A x \in Workers : HouseKept(x)
  BY <1>1, <1>2, <1>3, Unmoved
<1>5. Fits(w)'
  BY <1>1, <1>3, Nothing, Sets DEF Fits
<1>6. \A x \in Workers : x # w => Apart(w, x)'
  <2>1. \A x \in Workers : pc[x] = "drafting" => task[x].p # NoTask.p
    BY <1>1, Nothing, Sets DEF IInv, Fits
  <2>2. QED
    BY <1>3, <2>1, Calm DEF Active, Executing
<1>7. QED
  BY <1>3, <1>4, <1>5, <1>6, Quiet

LEMMA SweepKeeps ==
    ASSUME IInv, NEW p \in Props, Sweep(p), UNCHANGED events
    PROVE  IInv'
<1>1. /\ TypeOK /\ Get(p)
      /\ UNCHANGED <<convoVars, house, receipt, ghosts, pc, task, requests, events>>
  BY DEF IInv, Sweep
<1>2. prop' \in [Props -> Rows] /\ \A q \in Props : Settles(q)
  BY <1>1, Gets
<1>3. TypeOK' /\ Converses /\ \A x \in Workers : HouseKept(x) /\ SameTask(x)
  <2>1. /\ pc' \in [Workers -> Steps] /\ task' \in [Workers -> Tasks]
        /\ requests' \in Nat /\ events' \in Nat
    BY <1>1 DEF TypeOK
  <2>2. QED
    BY <1>1, <1>2, <2>1, SettlesTypes DEF SameTask
<1>4. QED
  BY <1>2, <1>3, Steady

LEMMA ExpireKeeps ==
    ASSUME IInv, NEW p \in Props, Expire(p)
    PROVE  IInv'
<1> DEFINE old == prop[p]
           row == [old EXCEPT !.expired = TRUE]
<1>1. /\ TypeOK /\ Put(p, row)
      /\ UNCHANGED <<convoVars, house, receipt, ghosts, pc, task, requests, events>>
  BY DEF IInv, Expire
<1>2. old \in Rows
  BY <1>1 DEF TypeOK
<1> HIDE DEF old
<1>3. /\ row \in Rows
      /\ row.kind = old.kind /\ row.version = old.version /\ row.revision = old.revision
      /\ row.day = old.day /\ row.gen = old.gen /\ row.status = old.status
  BY <1>2 DEF Rows
<1> HIDE DEF row
<1>4. /\ prop' \in [Props -> Rows] /\ prop'[p] = row
      /\ \A q \in Props : q # p => prop'[q] = prop[q]
  BY <1>1, <1>3, Puts
<1>5. \A q \in Props : Settles(q)
  BY <1>1, <1>3, <1>4 DEF Settles, ghosts, old
<1>6. TypeOK' /\ Converses /\ \A x \in Workers : HouseKept(x) /\ SameTask(x)
  <2>1. /\ pc' \in [Workers -> Steps] /\ task' \in [Workers -> Tasks]
        /\ requests' \in Nat /\ events' \in Nat
    BY <1>1 DEF TypeOK
  <2>2. QED
    BY <1>1, <1>4, <2>1, SettlesTypes DEF SameTask
<1>7. QED
  BY <1>5, <1>6, Steady

LEMMA UncertainKeeps ==
    ASSUME IInv, NEW w \in Workers, Uncertain(w), UNCHANGED events
    PROVE  IInv'
<1> DEFINE p == task[w].p
           old == prop[task[w].p]
           row == [old EXCEPT !.status = "outcome_unknown"]
<1>1. /\ TypeOK /\ pc[w] = "failing" /\ Over(w, "refused")
      /\ UNCHANGED <<convoVars, house, receipt, ghosts, requests>>
  BY DEF IInv, Uncertain
<1>2. p \in Props /\ old \in Rows /\ (convo.present => old.status \in Started)
  BY <1>1, Sets DEF IInv, Fits, TypeOK, Executes
<1>3. \/ convo.present /\ Put(p, row)
      \/ UNCHANGED prop
  BY DEF Uncertain, Exists, Unknown
<1>4. prop' \in [Props -> Rows] /\ \A q \in Props : Settles(q)
  <2>1. CASE UNCHANGED prop
    BY <1>1, <2>1 DEF TypeOK, Settles, ghosts
  <2>2. CASE convo.present /\ Put(p, row)
    <3>1. old \in Rows /\ old.status \in Started
      BY <1>2, <2>2
    <3> HIDE DEF old
    <3>2. /\ row \in Rows
          /\ row.kind = old.kind /\ row.version = old.version /\ row.revision = old.revision
          /\ row.day = old.day /\ row.gen = old.gen /\ row.status = "outcome_unknown"
      BY <3>1 DEF Rows, Statuses
    <3> HIDE DEF row, p
    <3>3. /\ prop' \in [Props -> Rows] /\ prop'[p] = row
          /\ \A q \in Props : q # p => prop'[q] = prop[q]
      BY <1>1, <1>2, <2>2, <3>2, Puts
    <3>4. QED
      BY <1>1, <3>1, <3>2, <3>3 DEF Settles, ghosts, old, p, Started
  <2>3. QED
    BY <1>3, <2>1, <2>2
<1>5. "refused" \in Idle
  BY DEF Idle
<1>6. TypeOK' /\ Converses /\ \A x \in Workers : HouseKept(x)
  <2>1. pc' \in [Workers -> Steps] /\ task' \in [Workers -> Tasks]
    BY <1>1, <1>5, EndTypes
  <2>2. requests' \in Nat /\ events' \in Nat
    BY <1>1 DEF TypeOK
  <2>3. QED
    BY <1>1, <1>4, <2>1, <2>2, SettlesTypes
<1>7. QED
  BY <1>1, <1>4, <1>5, <1>6, Ends

(* The answers of the conversation take nothing from the proposals.        *)
LEMMA BeginConverses ==
    ASSUME TypeOK, NEW g \in Gens, Begin(g)
    PROVE  Converses /\ saved' \in [Gens -> SUBSET Props]
<1>1. ConversationTypes /\ ask[g].step = "read" /\ saved' = saved /\ ~Begun(g)
  BY DEF TypeOK, Begin, Begun
<1>2. saved' \in [Gens -> SUBSET Props]
  BY <1>1 DEF TypeOK
<1>3. CASE /\ convo' = [convo EXCEPT !.active = g, !.lease = "held",
                                     !.version = @ + 1, !.context = g]
           /\ gen' = [h \in Gens |->
                IF h = g THEN [status |-> "pending", begun |-> convo.version + 1]
                ELSE IF gen[h].status = "pending"
                     THEN [gen[h] EXCEPT !.status = "interrupted"]
                     ELSE gen[h]]
           /\ Go(g, "thinking")
  <2>1. /\ ask'[g].step = "thinking"
        /\ \A h \in Gens : h # g => ask'[h] = ask[h]
    BY <1>1, <1>3, Goes
  <2>2. convo'.present = convo.present /\ convo'.active = g
    BY <1>1, <1>3 DEF ConversationTypes
  <2>3. \A h \in Gens : h # g /\ gen'[h].status = "completed" => gen[h].status = "completed"
    BY <1>1, <1>3 DEF ConversationTypes
  <2>4. QED
    BY <1>1, <1>2, <2>1, <2>2, <2>3 DEF Converses, Begun
<1>4. CASE Go(g, "over") /\ UNCHANGED <<convo, gen>>
  <2>1. /\ ask'[g].step = "over"
        /\ \A h \in Gens : h # g => ask'[h] = ask[h]
    BY <1>1, <1>4, Goes
  <2>2. QED
    BY <1>1, <1>2, <1>4, <2>1 DEF Converses, Begun
<1>5. QED
  BY <1>3, <1>4 DEF Begin

LEMMA FinishConverses ==
    ASSUME TypeOK, NEW g \in Gens, Finish(g)
    PROVE  Converses /\ saved' \in [Gens -> SUBSET Props]
<1>1. /\ ConversationTypes /\ convo.active = g /\ convo' = Free
      /\ Judged(g, "completed") /\ Go(g, "over") /\ "completed" \in GenStates
      /\ saved' = [saved EXCEPT ![g] = {}] /\ saved \in [Gens -> SUBSET Props]
  BY DEF TypeOK, Finish, Owns, GenStates
<1>2. convo'.present = convo.present /\ convo'.active = None /\ None \notin Gens
  BY <1>1, ConversationAssumption DEF Free, ConversationTypes
<1>3. /\ ask'[g].step = "over" /\ \A h \in Gens : h # g => ask'[h] = ask[h]
      /\ \A h \in Gens : h # g => gen'[h] = gen[h] /\ saved'[h] = saved[h]
      /\ saved' \in [Gens -> SUBSET Props]
  BY <1>1, Goes, Judges
<1>4. QED
  BY <1>1, <1>2, <1>3 DEF Converses, Begun

LEMMA FailConverses ==
    ASSUME TypeOK, NEW g \in Gens, Fail(g)
    PROVE  Converses /\ saved' \in [Gens -> SUBSET Props]
<1>1. /\ ConversationTypes
      /\ convo' = Free \/ convo' = convo
      /\ Judged(g, "failed") \/ gen' = gen
      /\ Go(g, "over") /\ "failed" \in GenStates
      /\ saved' = saved /\ saved \in [Gens -> SUBSET Props]
  BY DEF TypeOK, Fail, GenStates
<1>2. /\ convo'.present = convo.present /\ None \notin Gens
      /\ convo'.active \in {convo.active, None}
  BY <1>1, ConversationAssumption DEF Free, ConversationTypes
<1>3. /\ ask'[g].step = "over" /\ \A h \in Gens : h # g => ask'[h] = ask[h]
      /\ \A h \in Gens : gen'[h].status = "completed" => gen[h].status = "completed"
  <2>1. CASE Judged(g, "failed")
    BY <1>1, <2>1, Goes, Judges
  <2>2. CASE gen' = gen
    BY <1>1, <2>2, Goes
  <2>3. QED
    BY <1>1, <2>1, <2>2
<1>4. QED
  BY <1>1, <1>2, <1>3 DEF Converses, Begun

LEMMA ElsewhereConverses ==
    ASSUME TypeOK, Elsewhere
    PROVE  Converses /\ saved' \in [Gens -> SUBSET Props]
<1>1. ConversationTypes
  BY DEF TypeOK
<1>2. CASE Lapse
  <2>1. convo'.present = convo.present /\ convo'.active = convo.active /\ UNCHANGED <<gen, saved, ask>>
    BY <1>1, <1>2 DEF Lapse, ConversationTypes
  <2>2. QED
    BY <2>1 DEF Converses, Begun, TypeOK
<1>3. ASSUME NEW g \in Gens, Ask(g)
      PROVE  Converses /\ saved' \in [Gens -> SUBSET Props]
  <2>1. /\ ~Begun(g) /\ \A h \in Gens : h # g => ask'[h] = ask[h]
        /\ UNCHANGED <<convo, gen, saved>>
    BY <1>1, <1>3 DEF Ask, Begun, ConversationTypes
  <2>2. QED
    BY <2>1 DEF Converses, Begun, TypeOK
<1>4. ASSUME NEW g \in Gens, Abandon(g)
      PROVE  Converses /\ saved' \in [Gens -> SUBSET Props]
  <2>1. /\ ask'[g].step = "over" /\ \A h \in Gens : h # g => ask'[h] = ask[h]
        /\ UNCHANGED <<convo, gen, saved>>
    BY <1>1, <1>4, Goes DEF Abandon
  <2>2. QED
    BY <2>1 DEF Converses, Begun, TypeOK
<1>5. QED
  BY <1>2, <1>3, <1>4 DEF Elsewhere

LEMMA TalkKeeps ==
    ASSUME IInv, Conversing, Talk
    PROVE  IInv'
<1>1. TypeOK /\ UNCHANGED <<house, prop, receipt, calls, effects, pc, task, requests, events>>
  BY DEF IInv, Talk, propVars, ghosts
<1>2. Converses /\ saved' \in [Gens -> SUBSET Props]
  BY <1>1, BeginConverses, FinishConverses, FailConverses, ElsewhereConverses DEF Talk, Writes
<1>3. ConversationTypes'
  BY BeginKeeps, FinishKeeps, FailKeeps, ElsewhereKeeps DEF Talk, Writes, Conversing
<1>4. TypeOK'
  BY <1>1, <1>2, <1>3 DEF TypeOK
<1>5. /\ \A w \in Workers : SameTask(w) /\ HouseKept(w)
      /\ \A p \in Props : Settles(p)
  BY <1>1 DEF SameTask, HouseKept, Settles
<1>6. QED
  BY <1>2, <1>4, <1>5, Steady

LEMMA WorldKeeps ==
    ASSUME IInv, World
    PROVE  IInv'
<1>1. /\ TypeOK /\ events' \in Nat
      /\ UNCHANGED <<convo, gen, saved, ask, prop, receipt, calls, effects, requests>>
  BY DEF IInv, World, TypeOK, convoVars, propVars, ghosts
<1>2. Converses /\ (\A p \in Props : Settles(p)) /\ ConversationTypes'
  BY <1>1 DEF Converses, Settles, Begun, TypeOK, ConversationTypes
<1>3. house \in [revision : Nat, day : Nat, writer : BOOLEAN]
  BY <1>1 DEF TypeOK
<1>4. CASE UNCHANGED <<pc, task>>
           /\ \/ HouseFree /\ house' = [house EXCEPT !.revision = @ + 1]
              \/ house' = [house EXCEPT !.writer = ~@]
              \/ house' = [house EXCEPT !.day = @ + 1]
  <2>1. /\ house' \in [revision : Nat, day : Nat, writer : BOOLEAN]
        /\ HouseFree \/ house'.revision = house.revision
    <3>1. CASE house' = [house EXCEPT !.writer = ~@]
      BY <1>3, <3>1
    <3>2. CASE house' = [house EXCEPT !.day = @ + 1]
      <4> DEFINE next == house.day + 1
      <4>1. next \in Nat /\ house' = [house EXCEPT !.day = next]
        BY <1>3, <3>2
      <4> HIDE DEF next
      <4>2. QED
        BY <1>3, <4>1
    <3>3. CASE HouseFree /\ house' = [house EXCEPT !.revision = @ + 1]
      <4> DEFINE next == house.revision + 1
      <4>1. next \in Nat /\ house' = [house EXCEPT !.revision = next]
        BY <1>3, <3>3
      <4> HIDE DEF next
      <4>2. QED
        BY <1>3, <3>3, <4>1
    <3>4. QED
      BY <1>4, <3>1, <3>2, <3>3
  <2>2. TypeOK'
    BY <1>1, <1>2, <1>4, <2>1 DEF TypeOK
  <2>3. \A w \in Workers : SameTask(w) /\ HouseKept(w)
    BY <1>4, <2>1 DEF SameTask, HouseKept, HouseFree, Claimed
  <2>4. QED
    BY <1>2, <2>2, <2>3, Steady
<1>5. ASSUME NEW w \in Workers, Over(w, "idle"), UNCHANGED house
      PROVE IInv'
  <2>1. "idle" \in Idle
    BY DEF Idle
  <2>2. pc' \in [Workers -> Steps] /\ task' \in [Workers -> Tasks]
    BY <1>1, <1>5, <2>1, EndTypes
  <2>3. TypeOK' /\ \A x \in Workers : HouseKept(x)
    BY <1>1, <1>2, <1>5, <2>2 DEF TypeOK, HouseKept
  <2>4. QED
    BY <1>2, <1>5, <2>1, <2>3, Ends
<1>6. QED
  BY <1>4, <1>5 DEF World

-----------------------------------------------------------------------------
(* Steps that change what a proposal is or has done: nobody else holds it. *)
Loose(x) == pc[x] \notin Active \cup {"drafting"}

LEMMA Others ==
    ASSUME IInv, TypeOK', Converses, NEW p \in Props, Onward(p),
           \A q \in Props : q # p => Settles(q),
           NEW x \in Workers, SameTask(x), HouseKept(x), task[x].p = p => Loose(x)
    PROVE  Fits(x)'
<1>1. TypeOK /\ Fits(x) /\ (\A q \in Props : Sound(q)) /\ \A g \in Gens : Begun(g) => Begun(g)'
  BY DEF IInv, Converses
<1>2. CASE task[x].p = p
  BY <1>1, <1>2, FitsLoose DEF Loose
<1>3. CASE task[x].p # p
  BY <1>1, <1>3, FitsAway
<1>4. QED
  BY <1>2, <1>3

LEMMA Changes ==
    ASSUME IInv, TypeOK', Converses, NEW p \in Props, NEW w \in Workers,
           \A q \in Props : q # p => Settles(q),
           \A x \in Workers : x # w =>
              SameTask(x) /\ HouseKept(x) /\ (task[x].p = p => Loose(x)) /\ Apart(w, x)',
           Onward(p), Fits(w)', Sound(p)'
    PROVE  IInv'
<1>1. \A x \in Workers : Fits(x)'
  BY Others
<1>2. \A q \in Props : Sound(q)'
  BY SoundAway DEF IInv
<1>3. \A v, x \in Workers : v # x => Apart(v, x)'
  BY DEF IInv, Apart, SameTask
<1>4. QED
  BY <1>1, <1>2, <1>3 DEF IInv

(* Nobody else is on the proposal that a worker executes or drafts.        *)
LEMMA Held ==
    ASSUME IInv, NEW w \in Workers, pc[w] \in Active \cup {"drafting"},
           NEW x \in Workers, x # w, task[x].p = task[w].p
    PROVE  Loose(x)
BY DEF IInv, Apart, Loose

(* The same, for a request that ends. *)
LEMMA EndsWith ==
    ASSUME IInv, TypeOK', Converses, NEW p \in Props, NEW w \in Workers,
           NEW end \in Idle, Over(w, end),
           \A q \in Props : q # p => Settles(q),
           \A x \in Workers : x # w => HouseKept(x) /\ (task[x].p = p => Loose(x)),
           Onward(p), Sound(p)'
    PROVE  IInv'
<1>1. end \in Steps /\ NoTask \in Tasks /\ TypeOK
  BY Sets, Nothing DEF IInv
<1>2. /\ pc'[w] = end /\ task'[w] = NoTask
      /\ \A x \in Workers : x # w => SameTask(x)
  BY <1>1, Moves DEF Over
<1>3. Fits(w)' /\ \A x \in Workers : x # w => Apart(w, x)'
  BY <1>2, Stops DEF IInv
<1>4. QED
  BY <1>2, <1>3, Changes

(* A row that is or becomes one on offer: it has done nothing.             *)
LEMMA Fresh ==
    ASSUME TypeOK, TypeOK', Converses, NEW p \in Props, Sound(p),
           convo.present, prop[p].status \notin Started,
           prop'[p].kind \in Kinds, UNCHANGED <<receipt, calls, effects>>,
           NEW g \in Gens \cup {None}, prop'[p].gen = g, g # None => Begun(g)
    PROVE  Sound(p)'
<1>1. calls[p] = 0 /\ effects[p] = <<>> /\ receipt[p] = None /\ Len(<<>>) = 0
  BY DEF Sound
<1>2. (prop[p].gen # None => Begun(prop[p].gen))'
  BY DEF Converses, Begun
<1>3. QED
  BY <1>1, <1>2 DEF Sound, Reviewed, Received, Converses

LEMMA CancelKeeps ==
    ASSUME IInv, NEW p \in Props, Cancel(p), UNCHANGED events
    PROVE  IInv'
<1> DEFINE old == prop[p]
           row == [old EXCEPT !.status = "canceled"]
<1>1. /\ TypeOK /\ Put(p, row) /\ convo.present /\ old.status = "proposed" /\ RowFree(p)
      /\ UNCHANGED <<convoVars, house, receipt, ghosts, pc, task>> /\ requests' \in Nat
      /\ events' \in Nat
  BY DEF IInv, Cancel, Exists, Offered, TypeOK
<1>2. old \in Rows /\ old.kind \in Kinds /\ (old.gen # None => Begun(old.gen)) /\ Sound(p)
  BY <1>1 DEF TypeOK, IInv, Sound
<1>3. /\ row \in Rows /\ row.kind = old.kind /\ row.version = old.version
      /\ row.revision = old.revision /\ row.gen = old.gen
  <2> HIDE DEF old
  <2>1. QED
    BY <1>2 DEF Rows, Statuses
<1> HIDE DEF row
<1>4. /\ prop' \in [Props -> Rows] /\ prop'[p] = row
      /\ \A q \in Props : q # p => prop'[q] = prop[q]
  BY <1>1, <1>3, Puts
<1>5. TypeOK' /\ Converses /\ \A x \in Workers : HouseKept(x) /\ SameTask(x)
  <2>1. pc' \in [Workers -> Steps] /\ task' \in [Workers -> Tasks]
    BY <1>1 DEF TypeOK
  <2>2. QED
    BY <1>1, <1>4, <2>1, SettlesTypes DEF SameTask
<1>6. Onward(p) /\ \A q \in Props : q # p => Settles(q)
  BY <1>1, <1>3, <1>4 DEF Onward, Settles, ghosts
<1>7. Sound(p)'
  <2>1. old.gen \in Gens \cup {None}
    BY <1>2 DEF Rows
  <2>2. QED
    BY <1>1, <1>2, <1>3, <1>4, <1>5, <2>1, Fresh DEF Started, ghosts
<1>8. \A x \in Workers : Fits(x)'
  BY <1>1, <1>5, <1>6, Lone, Others DEF Loose
<1>9. \A q \in Props : Sound(q)'
  BY <1>1, <1>5, <1>6, <1>7, SoundAway DEF IInv
<1>10. \A v, x \in Workers : v # x => Apart(v, x)'
  BY <1>5 DEF IInv, Apart, SameTask
<1>11. QED
  BY <1>5, <1>8, <1>9, <1>10 DEF IInv

LEMMA CreateKeeps ==
    ASSUME IInv, NEW w \in Workers, NEW t, t = task[w], Create(w), UNCHANGED events
    PROVE  IInv'
<1> DEFINE p == t.p
           row == [status |-> "proposed", kind |-> t.kind, version |-> 1,
                   revision |-> t.revision, day |-> t.day,
                   expired |-> FALSE, gen |-> t.gen]
<1>1. /\ TypeOK /\ pc[w] = "drafting" /\ Over(w, "idle") /\ "idle" \in Idle
      /\ UNCHANGED <<convoVars, house, receipt, ghosts, requests>>
      /\ prop' = IF convo.present THEN [prop EXCEPT ![p] = row] ELSE prop
  BY DEF IInv, Create, Idle
<1>2. /\ t \in Tasks /\ p \in Props /\ t.kind \in Kinds
      /\ t.gen \in Gens \cup {None} /\ (t.gen # None => Begun(t.gen))
      /\ convo.present => prop[p].status = "none"
  BY <1>1, Sets DEF IInv, Fits, TypeOK, Tasks
<1>3. requests' \in Nat /\ events' \in Nat /\ pc' \in [Workers -> Steps] /\ task' \in [Workers -> Tasks]
  <2>1. requests' \in Nat /\ events' \in Nat
    BY <1>1 DEF TypeOK
  <2>2. QED
    BY <1>1, <2>1, EndTypes
<1>4. CASE convo.present
  <2>1. /\ row \in Rows /\ row.kind \in Kinds /\ row.gen = t.gen
    BY <1>2 DEF Rows, Statuses, Tasks
  <2>2. Put(p, row)
    BY <1>1, <1>4 DEF Put
  <2> HIDE DEF row
  <2>3. /\ prop' \in [Props -> Rows] /\ prop'[p] = row
        /\ \A q \in Props : q # p => prop'[q] = prop[q]
    BY <1>1, <1>2, <2>1, <2>2, Puts
  <2>4. TypeOK' /\ Converses /\ \A x \in Workers : HouseKept(x)
    BY <1>1, <1>3, <2>3, SettlesTypes
  <2>5. \A q \in Props : q # p => Settles(q)
    BY <1>1, <2>3 DEF Settles, ghosts
  <2>6. \A x \in Workers : x # w => task[x].p # p
    BY <1>1 DEF IInv, Apart
  <2>7. Sound(p)'
    <3>1. Sound(p)
      BY <1>2 DEF IInv
    <3>2. QED
      BY <1>1, <1>2, <1>4, <2>1, <2>3, <2>4, <3>1, Fresh DEF Started, ghosts
  <2>8. \A x \in Workers : x # w => Fits(x)' /\ SameTask(x)
    <3>1. \A x \in Workers : x # w => SameTask(x)
      <4>1. NoTask \in Tasks /\ "idle" \in Steps
        BY <1>1, Nothing, Sets
      <4>2. QED
        BY <1>1, <4>1, Moves DEF Over
    <3>2. QED
      BY <2>4, <2>5, <2>6, <3>1, FitsAway DEF IInv
  <2>9. Fits(w)' /\ \A x \in Workers : x # w => Apart(w, x)'
    <3>1. pc'[w] = "idle" /\ task'[w] = NoTask
      <4>1. NoTask \in Tasks /\ "idle" \in Steps
        BY <1>1, Nothing, Sets
      <4>2. QED
        BY <1>1, <4>1, Moves DEF Over
    <3>2. QED
      BY <1>1, <2>4, <2>8, <3>1, Stops DEF IInv
  <2>10. \A q \in Props : Sound(q)'
    BY <1>1, <2>4, <2>5, <2>7, SoundAway DEF IInv
  <2>11. \A v, x \in Workers : v # x => Apart(v, x)'
    BY <2>8, <2>9 DEF IInv, Apart, SameTask
  <2>12. QED
    BY <2>4, <2>8, <2>9, <2>10, <2>11 DEF IInv
<1>5. CASE ~convo.present
  <2>1. UNCHANGED <<convoVars, house, propVars, ghosts>>
    BY <1>1, <1>5 DEF propVars
  <2>2. TypeOK' /\ Converses /\ (\A q \in Props : Settles(q)) /\ \A x \in Workers : HouseKept(x)
    BY <1>1, <1>3, <2>1, Unmoved
  <2>3. QED
    BY <1>1, <2>2, Ends
<1>6. QED
  BY <1>4, <1>5

LEMMA SaveEditKeeps ==
    ASSUME IInv, NEW w \in Workers, NEW t, t = task[w], SaveEdit(w), UNCHANGED events
    PROVE  IInv'
<1> DEFINE p == t.p
           old == prop[t.p]
           next == t.v + 1
           kind == t.kind
           revision == t.revision
           day == t.day
           row == [old EXCEPT !.kind = kind, !.version = next,
                          !.revision = revision, !.day = day, !.expired = FALSE]
<1>1. /\ TypeOK /\ pc[w] = "editing" /\ Over(w, "idle") /\ "idle" \in Idle /\ RowFree(p)
      /\ UNCHANGED <<convoVars, house, receipt, ghosts, requests>>
      /\ \/ convo.present /\ Offered(p, t.v) /\ Put(p, row)
         \/ UNCHANGED prop
  BY DEF IInv, SaveEdit, Idle, Exists
<1>2. /\ t \in Tasks /\ p \in Props /\ kind \in Kinds /\ old \in Rows
      /\ revision \in Nat /\ day \in Nat /\ next \in Nat /\ t.v \in Nat
  BY <1>1, Sets DEF IInv, Fits, TypeOK, Tasks
<1>3. requests' \in Nat /\ events' \in Nat /\ pc' \in [Workers -> Steps] /\ task' \in [Workers -> Tasks]
  <2>1. requests' \in Nat /\ events' \in Nat
    BY <1>1 DEF TypeOK
  <2>2. QED
    BY <1>1, <2>1, EndTypes
<1>4. CASE convo.present /\ Offered(p, t.v) /\ Put(p, row)
  <2>1. /\ old.status = "proposed" /\ old.version = t.v /\ Sound(p)
        /\ old.gen \in Gens \cup {None} /\ (old.gen # None => Begun(old.gen))
    BY <1>2, <1>4 DEF Offered, IInv, Sound, Rows
  <2>2. /\ row \in Rows /\ row.kind = kind /\ row.gen = old.gen /\ row.version = next
    <3> HIDE DEF old, next, kind, revision, day
    <3>1. QED
      BY <1>2 DEF Rows
  <2> HIDE DEF row
  <2>3. /\ prop' \in [Props -> Rows] /\ prop'[p] = row
        /\ \A q \in Props : q # p => prop'[q] = prop[q]
    BY <1>1, <1>2, <1>4, <2>2, Puts
  <2>4. TypeOK' /\ Converses /\ \A x \in Workers : HouseKept(x)
    BY <1>1, <1>3, <2>3, SettlesTypes
  <2>5. \A q \in Props : q # p => Settles(q)
    BY <1>1, <2>3 DEF Settles, ghosts
  <2>6. Onward(p)
    BY <1>2, <1>4, <2>1, <2>2, <2>3 DEF Onward
  <2>7. Sound(p)'
    BY <1>1, <1>2, <1>4, <2>1, <2>2, <2>3, <2>4, Fresh DEF Started, ghosts
  <2>8. \A x \in Workers : x # w => HouseKept(x) /\ (task[x].p = p => Loose(x))
    BY <1>1, <1>2, <1>4, <2>1, <2>4, Lone DEF Loose
  <2>9. QED
    BY <1>1, <1>2, <2>4, <2>5, <2>6, <2>7, <2>8, EndsWith
<1>5. CASE UNCHANGED prop
  <2>1. UNCHANGED <<convoVars, house, propVars, ghosts>>
    BY <1>1, <1>5 DEF propVars
  <2>2. TypeOK' /\ Converses /\ (\A q \in Props : Settles(q)) /\ \A x \in Workers : HouseKept(x)
    BY <1>1, <1>3, <2>1, Unmoved
  <2>3. QED
    BY <1>1, <2>2, Ends
<1>6. QED
  BY <1>1, <1>4, <1>5

LEMMA ClaimRemoteKeeps ==
    ASSUME IInv, NEW w \in Workers, NEW t, t = task[w], ClaimRemote(w), UNCHANGED events
    PROVE  IInv'
<1> DEFINE p == t.p
           old == prop[t.p]
           row == [old EXCEPT !.status = "running", !.expired = FALSE]
<1>1. /\ TypeOK /\ pc[w] = "checked" /\ RowFree(p) /\ Fits(w)
      /\ UNCHANGED <<convoVars, house, receipt, ghosts, requests>>
      /\ \/ Verdict(p, t.v) = "free" /\ Put(p, row) /\ At(w, "remote") /\ UNCHANGED task
         \/ Over(w, "answered") /\ UNCHANGED prop
         \/ Over(w, "refused") /\ UNCHANGED prop
  BY DEF IInv, ClaimRemote, Starts
<1>2. /\ t \in Tasks /\ p \in Props /\ t.kind \in Kinds /\ old \in Rows
      /\ t.v \in Nat /\ t.seen \in Nat /\ old.version \in Nat
      /\ t.gen \in Gens \cup {None} /\ (t.gen # None => Begun(t.gen))
      /\ Compares(t) /\ Sound(p)
  BY <1>1, Sets DEF IInv, Fits, TypeOK, Tasks, Rows
<1>3. CASE Verdict(p, t.v) = "free" /\ Put(p, row) /\ At(w, "remote") /\ UNCHANGED task
  <2>1. /\ convo.present /\ old.status = "proposed" /\ old.version = t.v
        /\ convo.active = None
    BY <1>3, FreeVerdict DEF Offered
  <2>2. /\ old.kind \in Kinds /\ old.gen \in Gens \cup {None} /\ (old.gen # None => Begun(old.gen))
        /\ calls[p] = 0 /\ effects[p] = <<>>
        /\ t.v = t.seen /\ t.revision = old.revision
    BY <1>2, <2>1 DEF Sound, Rows, Started, Compares
  <2>3. /\ row \in Rows /\ row.status = "running" /\ row.kind = old.kind
        /\ row.gen = old.gen /\ row.version = old.version /\ row.revision = old.revision
    <3> HIDE DEF old
    <3>1. QED
      BY <1>2 DEF Rows, Statuses
  <2> HIDE DEF row
  <2>4. /\ prop' \in [Props -> Rows] /\ prop'[p] = row
        /\ \A q \in Props : q # p => prop'[q] = prop[q]
    BY <1>1, <1>2, <1>3, <2>3, Puts
  <2>5. /\ pc' \in [Workers -> Steps] /\ task' \in [Workers -> Tasks]
        /\ pc'[w] = "remote" /\ task'[w] = t
        /\ \A x \in Workers : x # w => SameTask(x)
    BY <1>1, <1>3, Stays, Sets
  <2>6. TypeOK' /\ Converses /\ \A x \in Workers : HouseKept(x)
    <3>1. requests' \in Nat /\ events' \in Nat
      BY <1>1 DEF TypeOK
    <3>2. QED
      BY <1>1, <2>4, <2>5, <3>1, SettlesTypes
  <2>7. /\ \A q \in Props : q # p => Settles(q)
        /\ Onward(p)
    BY <1>1, <1>3, <2>1, <2>3, <2>4 DEF Settles, ghosts, Onward
  <2>8. Sound(p)'
    BY <1>1, <1>2, <2>1, <2>2, <2>3, <2>4, <2>6, Fresh DEF Started, ghosts
  <2>9. \A x \in Workers : task[x].p = p => Loose(x)
    BY <1>1, <1>2, <2>1, Lone DEF Loose
  <2>10. Fits(w)'
    <3>1. UNCHANGED <<convo, calls, effects, ask>>
      BY <1>1 DEF convoVars, ghosts
    <3>2. Executes(task[w], "remote")'
      BY <1>2, <2>1, <2>2, <2>3, <2>4, <2>5, <3>1 DEF Executes, Compares, Started
    <3>3. (task[w].gen # None => Begun(task[w].gen))'
      BY <1>2, <2>5, <3>1 DEF Begun
    <3>4. (prop[task[w].p].gen # None => convo.active # prop[task[w].p].gen)'
      BY <2>1, <2>5, <3>1
    <3>5. QED
      BY <1>2, <2>5, <3>2, <3>3, <3>4, Sets DEF Fits, Idle
  <2>11. \A x \in Workers : x # w => Apart(w, x)'
    BY <2>5, <2>9 DEF Apart, SameTask, Loose
  <2>12. QED
    BY <1>2, <2>5, <2>6, <2>7, <2>8, <2>9, <2>10, <2>11, Changes
<1>4. ASSUME NEW end \in {"answered", "refused"}, Over(w, end), UNCHANGED prop
      PROVE IInv'
  <2>1. UNCHANGED <<convoVars, house, propVars, ghosts>>
    BY <1>1, <1>4 DEF propVars
  <2>2. end \in Idle
    BY DEF Idle
  <2>3. requests' \in Nat /\ events' \in Nat /\ pc' \in [Workers -> Steps] /\ task' \in [Workers -> Tasks]
    <3>1. requests' \in Nat /\ events' \in Nat
      BY <1>1 DEF TypeOK
    <3>2. QED
      BY <1>1, <1>4, <2>2, <3>1, EndTypes
  <2>4. TypeOK' /\ Converses /\ (\A q \in Props : Settles(q)) /\ \A x \in Workers : HouseKept(x)
    BY <1>1, <2>1, <2>3, Unmoved
  <2>5. QED
    BY <1>4, <2>2, <2>4, Ends
<1>5. QED
  BY <1>1, <1>3, <1>4

LEMMA CallKeeps ==
    ASSUME IInv, NEW w \in Workers, NEW t, t = task[w], Call(w), UNCHANGED events
    PROVE  IInv'
<1> DEFINE p == t.p
<1>1. /\ TypeOK /\ pc[w] = "remote" /\ Fits(w)
      /\ UNCHANGED <<convoVars, house, propVars, effects, task, requests>>
      /\ \/ calls' = [calls EXCEPT ![p] = @ + 1] /\ At(w, "applying")
         \/ calls' = [calls EXCEPT ![p] = @ + 1] /\ At(w, "failing")
         \/ UNCHANGED calls /\ At(w, "failing")
  BY DEF IInv, Call, Failed
<1>2. /\ t \in Tasks /\ p \in Props /\ t.kind \in Kinds
      /\ t.gen \in Gens \cup {None} /\ (t.gen # None => Begun(t.gen))
      /\ Executes(t, "remote") /\ Sound(p) /\ calls[p] = 0
      /\ prop[p].gen # None => convo.active # prop[p].gen
  BY <1>1, Sets DEF IInv, Fits, TypeOK, Tasks, Executes
<1>3. PICK s \in {"applying", "failing"} : At(w, s)
  BY <1>1
<1>4. /\ pc' \in [Workers -> Steps] /\ task' \in [Workers -> Tasks]
      /\ pc'[w] = s /\ task'[w] = t
      /\ \A x \in Workers : x # w => SameTask(x)
  BY <1>1, <1>3, Stays, Sets
<1>5. /\ calls' \in [Props -> Nat] /\ calls'[p] <= 1
      /\ \A q \in Props : q # p => calls'[q] = calls[q]
  <2>1. calls \in [Props -> Nat] /\ calls[p] + 1 = 1
    BY <1>1, <1>2 DEF TypeOK
  <2>2. calls' = [calls EXCEPT ![p] = 1] \/ calls' = calls
    BY <1>1, <2>1
  <2>3. CASE calls' = [calls EXCEPT ![p] = 1]
    BY <1>2, <2>1, <2>3
  <2>4. CASE calls' = calls
    BY <1>2, <2>1, <2>4
  <2>5. QED
    BY <2>2, <2>3, <2>4
<1>6. UNCHANGED <<convo, gen, saved, ask, house, prop, receipt, effects, requests, events>>
  BY <1>1 DEF convoVars, propVars
<1>7. TypeOK' /\ Converses /\ \A x \in Workers : HouseKept(x)
  BY <1>1, <1>4, <1>5, <1>6 DEF TypeOK, ConversationTypes, Converses, Begun, HouseKept
<1>8. /\ \A q \in Props : q # p => Settles(q)
      /\ Onward(p)
  BY <1>5, <1>6 DEF Settles, Onward
<1>9. Sound(p)'
  BY <1>2, <1>5, <1>6 DEF Sound, Executes, Reviewed, Received, Begun
<1>10. \A x \in Workers : x # w => (task[x].p = p => Loose(x))
  BY <1>1, Held, Sets
<1>11. Fits(w)'
  <2>1. Executes(task[w], s)'
    BY <1>2, <1>3, <1>4, <1>6 DEF Executes
  <2>2. QED
    BY <1>2, <1>3, <1>4, <1>6, <2>1, Sets DEF Fits, Idle, Begun
<1>12. \A x \in Workers : x # w => Apart(w, x)'
  BY <1>3, <1>4, <1>10 DEF Apart, SameTask, Loose
<1>13. QED
  BY <1>2, <1>4, <1>7, <1>8, <1>9, <1>10, <1>11, <1>12, Changes

(* What an execution adds: its own effect, the first one.                  *)
LEMMA Effected ==
    ASSUME TypeOK, NEW t \in Tasks, t.p \in Props, t.kind \in Kinds, NEW version \in Nat,
           effects[t.p] = <<>>, Effect(t, version)
    PROVE  /\ effects' \in [Props -> Seq(Effects)]
           /\ Len(effects'[t.p]) = 1
           /\ effects'[t.p][1].asked = t.v /\ effects'[t.p][1].did = version
           /\ effects'[t.p][1].kind = t.kind /\ effects'[t.p][1].day = t.day
           /\ effects'[t.p][1].revision = house.revision
           /\ \A q \in Props : q # t.p => effects'[q] = effects[q]
<1> DEFINE e == [asked |-> t.v, did |-> version, kind |-> t.kind,
                 revision |-> house.revision, day |-> t.day]
<1>1. /\ e \in Effects
      /\ e.asked = t.v /\ e.did = version /\ e.kind = t.kind /\ e.day = t.day
      /\ e.revision = house.revision
  BY DEF TypeOK, Tasks, Effects
<1>2. effects' = [effects EXCEPT ![t.p] = Append(<<>>, e)]
  BY DEF Effect
<1> HIDE DEF e
<1>3. Append(<<>>, e) \in Seq(Effects) /\ Len(Append(<<>>, e)) = 1 /\ Append(<<>>, e)[1] = e
  BY <1>1
<1>4. QED
  BY <1>1, <1>2, <1>3 DEF TypeOK

LEMMA ApplyKeeps ==
    ASSUME IInv, NEW w \in Workers, NEW t, t = task[w], Apply(w), UNCHANGED events
    PROVE  IInv'
<1> DEFINE p == t.p
<1>1. /\ TypeOK /\ pc[w] = "applying" /\ Fits(w)
      /\ UNCHANGED <<convo, gen, saved, ask, prop, receipt, calls, task, requests, events>>
  BY DEF IInv, Apply, convoVars, propVars
<1>2. /\ t \in Tasks /\ p \in Props /\ t.kind \in Kinds /\ t.seen \in Nat
      /\ t.gen \in Gens \cup {None} /\ (t.gen # None => Begun(t.gen))
      /\ Executes(t, "applying") /\ Sound(p) /\ effects[p] = <<>>
      /\ prop[p].gen # None => convo.active # prop[p].gen
  BY <1>1, Sets DEF IInv, Fits, TypeOK, Tasks, Executes
<1>3. Converses /\ ConversationTypes' /\ Onward(p)
  BY <1>1 DEF TypeOK, ConversationTypes, Converses, Begun, Onward
<1>4. \A x \in Workers : x # w => (task[x].p = p => Loose(x))
  BY <1>1, Held, Sets
<1>5. CASE At(w, "completing") /\ Effect(t, t.seen)
           /\ \/ /\ t.kind = "bank" /\ HouseFree /\ house.revision = t.revision
                 /\ house' = [house EXCEPT !.revision = @ + 1]
              \/ t.kind = "import" /\ UNCHANGED house
  <2>1. /\ pc' \in [Workers -> Steps] /\ task' \in [Workers -> Tasks]
        /\ pc'[w] = "completing" /\ task'[w] = t
        /\ \A x \in Workers : x # w => SameTask(x)
    BY <1>1, <1>5, Stays, Sets
  <2> DEFINE e == effects'[p][1]
  <2>2. /\ effects' \in [Props -> Seq(Effects)] /\ Len(effects'[p]) = 1
        /\ e.asked = t.v /\ e.did = t.seen /\ e.kind = t.kind /\ e.revision = house.revision
        /\ \A q \in Props : q # p => effects'[q] = effects[q]
    BY <1>1, <1>2, <1>5, Effected
  <2>3. /\ house' \in [revision : Nat, day : Nat, writer : BOOLEAN]
        /\ HouseFree \/ house' = house
        /\ t.kind = "bank" => house.revision = t.revision
    <3>1. house \in [revision : Nat, day : Nat, writer : BOOLEAN]
      BY <1>1 DEF TypeOK
    <3> DEFINE next == house.revision + 1
    <3>2. next \in Nat /\ (house' = [house EXCEPT !.revision = next] \/ house' = house)
      BY <1>5, <3>1
    <3> HIDE DEF next
    <3>3. QED
      BY <1>5, <3>1, <3>2
  <2>4. TypeOK'
    BY <1>1, <1>3, <2>1, <2>2, <2>3 DEF TypeOK
  <2>5. \A x \in Workers : HouseKept(x)
    BY <2>3 DEF HouseKept, HouseFree, Claimed
  <2>6. \A q \in Props : q # p => Settles(q)
    BY <1>1, <2>2 DEF Settles
  <2>7. Sound(p)'
    <3>1. receipt[p] = None
      <4>1. Len(effects[p]) # 1
        BY <1>2
      <4>2. QED
        BY <1>2, <4>1 DEF Sound, Received
    <3>2. Reviewed(p)'
      <4>1. e.kind # "write" /\ (e.kind \in Guarded => e.revision = t.revision)
        BY <1>2, <2>2, <2>3 DEF Executes, Remote, Guarded
      <4>2. t.v = t.seen /\ (convo.present => t.seen = prop[p].version /\ t.revision = prop[p].revision)
        BY <1>2 DEF Executes
      <4> HIDE DEF e
      <4>3. /\ e.asked = e.did
            /\ convo'.present =>
                  /\ e.did = prop'[p].version
                  /\ e.kind \in Guarded => e.revision = prop'[p].revision
                  /\ e.kind = "write" => e.day = prop'[p].day
        BY <1>1, <2>2, <4>1, <4>2
      <4>4. QED
        BY <4>3 DEF Reviewed, e
    <3>3. Received(p)'
      <4>1. e.kind \notin Local
        BY <1>2, <2>2 DEF Executes, Remote, Local
      <4>2. QED
        BY <1>1, <3>1, <4>1 DEF Received
    <3>4. /\ convo.present => prop[p].status \in Started
          /\ ~convo.present => prop[p].status = "none"
      BY <1>2 DEF Executes, Sound
    <3>5. QED
      BY <1>1, <1>2, <2>2, <3>1, <3>2, <3>3, <3>4 DEF Sound, Begun
  <2>8. Fits(w)'
    <3>1. Executes(task[w], "completing")'
      BY <1>1, <1>2, <2>1, <2>2, <2>3 DEF Executes
    <3>2. QED
      BY <1>1, <1>2, <2>1, <3>1, Sets DEF Fits, Idle, Begun
  <2>9. \A x \in Workers : x # w => Apart(w, x)'
    BY <1>4, <2>1 DEF Apart, SameTask, Loose
  <2>10. QED
    BY <1>2, <1>3, <1>4, <2>1, <2>4, <2>5, <2>6, <2>7, <2>8, <2>9, Changes
<1>6. CASE At(w, "failing") /\ UNCHANGED <<house, effects>>
  <2>1. /\ pc' \in [Workers -> Steps] /\ task' \in [Workers -> Tasks]
        /\ pc'[w] = "failing" /\ task'[w] = t
        /\ \A x \in Workers : x # w => SameTask(x)
    BY <1>1, <1>6, Stays, Sets
  <2>2. TypeOK' /\ \A x \in Workers : HouseKept(x)
    BY <1>1, <1>3, <1>6, <2>1 DEF TypeOK, HouseKept
  <2>3. \A q \in Props : Settles(q)
    BY <1>1, <1>6 DEF Settles
  <2>4. Fits(w)'
    <3>1. Executes(task[w], "failing")'
      BY <1>1, <1>2, <1>6, <2>1 DEF Executes
    <3>2. QED
      BY <1>1, <1>2, <2>1, <3>1, Sets DEF Fits, Idle, Begun
  <2>5. \A x \in Workers : x # w => Apart(w, x)'
    BY <1>4, <2>1 DEF Apart, SameTask, Loose
  <2>6. QED
    BY <1>3, <2>1, <2>2, <2>3, <2>4, <2>5, Quiet
<1>7. QED
  BY <1>5, <1>6 DEF Apply, Failed

(* A receipt tells of its proposal, and joins the answer that proposed it. *)
LEMMA Receipted ==
    ASSUME TypeOK, NEW p \in Props, NEW revision \in Nat, Succeeds(p, revision)
    PROVE  /\ UNCHANGED <<convo, gen, ask>> /\ Converses
           /\ saved' \in [Gens -> SUBSET Props]
           /\ prop' \in [Props -> Rows] /\ prop'[p].status = "succeeded"
           /\ prop'[p].kind = prop[p].kind /\ prop'[p].version = prop[p].version
           /\ prop'[p].revision = prop[p].revision /\ prop'[p].day = prop[p].day
           /\ prop'[p].gen = prop[p].gen
           /\ receipt' \in [Props -> [version : Nat, revision : Nat] \cup {None}]
           /\ receipt'[p] # None /\ receipt'[p].version = prop[p].version
           /\ receipt'[p].revision = revision
           /\ \A q \in Props : q # p => prop'[q] = prop[q] /\ receipt'[q] = receipt[q]
           /\ prop[p].gen # None /\ gen[prop[p].gen].status = "completed"
                 => p \in saved'[prop[p].gen]
<1> DEFINE old == prop[p]
           row == [old EXCEPT !.status = "succeeded"]
           version == prop[p].version
           new == [version |-> version, revision |-> revision]
<1>1. /\ Put(p, row) /\ receipt' = [receipt EXCEPT ![p] = new] /\ saved' = Attached(p)
      /\ UNCHANGED <<convo, gen, ask>>
  BY DEF Succeeds
<1>2. old \in Rows /\ version \in Nat /\ old.gen \in Gens \cup {None}
      /\ saved \in [Gens -> SUBSET Props]
  BY DEF TypeOK, Rows
<1>3. /\ row \in Rows /\ row.status = "succeeded"
      /\ row.kind = old.kind /\ row.version = old.version /\ row.revision = old.revision
      /\ row.day = old.day /\ row.gen = old.gen
  <2> HIDE DEF old
  <2>1. QED
    BY <1>2 DEF Rows, Statuses
<1>4. /\ saved' \in [Gens -> SUBSET Props]
      /\ \A g \in Gens : saved[g] \subseteq saved'[g]
      /\ old.gen # None /\ gen[old.gen].status = "completed" => p \in saved'[old.gen]
  <2>1. CASE old.gen # None /\ gen[old.gen].status = "completed"
    <3>1. saved' = [saved EXCEPT ![old.gen] = @ \cup {p}]
      BY <1>1, <2>1 DEF Attached
    <3> HIDE DEF old
    <3>2. QED
      BY <1>2, <2>1, <3>1
  <2>2. CASE ~(old.gen # None /\ gen[old.gen].status = "completed")
    BY <1>1, <1>2, <2>2 DEF Attached
  <2>3. QED
    BY <2>1, <2>2
<1> HIDE DEF row, version
<1>5. new \in [version : Nat, revision : Nat] /\ new.version = version /\ new.revision = revision
      /\ new # None
  BY <1>2, ProposalAssumption
<1> HIDE DEF new
<1>6. /\ prop' \in [Props -> Rows] /\ prop'[p] = row
      /\ \A q \in Props : q # p => prop'[q] = prop[q]
  BY <1>1, <1>3, Puts
<1>7. /\ receipt' \in [Props -> [version : Nat, revision : Nat] \cup {None}]
      /\ receipt'[p] = new /\ \A q \in Props : q # p => receipt'[q] = receipt[q]
  BY <1>1, <1>5 DEF TypeOK
<1>8. Converses
  BY <1>1, <1>4 DEF Converses, Begun
<1>9. QED
  BY <1>1, <1>3, <1>4, <1>5, <1>6, <1>7, <1>8 DEF version

(* An execution that has its effect gets its receipt. *)
LEMMA SucceedsSound ==
    ASSUME IInv, NEW p \in Props, NEW revision \in Nat, Succeeds(p, revision),
           convo.present, UNCHANGED calls, Len(effects'[p]) = 1, Reviewed(p)',
           effects'[p][1].did = prop[p].version,
           effects'[p][1].kind \in Guarded => revision = effects'[p][1].revision + 1,
           prop[p].status # "none",
           prop[p].gen # None => convo.active # prop[p].gen
    PROVE  Sound(p)'
<1>1. TypeOK /\ Sound(p)
  BY DEF IInv
<1>2. /\ UNCHANGED <<convo, gen, ask>>
      /\ prop'[p].status = "succeeded" /\ prop'[p].kind = prop[p].kind
      /\ prop'[p].gen = prop[p].gen
      /\ receipt'[p] # None /\ receipt'[p].version = prop[p].version
      /\ receipt'[p].revision = revision
      /\ prop[p].gen # None /\ gen[prop[p].gen].status = "completed"
            => p \in saved'[prop[p].gen]
  BY <1>1, Receipted
<1>3. Received(p)'
  BY <1>2 DEF Received
<1>4. QED
  BY <1>1, <1>2, <1>3 DEF Sound, Started, Begun

LEMMA CompleteKeeps ==
    ASSUME IInv, NEW w \in Workers, NEW t, t = task[w], Complete(w), UNCHANGED events
    PROVE  IInv'
<1> DEFINE p == t.p
           revision == IF t.kind = "bank" THEN t.revision + 1 ELSE t.revision
<1>1. /\ TypeOK /\ pc[w] = "completing" /\ Fits(w)
      /\ UNCHANGED <<house, calls, effects, requests, events>>
      /\ \/ /\ Exists(p) /\ Succeeds(p, revision)
            /\ Over(w, "answered") \/ (At(w, "failing") /\ UNCHANGED task)
         \/ At(w, "failing") /\ UNCHANGED <<convoVars, propVars, task>>
  BY DEF IInv, Complete, Failed, ghosts
<1>2. /\ t \in Tasks /\ p \in Props /\ t.kind \in Kinds /\ revision \in Nat /\ t.revision \in Nat
      /\ t.gen \in Gens \cup {None} /\ (t.gen # None => Begun(t.gen))
      /\ Executes(t, "completing") /\ Sound(p)
      /\ prop[p].gen # None => convo.active # prop[p].gen
  <2>1. /\ t \in Tasks /\ p \in Props /\ t.kind \in Kinds
        /\ t.gen \in Gens \cup {None} /\ (t.gen # None => Begun(t.gen))
        /\ Executes(t, "completing") /\ Sound(p)
        /\ prop[p].gen # None => convo.active # prop[p].gen
    BY <1>1, Sets DEF IInv, Fits, TypeOK, Tasks
  <2>2. t.revision \in Nat
    BY <2>1 DEF Tasks
  <2>3. QED
    BY <2>1, <2>2
<1>3. \A x \in Workers : x # w => (task[x].p = p => Loose(x))
  BY <1>1, Held, Sets
<1>4. CASE Exists(p) /\ Succeeds(p, revision)
  <2>1. /\ UNCHANGED <<convo, gen, ask>> /\ Converses
        /\ saved' \in [Gens -> SUBSET Props] /\ prop' \in [Props -> Rows]
        /\ prop'[p].status = "succeeded"
        /\ prop'[p].version = prop[p].version /\ prop'[p].revision = prop[p].revision
        /\ prop'[p].gen = prop[p].gen
        /\ receipt' \in [Props -> [version : Nat, revision : Nat] \cup {None}]
        /\ \A q \in Props : q # p => prop'[q] = prop[q] /\ receipt'[q] = receipt[q]
    BY <1>1, <1>2, <1>4, Receipted
  <2>2. /\ pc' \in [Workers -> Steps] /\ task' \in [Workers -> Tasks] => TypeOK'
        /\ \A x \in Workers : HouseKept(x)
    BY <1>1, <2>1 DEF TypeOK, ConversationTypes, HouseKept
  <2>3. /\ \A q \in Props : q # p => Settles(q)
        /\ Onward(p)
    BY <1>1, <2>1 DEF Settles, Onward
  <2>4. Sound(p)'
    <3>1. convo.present /\ prop[p].status # "none"
      BY <1>4 DEF Exists
    <3>2. Len(effects[p]) = 1 /\ effects[p][1].kind = t.kind
          /\ (t.kind = "bank" => effects[p][1].revision = t.revision)
          /\ t.kind \in Remote
      BY <1>2 DEF Executes
    <3>3. Reviewed(p) /\ effects[p][1].did = prop[p].version
      BY <1>2, <3>1, <3>2 DEF Sound, Reviewed
    <3>4. Reviewed(p)'
      <4>1. prop'[p].day = prop[p].day
        BY <1>1, <1>2, <1>4, Receipted
      <4>2. QED
        BY <1>1, <2>1, <3>3, <4>1 DEF Reviewed
    <3>5. t.kind \in Guarded => revision = effects[p][1].revision + 1
      BY <3>2 DEF Guarded, Remote
    <3> HIDE DEF revision
    <3>6. QED
      BY <1>1, <1>2, <1>4, <3>1, <3>2, <3>3, <3>4, <3>5, SucceedsSound
  <2>5. CASE Over(w, "answered")
    <3>1. "answered" \in Idle
      BY DEF Idle
    <3>2. TypeOK'
      BY <1>1, <2>2, <2>5, <3>1, EndTypes
    <3>3. QED
      BY <1>2, <1>3, <2>1, <2>2, <2>3, <2>4, <2>5, <3>1, <3>2, EndsWith
  <2>6. CASE At(w, "failing") /\ UNCHANGED task
    <3>1. /\ pc' \in [Workers -> Steps] /\ task' \in [Workers -> Tasks]
          /\ pc'[w] = "failing" /\ task'[w] = t
          /\ \A x \in Workers : x # w => SameTask(x)
      BY <1>1, <2>6, Stays, Sets
    <3>2. Fits(w)'
      <4>1. Executes(task[w], "failing")'
        BY <1>1, <1>2, <2>1, <3>1 DEF Executes, Started
      <4>2. QED
        BY <1>1, <1>2, <2>1, <3>1, <4>1, Sets DEF Fits, Idle, Begun
    <3>3. \A x \in Workers : x # w => Apart(w, x)'
      BY <1>3, <3>1 DEF Apart, SameTask, Loose
    <3>4. QED
      BY <1>2, <1>3, <2>1, <2>2, <2>3, <2>4, <3>1, <3>2, <3>3, Changes
  <2>7. QED
    <3>1. Over(w, "answered") \/ (At(w, "failing") /\ UNCHANGED task)
      BY <1>1
    <3>2. QED
      BY <2>5, <2>6, <3>1
<1>5. CASE At(w, "failing") /\ UNCHANGED <<convoVars, propVars, task>>
  <2>1. /\ pc' \in [Workers -> Steps] /\ task' \in [Workers -> Tasks]
        /\ pc'[w] = "failing" /\ task'[w] = t
        /\ \A x \in Workers : x # w => SameTask(x)
    BY <1>1, <1>5, Stays, Sets
  <2>2. UNCHANGED <<convo, ask, prop>>
    BY <1>5 DEF convoVars, propVars
  <2>3. TypeOK' /\ Converses /\ (\A q \in Props : Settles(q)) /\ \A x \in Workers : HouseKept(x)
    <3>1. requests' \in Nat /\ events' \in Nat
      BY <1>1 DEF TypeOK
    <3>2. QED
      BY <1>1, <1>5, <2>1, <3>1, Unmoved DEF ghosts
  <2>4. Fits(w)'
    <3>1. Executes(task[w], "failing")'
      BY <1>1, <1>2, <2>1, <2>2 DEF Executes
    <3>2. QED
      BY <1>1, <1>2, <2>1, <2>2, <3>1, Sets DEF Fits, Idle, Begun
  <2>5. \A x \in Workers : x # w => Apart(w, x)'
    BY <1>3, <2>1 DEF Apart, SameTask, Loose
  <2>6. QED
    BY <2>1, <2>3, <2>4, <2>5, Quiet
<1>6. QED
  BY <1>1, <1>4, <1>5

LEMMA CommitKeeps ==
    ASSUME IInv, NEW w \in Workers, NEW t, t = task[w], Commit(w), UNCHANGED events
    PROVE  IInv'
<1> DEFINE p == t.p
           next == house.revision + 1
           revision == IF t.kind = "write" THEN next ELSE t.revision
           version == prop[t.p].version
<1>1. /\ TypeOK /\ pc[w] = "claimed" /\ Fits(w)
      /\ UNCHANGED <<calls, requests, events>>
      /\ \/ /\ Effect(t, version) /\ Succeeds(p, revision) /\ Over(w, "answered")
            /\ house' = IF t.kind = "write" THEN [house EXCEPT !.revision = next] ELSE house
         \/ Over(w, "refused") /\ UNCHANGED <<convoVars, house, propVars, effects>>
  BY DEF IInv, Commit
<1>2. /\ t \in Tasks /\ p \in Props /\ t.kind \in Kinds /\ Claims(t) /\ Sound(p)
      /\ prop[p].gen # None => convo.active # prop[p].gen
  BY <1>1, Sets DEF IInv, Fits, TypeOK
<1>3. /\ next \in Nat /\ revision \in Nat /\ version \in Nat
      /\ house \in [revision : Nat, day : Nat, writer : BOOLEAN]
  BY <1>1, <1>2 DEF TypeOK, Tasks, Rows
<1>4. \A x \in Workers : x # w => (task[x].p = p => Loose(x))
  BY <1>1, Held, Sets
<1>5. "answered" \in Idle /\ "refused" \in Idle
  BY DEF Idle
<1>6. CASE Effect(t, version) /\ Succeeds(p, revision) /\ Over(w, "answered")
           /\ house' = IF t.kind = "write" THEN [house EXCEPT !.revision = next] ELSE house
  <2>1. /\ UNCHANGED <<convo, gen, ask>> /\ Converses
        /\ saved' \in [Gens -> SUBSET Props] /\ prop' \in [Props -> Rows]
        /\ prop'[p].version = prop[p].version /\ prop'[p].revision = prop[p].revision
        /\ prop'[p].day = prop[p].day /\ prop'[p].gen = prop[p].gen
        /\ receipt' \in [Props -> [version : Nat, revision : Nat] \cup {None}]
        /\ \A q \in Props : q # p => prop'[q] = prop[q] /\ receipt'[q] = receipt[q]
    BY <1>1, <1>2, <1>3, <1>6, Receipted
  <2>2. /\ convo.present /\ prop[p].status = "proposed" /\ prop[p].version = t.v
        /\ t.kind \in Local /\ effects[p] = <<>>
        /\ t.kind = "write" => house.revision = prop[p].revision /\ t.day = prop[p].day
    BY <1>2 DEF Claims, Offered, Sound, Started
  <2> DEFINE e == effects'[p][1]
  <2>3. /\ effects' \in [Props -> Seq(Effects)] /\ Len(effects'[p]) = 1
        /\ e.asked = t.v /\ e.did = version /\ e.kind = t.kind /\ e.day = t.day
        /\ e.revision = house.revision
        /\ \A q \in Props : q # p => effects'[q] = effects[q]
    BY <1>1, <1>2, <1>3, <1>6, <2>2, Effected
  <2>4. house' \in [revision : Nat, day : Nat, writer : BOOLEAN]
        /\ (t.kind # "write" => house' = house)
    <3> HIDE DEF next
    <3>1. QED
      BY <1>3, <1>6
  <2>5. TypeOK'
    <3>1. pc' \in [Workers -> Steps] /\ task' \in [Workers -> Tasks]
      BY <1>1, <1>5, <1>6, EndTypes
    <3>2. QED
      BY <1>1, <2>1, <2>3, <2>4, <3>1 DEF TypeOK, ConversationTypes
  <2>6. \A x \in Workers : x # w => HouseKept(x)
    BY <1>1, <2>4 DEF HouseKept, IInv, Apart
  <2>7. /\ \A q \in Props : q # p => Settles(q)
        /\ Onward(p)
    BY <1>1, <2>1, <2>3 DEF Settles, Onward
  <2>8. Sound(p)'
    <3>1. Reviewed(p)'
      <4>1. e.kind \in Guarded => e.kind = "write"
        BY <2>2, <2>3 DEF Local, Guarded
      <4> HIDE DEF e
      <4>2. /\ e.asked = e.did
            /\ convo'.present =>
                  /\ e.did = prop'[p].version
                  /\ e.kind \in Guarded => e.revision = prop'[p].revision
                  /\ e.kind = "write" => e.day = prop'[p].day
        BY <2>1, <2>2, <2>3, <4>1
      <4>3. QED
        BY <4>2 DEF Reviewed, e
    <3>2. e.kind \in Guarded => revision = e.revision + 1
      BY <2>2, <2>3 DEF Local, Guarded
    <3>3. e.did = prop[p].version
      BY <2>3
    <3> HIDE DEF revision, version
    <3>4. QED
      BY <1>1, <1>2, <1>3, <1>6, <2>2, <2>3, <3>1, <3>2, <3>3, SucceedsSound
  <2>9. QED
    BY <1>2, <1>4, <1>5, <1>6, <2>1, <2>5, <2>6, <2>7, <2>8, EndsWith
<1>7. CASE Over(w, "refused") /\ UNCHANGED <<convoVars, house, propVars, effects>>
  <2>1. TypeOK' /\ Converses /\ (\A q \in Props : Settles(q)) /\ \A x \in Workers : HouseKept(x)
    <3>1. requests' \in Nat /\ events' \in Nat
      BY <1>1 DEF TypeOK
    <3>2. pc' \in [Workers -> Steps] /\ task' \in [Workers -> Tasks]
      BY <1>1, <1>5, <1>7, EndTypes
    <3>3. QED
      BY <1>1, <1>7, <3>1, <3>2, Unmoved DEF ghosts
  <2>2. QED
    BY <1>5, <1>7, <2>1, Ends
<1>8. QED
  BY <1>1, <1>6, <1>7

(* The conversation goes with its proposals; what executes them finds      *)
(* nothing to complete.                                                    *)
LEMMA DeleteKeeps ==
    ASSUME IInv, Conversing, NEW w \in Workers, Delete(w), UNCHANGED events
    PROVE  IInv'
<1>1. /\ TypeOK /\ Remove /\ Claimed = {} /\ Over(w, "idle") /\ "idle" \in Idle
      /\ prop' = [p \in Props |-> Blank] /\ receipt' = [p \in Props |-> None]
      /\ UNCHANGED <<house, calls, effects, requests, events>>
  BY DEF IInv, Delete, Idle, ghosts
<1>2. /\ NoTask \in Tasks /\ "idle" \in Steps
      /\ Blank \in Rows /\ Blank.status = "none" /\ Blank.gen = None
  BY <1>1, Nothing, Sets
<1>3. /\ pc' \in [Workers -> Steps] /\ task' \in [Workers -> Tasks]
      /\ pc'[w] = "idle" /\ task'[w] = NoTask
      /\ \A x \in Workers : x # w => SameTask(x)
  BY <1>1, <1>2, Moves DEF Over
<1>4. /\ convo'.present = FALSE /\ ask' = ask /\ ConversationTypes'
      /\ saved' \in [Gens -> SUBSET Props]
  <2>1. ConversationTypes'
    BY <1>1, RemoveKeeps DEF Conversing
  <2>2. convo'.present = FALSE
    <3> DEFINE freed == Free
    <3>1. convo' = [freed EXCEPT !.present = FALSE]
      BY <1>1 DEF Remove
    <3>2. freed \in [present : BOOLEAN, active : Gens \cup {None},
                     lease : {"free", "held", "lapsed"}, version : Nat, context : Gens \cup {None}]
      BY DEF Free, Conversing, ConversationTypes
    <3> HIDE DEF freed
    <3>3. QED
      BY <3>1, <3>2
  <2>3. QED
    BY <1>1, <2>1, <2>2 DEF Remove
<1>5. TypeOK'
  BY <1>1, <1>2, <1>3, <1>4 DEF TypeOK
<1>6. ASSUME NEW x \in Workers, x # w
      PROVE  Fits(x)'
  <2>1. Fits(x) /\ SameTask(x) /\ pc[x] # "claimed" /\ task[x] \in Tasks
    BY <1>1, <1>3, <1>6 DEF IInv, Claimed, TypeOK
  <2>2. pc[x] \in Working => task[x].p \in Props /\ prop'[task[x].p].gen = None
    BY <1>1, <1>2, <2>1 DEF Fits
  <2>3. pc[x] \in {"checking", "checked"} => Compares(task[x])'
    BY <1>4, <2>1 DEF Fits, SameTask, Compares
  <2>4. pc[x] \in Executing => Executes(task[x], pc[x])'
    BY <1>1, <1>4, <2>1 DEF Fits, SameTask, Executes
  <2>5. task[x].gen # None => Begun(task[x].gen)'
    BY <1>4, <2>1 DEF Fits, SameTask, Begun
  <2>6. QED
    BY <1>4, <2>1, <2>2, <2>3, <2>4, <2>5, Sets DEF Fits, SameTask
<1>7. Fits(w)' /\ \A x \in Workers : x # w => Apart(w, x)'
  BY <1>1, <1>3, <1>5, Stops DEF IInv
<1>8. \A v, x \in Workers : v # x => Apart(v, x)'
  BY <1>3, <1>7 DEF IInv, Apart, SameTask
<1>9. \A p \in Props : Sound(p)'
  <2> SUFFICES ASSUME NEW p \in Props PROVE Sound(p)'
    OBVIOUS
  <2>1. Sound(p) /\ prop'[p] = Blank /\ receipt'[p] = None
    BY <1>1 DEF IInv
  <2>2. Reviewed(p)'
    BY <1>1, <1>4, <2>1 DEF Sound, Reviewed
  <2>3. Received(p)'
    BY <1>4, <2>1 DEF Received
  <2>4. QED
    BY <1>1, <1>2, <1>4, <2>1, <2>2, <2>3 DEF Sound
<1>10. QED
  BY <1>5, <1>6, <1>7, <1>8, <1>9 DEF IInv

-----------------------------------------------------------------------------
LEMMA StepKeeps ==
    ASSUME IInv, Conversing, [Next]_vars
    PROVE  IInv'
<1>1. CASE UNCHANGED vars
  <2>1. UNCHANGED <<convoVars, house, propVars, ghosts, pc, task, requests, events>>
    BY <1>1 DEF vars
  <2>2. TypeOK' /\ Converses /\ (\A q \in Props : Settles(q)) /\ \A x \in Workers : HouseKept(x)
    <3>1. /\ TypeOK /\ pc' \in [Workers -> Steps] /\ task' \in [Workers -> Tasks]
          /\ requests' \in Nat /\ events' \in Nat
      BY <2>1 DEF IInv, TypeOK
    <3>2. QED
      BY <2>1, <3>1, Unmoved
  <2>3. \A x \in Workers : SameTask(x)
    BY <2>1 DEF SameTask
  <2>4. QED
    BY <2>2, <2>3, Steady
<1>2. ASSUME NEW w \in Workers, Step(w)
      PROVE  IInv'
  BY <1>2, CreateKeeps, SaveEditKeeps, ClaimKeeps, CommitKeeps, LookKeeps, CheckKeeps,
     ClaimRemoteKeeps, CallKeeps, ApplyKeeps, CompleteKeeps, UncertainKeeps, DeleteKeeps DEF Step
<1>3. CASE Request
  BY <1>3, DraftKeeps, StartEditKeeps, ConfirmKeeps, StartDeleteKeeps, CancelKeeps DEF Request
<1>4. ASSUME NEW p \in Props, (UNCHANGED events /\ Sweep(p)) \/ Expire(p)
      PROVE  IInv'
  BY <1>4, SweepKeeps, ExpireKeeps
<1>5. CASE Talk \/ World
  BY <1>5, TalkKeeps, WorldKeeps
<1>6. QED
  BY <1>1, <1>2, <1>3, <1>4, <1>5 DEF Next

LEMMA Inductive == Spec => []IInv
<1>1. PInit => IInv
  BY InitKeeps
<1>2. IInv /\ Conversing /\ [Next]_vars => IInv'
  BY StepKeeps
<1>3. QED
  BY <1>1, <1>2, ConversingAlways, PTL DEF Spec

(* Every variable stays within its type.                                   *)
THEOREM TypeCorrect == Spec => []TypeOK
<1>1. IInv => TypeOK
  BY DEF IInv
<1>2. QED
  BY <1>1, Inductive, PTL

(* However many requests, retries and crashes: no provider is called twice *)
(* for a proposal and nothing is applied twice (confirm_provider, confirm),*)
(* and what may have happened is never offered again (mark_uncertain).     *)
THEOREM OnceCorrect == Spec => []ExecutedOnce
<1>1. IInv => ExecutedOnce
  BY DEF IInv, Sound, ExecutedOnce, NeverOfferedAgain, Started
<1>2. QED
  BY <1>1, Inductive, PTL

(* What ran is what was reviewed (ProposalService.check).                  *)
THEOREM ReviewCorrect == Spec => []ReviewedExactly
<1>1. IInv => ReviewedExactly
  <2> SUFFICES ASSUME IInv, NEW p \in Props, NEW i \in DOMAIN effects[p]
               PROVE /\ effects[p][i].asked = effects[p][i].did
                     /\ convo.present =>
                          /\ effects[p][i].did = prop[p].version
                          /\ effects[p][i].kind \in Guarded =>
                                effects[p][i].revision = prop[p].revision
                          /\ effects[p][i].kind = "write" => effects[p][i].day = prop[p].day
    BY DEF ReviewedExactly
  <2>1. effects[p] \in Seq(Effects) /\ Len(effects[p]) <= 1
    BY DEF IInv, TypeOK, Sound
  <2>2. Len(effects[p]) = 1 /\ i = 1
    <3> DEFINE n == Len(effects[p])
    <3>1. n \in Nat /\ n <= 1 /\ i \in 1..n
      BY <2>1
    <3> HIDE DEF n
    <3>2. n = 1 /\ i = 1
      BY <3>1
    <3>3. QED
      BY <3>2 DEF n
  <2>3. Reviewed(p)
    BY DEF IInv, Sound
  <2>4. QED
    BY <2>2, <2>3 DEF Reviewed
<1>2. QED
  BY <1>1, Inductive, PTL

(* A receipt is true, a local change has one, and a completed answer shows *)
(* the receipts of what it proposed (ProposalService.receipt).             *)
THEOREM ReceiptCorrect == Spec => []ReceiptsTrue
<1>1. IInv => ReceiptsTrue
  BY DEF IInv, Sound, Received, ReceiptsTrue
<1>2. QED
  BY <1>1, Inductive, PTL

-----------------------------------------------------------------------------
Locally == {"confirming", "claimed", "conflicted"}
Answered(w) == Refused(w, Locally) /\ house.writer => ~Done(task[w])

(* Only these steps refuse a local confirmation.                           *)
LEMMA Refusing ==
    ASSUME TypeOK, [Next]_vars, NEW w \in Workers, Refused(w, Locally)
    PROVE  Claim(w) \/ Commit(w) \/ Look(w)
<1>1. pc[w] \in Locally /\ pc'[w] = "refused" /\ pc \in [Workers -> Steps]
  BY DEF Refused, TypeOK
<1>2. pc' # pc
  BY <1>1 DEF Locally
<1>3. ASSUME NEW x \in Workers, NEW s, At(x, s)
      PROVE  x = w /\ s = "refused"
  BY <1>1, <1>3 DEF At, Locally
<1>4. CASE \E y \in Workers : Step(y)
  <2>1. PICK y \in Workers : Step(y)
    BY <1>4
  <2>2. y = w
    BY <2>1, <1>3 DEF Step, Create, SaveEdit, Claim, Commit, Look, Check, ClaimRemote, Call, Failed,
       Apply, Complete, Uncertain, Delete, Over
  <2>3. QED
    BY <1>1, <2>1, <2>2 DEF Step, Create, SaveEdit, Check, ClaimRemote, Call, Apply, Complete,
       Uncertain, Delete, Locally
<1>5. CASE Request
  BY <1>1, <1>2, <1>3, <1>5 DEF Request, Draft, StartEdit, Confirm, StartDelete, Cancel, Over,
     Arrive, Idle, Locally
<1>6. CASE World
  BY <1>2, <1>3, <1>6 DEF World, Over
<1>7. CASE Talk \/ (\E p \in Props : Sweep(p) \/ Expire(p)) \/ UNCHANGED vars
  BY <1>2, <1>7 DEF Talk, Sweep, Expire, vars
<1>8. QED
  BY <1>4, <1>5, <1>6, <1>7 DEF Next

LEMMA RefusedUndone ==
    ASSUME IInv, [Next]_vars, NEW w \in Workers
    PROVE  Answered(w)
<1> SUFFICES ASSUME Refused(w, Locally), house.writer
             PROVE  ~Done(task[w])
  BY DEF Answered
<1> DEFINE t == task[w]
<1>1. /\ TypeOK /\ pc[w] \in Locally /\ Fits(w) /\ t.p \in Props /\ Sound(t.p)
      /\ pc'[w] = "refused"
  BY Sets DEF IInv, Refused, Locally, Fits
<1>2. CASE Claim(w)
  <2>1. pc' = [pc EXCEPT ![w] = "refused"] => LocalVerdict(w) \in {"free", "refused"}
    BY <1>1, <1>2 DEF Claim, At, Over, TypeOK, LocalVerdict, Verdict
  <2>2. LocalVerdict(w) \in {"free", "refused"}
    BY <1>1, <1>2 DEF Claim, At, Over, TypeOK, LocalVerdict, Verdict
  <2>3. Verdict(t.p, t.v) \in {"free", "refused"}
    BY <2>2 DEF LocalVerdict
  <2>4. ~Exists(t.p) \/ receipt[t.p] = None
    BY <2>3 DEF Verdict
  <2>5. receipt[t.p] = None
    BY <1>1, <2>4 DEF Exists, Sound, Started
  <2>6. QED
    BY <2>5 DEF Done
<1>3. CASE Commit(w)
  <2>1. Claims(t)
    BY <1>1, <1>3 DEF Commit, Fits
  <2>2. receipt[t.p] = None
    BY <1>1, <2>1 DEF Claims, Offered, Sound, Started
  <2>3. QED
    BY <2>2 DEF Done
<1>4. CASE Look(w)
  <2>1. ~Found(w)
    BY <1>1, <1>4 DEF Look, Over, At, TypeOK
  <2>2. receipt[t.p] # None => convo.present /\ receipt[t.p].version = prop[t.p].version
    BY <1>1 DEF Sound, Received, Reviewed
  <2>3. QED
    BY <2>1, <2>2 DEF Found, Done
<1>5. QED
  BY <1>1, <1>2, <1>3, <1>4, Refusing

(* A duplicate of an executed local confirmation is not refused, however   *)
(* the two race (ProposalService.confirm and what its caller makes of a    *)
(* conflict).                                                              *)
THEOREM DuplicateCorrect == Spec => DuplicatesAnswered
<1>1. IInv /\ [Next]_vars =>
         [\A w \in Workers :
             /\ Refused(w, {"confirming", "claimed", "conflicted"})
             /\ house.writer
             => ~Done(task[w])]_vars
  BY RefusedUndone DEF Answered, Locally
<1>2. QED
  BY <1>1, Inductive, PTL DEF Spec, DuplicatesAnswered

-----------------------------------------------------------------------------
(* The refinement: what a step shows of each proposal.                     *)
SameSeen(p) ==
    /\ stages'[p] = stages[p] /\ versions'[p] = versions[p]
    /\ executions'[p] = executions[p] /\ receipts'[p] = receipts[p]
SameHeld(p) == holdings'[p] = holdings[p]

(* The mapped state is a function of the proposals: a step changes it only *)
(* where it changes what is seen of one.                                   *)
LEMMA Unseen ==
    ASSUME \A p \in Props : SameSeen(p) /\ SameHeld(p)
    PROVE  UNCHANGED <<stages, versions, holdings, executions, receipts>>
BY DEF SameSeen, SameHeld, stages, versions, holdings, executions, receipts

LEMMA SeenOne ==
    ASSUME NEW p \in Props, \A q \in Props : q # p => SameSeen(q) /\ SameHeld(q)
    PROVE  /\ stages' = [stages EXCEPT ![p] = stages'[p]]
           /\ versions' = [versions EXCEPT ![p] = versions'[p]]
           /\ holdings' = [holdings EXCEPT ![p] = holdings'[p]]
           /\ executions' = [executions EXCEPT ![p] = executions'[p]]
           /\ receipts' = [receipts EXCEPT ![p] = receipts'[p]]
<1>1. /\ \A q \in Props : q # p => /\ stages'[q] = stages[q] /\ versions'[q] = versions[q]
                                   /\ holdings'[q] = holdings[q]
                                   /\ executions'[q] = executions[q]
                                   /\ receipts'[q] = receipts[q]
  BY DEF SameSeen, SameHeld
<1>2. stages' = [stages EXCEPT ![p] = stages'[p]]
  BY <1>1 DEF stages
<1>3. versions' = [versions EXCEPT ![p] = versions'[p]]
  BY <1>1 DEF versions
<1>4. holdings' = [holdings EXCEPT ![p] = holdings'[p]]
  BY <1>1 DEF holdings
<1>5. executions' = [executions EXCEPT ![p] = executions'[p]]
  BY <1>1 DEF executions
<1>6. receipts' = [receipts EXCEPT ![p] = receipts'[p]]
  BY <1>1 DEF receipts
<1>7. QED
  BY <1>2, <1>3, <1>4, <1>5, <1>6

(* A row that only goes from one state of an operation to another.         *)
LEMMA SettledSeen ==
    ASSUME NEW p \in Props, Settles(p), convo'.present = convo.present
    PROVE  SameSeen(p)
<1>1. Stage(p)' = Stage(p)
  BY DEF Stage, Settles, Started
<1>2. QED
  BY <1>1 DEF SameSeen, Settles, stages, versions, executions, receipts

(* Holdings change with the worker that moves.                             *)
LEMMA HeldApart ==
    ASSUME NEW w \in Workers, \A x \in Workers : x # w => SameTask(x), NEW p \in Props,
           pc[w] \in Holding => task[w].p # p, pc'[w] \in Holding => task'[w].p # p
    PROVE  SameHeld(p)
<1>1. Holders(p)' = Holders(p)
  BY DEF Holders, SameTask
<1>2. \A x \in Holders(p) : task'[x] = task[x]
  BY DEF Holders, SameTask
<1>3. {task'[x].v : x \in Holders(p)} = {task[x].v : x \in Holders(p)}
  BY <1>2
<1>4. QED
  BY <1>1, <1>3 DEF SameHeld, holdings

LEMMA HeldSteady ==
    ASSUME \A x \in Workers : SameTask(x), NEW p \in Props
    PROVE  SameHeld(p)
<1>1. Holders(p)' = Holders(p)
  BY DEF Holders, SameTask
<1>2. \A x \in Holders(p) : task'[x] = task[x]
  BY DEF Holders, SameTask
<1>3. {task'[x].v : x \in Holders(p)} = {task[x].v : x \in Holders(p)}
  BY <1>2
<1>4. QED
  BY <1>1, <1>3 DEF SameHeld, holdings

(* Whoever holds a proposal holds it alone.                                *)
LEMMA HeldAlone ==
    ASSUME IInv, NEW w \in Workers, pc[w] \in Holding
    PROVE  /\ task[w].p \in Props /\ Holders(task[w].p) = {w}
           /\ holdings[task[w].p] = {task[w].v}
<1>1. task[w].p \in Props
  BY Sets DEF IInv, Fits, Holding
<1>2. \A x \in Holders(task[w].p) : x = w
  BY Sets DEF IInv, Apart, Holders, Holding
<1>3. Holders(task[w].p) = {w}
  BY <1>1, <1>2 DEF Holders
<1>4. holdings[task[w].p] = {task[w].v}
  BY <1>1, <1>3 DEF holdings
<1>5. QED
  BY <1>1, <1>3, <1>4

LEMMA HeldByNone ==
    ASSUME NEW p \in Props, \A w \in Workers : pc[w] \in Holding => task[w].p # p
    PROVE  holdings[p] = {}
<1>1. Holders(p) = {}
  BY DEF Holders
<1>2. QED
  BY <1>1 DEF holdings

(* A step that shows nothing.                                              *)
LEMMA Stutters ==
    ASSUME \A p \in Props : Settles(p), convo'.present = convo.present,
           NEW w \in Workers, \A x \in Workers : x # w => SameTask(x),
           pc[w] \notin Holding, pc'[w] \notin Holding
    PROVE  UNCHANGED <<stages, versions, holdings, executions, receipts>>
<1>1. \A p \in Props : SameSeen(p) /\ SameHeld(p)
  BY SettledSeen, HeldApart
<1>2. QED
  BY <1>1, Unseen

LEMMA Rests ==
    ASSUME \A p \in Props : Settles(p), convo'.present = convo.present,
           \A x \in Workers : SameTask(x)
    PROVE  UNCHANGED <<stages, versions, holdings, executions, receipts>>
<1>1. \A p \in Props : SameSeen(p) /\ SameHeld(p)
  BY SettledSeen, HeldSteady
<1>2. QED
  BY <1>1, Unseen

(* A holder that fails or dies gives up.                                   *)
LEMMA GivesUp ==
    ASSUME IInv, \A p \in Props : Settles(p), convo'.present = convo.present,
           NEW w \in Workers, \A x \in Workers : x # w => SameTask(x),
           pc[w] \in Holding, pc'[w] \notin Holding
    PROVE  \E p \in Props : Execution!GiveUp(p)
<1>1. PICK p \in Props : p = task[w].p
  BY HeldAlone
<1>2. Holders(p) = {w}
  BY <1>1, HeldAlone
<1>3. \A q \in Props : SameSeen(q) /\ (q # p => SameHeld(q))
  BY <1>1, SettledSeen, HeldApart
<1>4. \A x \in Workers : pc'[x] \in Holding => task'[x].p # p
  BY <1>2 DEF Holders, SameTask
<1>5. holdings'[p] = {}
  <2>1. Holders(p)' = {}
    BY <1>4 DEF Holders
  <2>2. QED
    BY <2>1 DEF holdings
<1>6. Execution!GiveUp(p)
  <2>1. holdings' = [holdings EXCEPT ![p] = {}]
    BY <1>3, <1>5, SeenOne
  <2>2. /\ stages' = stages /\ versions' = versions
        /\ executions' = executions /\ receipts' = receipts
    BY <1>3 DEF SameSeen, stages, versions, executions, receipts
  <2>3. QED
    BY <2>1, <2>2 DEF Execution!GiveUp
<1>7. QED
  BY <1>6

Shown == UNCHANGED <<stages, versions, holdings, executions, receipts>>
Implemented == Execution!Next \/ Shown

(* Requests that look, and the world and the answers around them.          *)
LEMMA RequestImplements ==
    ASSUME IInv, Request
    PROVE  Implemented
<1>1. TypeOK
  BY DEF IInv
<1>2. ASSUME NEW w \in Workers, NEW p \in Props, NEW kind \in Kinds, NEW g \in Gens \cup {None},
             Draft(w, p, kind, g) \/ StartEdit(w, p, kind)
      PROVE  Shown
  <2>1. /\ UNCHANGED <<convoVars, house, propVars, ghosts>> /\ pc[w] \in Idle
        /\ \E t : Take(w, t) /\ \E s \in {"drafting", "editing"} : At(w, s)
    BY <1>2 DEF Draft, StartEdit, Arrive
  <2>2. /\ \A x \in Workers : x # w => SameTask(x)
        /\ pc[w] \notin Holding /\ pc'[w] \notin Holding
    BY <1>1, <2>1 DEF TypeOK, At, Take, SameTask, Idle, Holding
  <2>3. (\A q \in Props : Settles(q)) /\ convo'.present = convo.present
    BY <2>1 DEF Settles, convoVars, propVars, ghosts
  <2>4. QED
    BY <2>2, <2>3, Stutters DEF Shown
<1>3. ASSUME NEW w \in Workers, NEW p \in Props, NEW v \in 1..prop[p].version, Confirm(w, p, v)
      PROVE  Shown
  <2>1. /\ UNCHANGED <<convoVars, house, receipt, ghosts>> /\ pc[w] \in Idle /\ Get(p)
        /\ \E t : Take(w, t)
        /\ \E s \in {"answered", "refused", "confirming", "checking"} : At(w, s)
    <3>1. CASE receipt[p] # None
      BY <1>3, <3>1 DEF Confirm, Arrive, Over
    <3>2. CASE receipt[p] = None
      BY <1>3, <3>2 DEF Confirm, Arrive
    <3>3. QED
      BY <3>1, <3>2
  <2>2. /\ \A x \in Workers : x # w => SameTask(x)
        /\ pc[w] \notin Holding /\ pc'[w] \notin Holding
    BY <1>1, <2>1 DEF TypeOK, At, Take, SameTask, Idle, Holding
  <2>3. (\A q \in Props : Settles(q)) /\ convo'.present = convo.present
    BY <1>1, <2>1, Gets DEF convoVars
  <2>4. QED
    BY <2>2, <2>3, Stutters DEF Shown
<1>4. ASSUME NEW w \in Workers, StartDelete(w)
      PROVE  Shown
  <2>1. /\ UNCHANGED <<convoVars, house, propVars, ghosts, task>> /\ pc[w] \in Idle
        /\ At(w, "deleting")
    BY <1>4 DEF StartDelete, Arrive
  <2>2. /\ \A x \in Workers : x # w => SameTask(x)
        /\ pc[w] \notin Holding /\ pc'[w] \notin Holding
    BY <1>1, <2>1 DEF TypeOK, At, SameTask, Idle, Holding
  <2>3. (\A q \in Props : Settles(q)) /\ convo'.present = convo.present
    BY <2>1 DEF Settles, convoVars, propVars, ghosts
  <2>4. QED
    BY <2>2, <2>3, Stutters DEF Shown
<1>5. ASSUME NEW p \in Props, Cancel(p)
      PROVE  Execution!Withdraw(p)
  <2> DEFINE old == prop[p]
  <2>1. /\ old \in Rows /\ prop' = [prop EXCEPT ![p] = [old EXCEPT !.status = "canceled"]]
        /\ convo.present /\ old.status = "proposed"
        /\ UNCHANGED <<convo, receipt, calls, effects, pc, task>>
    BY <1>1, <1>5 DEF Cancel, Exists, Offered, Put, TypeOK, convoVars, ghosts
  <2>2. /\ prop'[p].status = "canceled" /\ prop'[p].version = old.version
        /\ \A q \in Props : q # p => Settles(q)
    <3>1. prop \in [Props -> Rows]
      BY <1>1 DEF TypeOK
    <3>2. [old EXCEPT !.status = "canceled"].status = "canceled"
          /\ [old EXCEPT !.status = "canceled"].version = old.version
      <4> HIDE DEF old
      <4>1. QED
        BY <2>1 DEF Rows
    <3>3. QED
      BY <2>1, <3>1, <3>2 DEF Settles
  <2>3. \A q \in Props : SameHeld(q) /\ (q # p => SameSeen(q))
    <3>1. \A x \in Workers : SameTask(x)
      BY <2>1 DEF SameTask
    <3>2. QED
      BY <2>1, <2>2, <3>1, HeldSteady, SettledSeen
  <2>4. /\ stages[p] = "offered" /\ stages'[p] = "closed" /\ versions'[p] = versions[p]
        /\ executions'[p] = executions[p] /\ receipts'[p] = receipts[p]
    BY <2>1, <2>2 DEF stages, Stage, versions, executions, receipts
  <2>5. stages' = [stages EXCEPT ![p] = "closed"]
    BY <2>3, <2>4, SeenOne
  <2>6. UNCHANGED <<versions, holdings, executions, receipts>>
    BY <2>3, <2>4 DEF SameSeen, SameHeld, versions, holdings, executions, receipts
  <2>7. QED
    BY <2>4, <2>5, <2>6 DEF Execution!Withdraw, Execution!Close
<1>6. QED
  BY <1>2, <1>3, <1>4, <1>5 DEF Request, Implemented, Execution!Next

LEMMA WorldImplements ==
    ASSUME IInv, World
    PROVE  Implemented
<1>1. TypeOK /\ (\A q \in Props : Settles(q)) /\ convo'.present = convo.present
  BY DEF World, IInv, Settles, convoVars, propVars, ghosts
<1>2. CASE UNCHANGED <<pc, task>>
  <2>1. \A x \in Workers : SameTask(x)
    BY <1>2 DEF SameTask
  <2>2. QED
    BY <1>1, <2>1, Rests DEF Implemented, Shown
<1>3. ASSUME NEW w \in Workers, Over(w, "idle") PROVE Implemented
  <2>1. (\A x \in Workers : x # w => SameTask(x)) /\ pc'[w] \notin Holding
    BY <1>1, <1>3 DEF Over, At, Take, TypeOK, SameTask, Holding
  <2>2. CASE pc[w] \in Holding
    BY <1>1, <2>1, <2>2, GivesUp DEF Implemented, Execution!Next
  <2>3. CASE pc[w] \notin Holding
    BY <1>1, <2>1, <2>3, Stutters DEF Implemented, Shown
  <2>4. QED
    BY <2>2, <2>3
<1>4. QED
  BY <1>2, <1>3 DEF World

LEMMA AroundImplements ==
    ASSUME IInv, Conversing, Talk \/ \E p \in Props : Sweep(p) \/ Expire(p)
    PROVE  Shown
<1>1. TypeOK
  BY DEF IInv
<1>2. \A x \in Workers : SameTask(x)
  BY DEF Talk, Sweep, Expire, SameTask
<1>3. (\A q \in Props : Settles(q)) /\ convo'.present = convo.present
  <2>1. CASE Talk
    <3>1. \A q \in Props : Settles(q)
      BY <2>1 DEF Talk, Settles, propVars, ghosts
    <3>2. convo'.present = convo.present
      <4>1. ASSUME NEW g \in Gens, Begin(g) PROVE convo'.present = convo.present
        <5> DEFINE next == convo.version + 1
        <5>1. convo' = convo \/ convo' = [convo EXCEPT !.active = g, !.lease = "held",
                                           !.version = next, !.context = g]
          BY <4>1 DEF Begin
        <5> HIDE DEF next
        <5>2. QED
          BY <1>1, <5>1 DEF TypeOK, ConversationTypes
      <4>2. ASSUME NEW g \in Gens, Finish(g) \/ Fail(g) PROVE convo'.present = convo.present
        <5>1. convo' = convo \/ convo' = Free
          BY <4>2 DEF Finish, Fail
        <5>2. QED
          BY <5>1, FreeConvo
      <4>3. CASE Elsewhere
        BY <1>1, <4>3 DEF Elsewhere, Lapse, Ask, Abandon, TypeOK, ConversationTypes
      <4>4. QED
        BY <2>1, <4>1, <4>2, <4>3 DEF Talk, Writes
    <3>3. QED
      BY <3>1, <3>2
  <2>2. ASSUME NEW p \in Props, Sweep(p)
        PROVE  (\A q \in Props : Settles(q)) /\ convo'.present = convo.present
    BY <1>1, <2>2, Gets DEF Sweep, convoVars
  <2>3. ASSUME NEW p \in Props, Expire(p)
        PROVE  (\A q \in Props : Settles(q)) /\ convo'.present = convo.present
    <3> DEFINE old == prop[p]
               row == [old EXCEPT !.expired = TRUE]
    <3>1. /\ old \in Rows /\ prop' = [prop EXCEPT ![p] = row]
          /\ UNCHANGED <<convo, receipt, calls, effects>>
      BY <1>1, <2>3 DEF Expire, Put, TypeOK, convoVars, ghosts
    <3>2. /\ row.status = old.status /\ row.kind = old.kind /\ row.version = old.version
          /\ row.revision = old.revision /\ row.day = old.day /\ row.gen = old.gen
      <4> HIDE DEF old
      <4>1. QED
        BY <3>1 DEF Rows
    <3> HIDE DEF row
    <3>3. prop \in [Props -> Rows]
      BY <1>1 DEF TypeOK
    <3>4. QED
      BY <3>1, <3>2, <3>3 DEF Settles
  <2>4. QED
    BY <2>1, <2>2, <2>3
<1>4. QED
  BY <1>2, <1>3, Rests DEF Shown

(* Steps of a worker that decide, look or report.                          *)
LEMMA QuietImplements ==
    ASSUME IInv, NEW w \in Workers, Claim(w) \/ Look(w) \/ Check(w) \/ Uncertain(w)
    PROVE  Shown
<1>1. /\ TypeOK /\ UNCHANGED <<convoVars, house, receipt, ghosts>>
      /\ pc[w] \in {"confirming", "conflicted", "checking", "failing"}
  BY DEF IInv, Claim, Look, Check, Uncertain, propVars
<1>2. /\ \E s \in Idle \cup {"claimed", "conflicted", "checked"} : At(w, s)
      /\ UNCHANGED task \/ \E t : Take(w, t)
  <2>1. CASE Claim(w)
    <3>1. CASE LocalVerdict(w) = "free"
      BY <2>1, <3>1 DEF Claim, Over, Idle
    <3>2. CASE LocalVerdict(w) = "conflict"
      BY <2>1, <3>2 DEF Claim
    <3>3. CASE LocalVerdict(w) \notin {"free", "conflict"}
      <4>1. LocalVerdict(w) \in Idle
        BY <3>3 DEF LocalVerdict, Verdict, Idle
      <4>2. Over(w, LocalVerdict(w))
        BY <2>1, <3>3 DEF Claim
      <4>3. QED
        BY <4>1, <4>2 DEF Over
    <3>4. QED
      BY <3>1, <3>2, <3>3
  <2>2. CASE Look(w)
    BY <2>2 DEF Look, Over, Idle
  <2>3. CASE Check(w)
    BY <2>3 DEF Check, Over, Idle
  <2>4. CASE Uncertain(w)
    BY <2>4 DEF Uncertain, Over, Idle
  <2>5. QED
    BY <2>1, <2>2, <2>3, <2>4
<1>3. \A q \in Props : Settles(q)
  <2>1. CASE Claim(w) \/ Check(w)
    BY <2>1 DEF Claim, Check, Settles, propVars, ghosts
  <2>2. CASE Look(w)
    <3>1. task[w].p \in Props
      BY <2>2, Sets DEF Look, IInv, Fits
    <3>2. Get(task[w].p)
      BY <2>2 DEF Look
    <3>3. QED
      BY <1>1, <3>1, <3>2, Gets
  <2>3. CASE Uncertain(w)
    <3>1. PICK p \in Props : p = task[w].p /\ (convo.present => prop[p].status \in Started)
      BY <2>3, Sets DEF Uncertain, IInv, Fits, Executes
    <3>2. prop' = prop \/ (convo.present /\ Unknown(p))
      BY <2>3, <3>1 DEF Uncertain, Exists
    <3> DEFINE old == prop[p]
               row == [old EXCEPT !.status = "outcome_unknown"]
    <3>3. prop \in [Props -> Rows] /\ old \in Rows
      BY <1>1 DEF TypeOK
    <3>4. /\ row.status = "outcome_unknown" /\ row.kind = old.kind /\ row.version = old.version
          /\ row.revision = old.revision /\ row.day = old.day /\ row.gen = old.gen
      <4> HIDE DEF old
      <4>1. QED
        BY <3>3 DEF Rows
    <3>5. prop' = prop \/ (prop' = [prop EXCEPT ![p] = row] /\ old.status \in Started)
      BY <3>1, <3>2 DEF Unknown, Put
    <3> HIDE DEF row
    <3>6. QED
      BY <1>1, <3>3, <3>4, <3>5 DEF Settles, Started, ghosts
  <2>4. QED
    BY <2>1, <2>2, <2>3
<1>4. /\ \A x \in Workers : x # w => SameTask(x)
      /\ pc[w] \notin Holding /\ pc'[w] \notin Holding
  BY <1>1, <1>2 DEF TypeOK, At, Take, SameTask, Idle, Holding
<1>5. QED
  BY <1>1, <1>3, <1>4, Stutters DEF Shown, convoVars

(* A request that ends where it held nothing.                              *)
LEMMA OverHolds ==
    ASSUME TypeOK, NEW w \in Workers, NEW end \in Idle, Over(w, end), pc[w] \notin Holding
    PROVE  \A q \in Props : SameHeld(q)
<1>1. (\A x \in Workers : x # w => SameTask(x)) /\ pc'[w] \notin Holding
  BY DEF TypeOK, Over, At, Take, SameTask, Idle, Holding
<1>2. QED
  BY <1>1, HeldApart

LEMMA CreateImplements ==
    ASSUME IInv, NEW w \in Workers, Create(w)
    PROVE  Implemented
<1>1. /\ TypeOK /\ pc[w] = "drafting" /\ Over(w, "idle") /\ UNCHANGED <<convo, receipt, calls, effects>>
      /\ task[w].p \in Props /\ (convo.present => prop[task[w].p].status = "none")
  BY Sets DEF IInv, Fits, Create, convoVars, ghosts
<1>2. \A q \in Props : SameHeld(q)
  BY <1>1, OverHolds DEF Idle, Holding
<1>3. PICK p \in Props : p = task[w].p
  BY <1>1
<1>4. CASE convo.present
  <2> DEFINE t == task[w]
             row == [status |-> "proposed", kind |-> t.kind, version |-> 1,
                     revision |-> t.revision, day |-> t.day,
                     expired |-> FALSE, gen |-> t.gen]
  <2>1. prop' = [prop EXCEPT ![p] = row] /\ row.status = "proposed" /\ row.version = 1
    BY <1>3, <1>4 DEF Create
  <2> HIDE DEF row
  <2>2. /\ prop'[p].status = "proposed" /\ prop'[p].version = 1
        /\ \A q \in Props : q # p => Settles(q)
    BY <1>1, <2>1 DEF TypeOK, Settles
  <2>3. \A q \in Props : q # p => SameSeen(q)
    BY <1>1, <2>2, SettledSeen
  <2>4. /\ stages[p] = "new" /\ stages'[p] = "offered" /\ versions'[p] = 1
        /\ executions'[p] = executions[p] /\ receipts'[p] = receipts[p]
    BY <1>1, <1>3, <1>4, <2>2 DEF stages, Stage, versions, executions, receipts
  <2>5. stages' = [stages EXCEPT ![p] = "offered"] /\ versions' = [versions EXCEPT ![p] = 1]
    BY <1>2, <2>3, <2>4, SeenOne
  <2>6. UNCHANGED <<holdings, executions, receipts>>
    <3>1. \A q \in Props : /\ holdings'[q] = holdings[q] /\ executions'[q] = executions[q]
                           /\ receipts'[q] = receipts[q]
      BY <1>2, <2>3, <2>4 DEF SameSeen, SameHeld
    <3>2. QED
      BY <3>1 DEF holdings, executions, receipts
  <2>7. QED
    BY <2>4, <2>5, <2>6 DEF Implemented, Execution!Next, Execution!Offer
<1>5. CASE ~convo.present
  <2>1. \A q \in Props : Settles(q)
    BY <1>1, <1>5 DEF Create, Settles
  <2>2. QED
    BY <1>1, <1>2, <2>1, SettledSeen, Unseen DEF Implemented, Shown
<1>6. QED
  BY <1>4, <1>5

LEMMA SaveEditImplements ==
    ASSUME IInv, NEW w \in Workers, SaveEdit(w)
    PROVE  Implemented
<1>1. /\ TypeOK /\ pc[w] = "editing" /\ Over(w, "idle") /\ UNCHANGED <<convo, receipt, calls, effects>>
      /\ task[w].p \in Props
  BY Sets DEF IInv, Fits, SaveEdit, convoVars, ghosts
<1>2. \A q \in Props : SameHeld(q)
  BY <1>1, OverHolds DEF Idle, Holding
<1>3. PICK p \in Props : p = task[w].p
  BY <1>1
<1>4. CASE Exists(p) /\ Offered(p, task[w].v)
  <2> DEFINE old == prop[p]
             next == task[w].v + 1
             kind == task[w].kind
             revision == task[w].revision
             day == task[w].day
             row == [old EXCEPT !.kind = kind, !.version = next,
                          !.revision = revision, !.day = day, !.expired = FALSE]
  <2>1. /\ prop' = [prop EXCEPT ![p] = row] /\ convo.present /\ old \in Rows
        /\ old.status = "proposed" /\ next = old.version + 1
    BY <1>1, <1>3, <1>4 DEF SaveEdit, Put, Exists, Offered, TypeOK
  <2>2. row.status = old.status /\ row.version = next
    <3> HIDE DEF old, next, kind, revision, day
    <3>1. QED
      BY <2>1 DEF Rows
  <2> HIDE DEF row
  <2>3. /\ prop'[p].status = "proposed" /\ prop'[p].version = prop[p].version + 1
        /\ \A q \in Props : q # p => Settles(q)
    BY <1>1, <2>1, <2>2 DEF TypeOK, Settles
  <2>4. \A q \in Props : q # p => SameSeen(q)
    BY <1>1, <2>3, SettledSeen
  <2>5. /\ stages[p] = "offered" /\ stages'[p] = "offered" /\ versions'[p] = versions[p] + 1
        /\ executions'[p] = executions[p] /\ receipts'[p] = receipts[p]
    BY <1>1, <2>1, <2>3 DEF stages, Stage, versions, executions, receipts
  <2>6. versions' = [versions EXCEPT ![p] = versions[p] + 1]
    BY <1>2, <2>4, <2>5, SeenOne
  <2>7. UNCHANGED <<stages, holdings, executions, receipts>>
    <3>1. \A q \in Props : /\ stages'[q] = stages[q] /\ holdings'[q] = holdings[q]
                           /\ executions'[q] = executions[q] /\ receipts'[q] = receipts[q]
      BY <1>2, <2>4, <2>5 DEF SameSeen, SameHeld
    <3>2. QED
      BY <3>1 DEF stages, holdings, executions, receipts
  <2>8. QED
    BY <2>5, <2>6, <2>7 DEF Implemented, Execution!Next, Execution!Revise
<1>5. CASE ~(Exists(p) /\ Offered(p, task[w].v))
  <2>1. \A q \in Props : Settles(q)
    BY <1>1, <1>3, <1>5 DEF SaveEdit, Settles
  <2>2. QED
    BY <1>1, <1>2, <2>1, SettledSeen, Unseen DEF Implemented, Shown
<1>6. QED
  BY <1>4, <1>5

(* The claim of a provider's operation takes the version that is offered.  *)
LEMMA ClaimRemoteImplements ==
    ASSUME IInv, NEW w \in Workers, ClaimRemote(w)
    PROVE  Implemented
<1>1. /\ TypeOK /\ pc[w] = "checked" /\ UNCHANGED <<convo, receipt, calls, effects>>
      /\ task[w].p \in Props /\ RowFree(task[w].p)
  BY Sets DEF IInv, Fits, ClaimRemote, convoVars, ghosts
<1>2. PICK p \in Props : p = task[w].p
  BY <1>1
<1>3. CASE Verdict(p, task[w].v) = "free" /\ Starts(p) /\ At(w, "remote") /\ UNCHANGED task
  <2> DEFINE old == prop[p]
             row == [old EXCEPT !.status = "running", !.expired = FALSE]
  <2>1. /\ prop' = [prop EXCEPT ![p] = row] /\ convo.present /\ old \in Rows
        /\ old.status = "proposed" /\ old.version = task[w].v
    BY <1>1, <1>3, FreeVerdict DEF Starts, Put, Offered, TypeOK
  <2>2. row.status = "running" /\ row.version = old.version
    <3> HIDE DEF old
    <3>1. QED
      BY <2>1 DEF Rows
  <2> HIDE DEF row
  <2>3. /\ prop'[p].status = "running" /\ prop'[p].version = prop[p].version
        /\ \A q \in Props : q # p => Settles(q)
    BY <1>1, <2>1, <2>2 DEF TypeOK, Settles
  <2>4. /\ \A x \in Workers : x # w => SameTask(x)
        /\ pc'[w] = "remote" /\ task' = task
    BY <1>1, <1>3 DEF At, TypeOK, SameTask
  <2>5. \A q \in Props : q # p => SameSeen(q) /\ SameHeld(q)
    BY <1>1, <1>2, <2>3, <2>4, SettledSeen, HeldApart DEF Holding
  <2>6. /\ stages[p] = "offered" /\ stages'[p] = "closed" /\ versions'[p] = versions[p]
        /\ executions'[p] = executions[p] /\ receipts'[p] = receipts[p]
    BY <1>1, <2>1, <2>3 DEF stages, Stage, versions, executions, receipts
  <2>7. holdings'[p] = {versions[p]}
    <3>1. \A x \in Workers : task[x].p = p => pc[x] \notin Holding
      BY <1>1, <1>2, <2>1, Lone, Sets DEF Holding
    <3>2. Holders(p)' = {w}
      BY <1>2, <2>4, <3>1 DEF Holders, SameTask, Holding
    <3>3. holdings'[p] = {task[w].v}
      BY <2>4, <3>2 DEF holdings
    <3>4. QED
      BY <2>1, <3>3 DEF versions
  <2>8. stages' = [stages EXCEPT ![p] = "closed"] /\ holdings' = [holdings EXCEPT ![p] = {versions[p]}]
    BY <2>5, <2>6, <2>7, SeenOne
  <2>9. UNCHANGED <<versions, executions, receipts>>
    BY <2>5, <2>6 DEF SameSeen, versions, executions, receipts
  <2>10. QED
    BY <2>6, <2>8, <2>9 DEF Implemented, Execution!Next, Execution!Take, Execution!Close
<1>4. ASSUME NEW end \in Idle, Over(w, end), UNCHANGED prop
      PROVE  Implemented
  <2>1. \A q \in Props : Settles(q) /\ SameHeld(q)
    BY <1>1, <1>4, OverHolds DEF Settles, Holding
  <2>2. QED
    BY <1>1, <2>1, SettledSeen, Unseen DEF Implemented, Shown
<1>5. QED
  BY <1>2, <1>3, <1>4 DEF ClaimRemote, Idle

LEMMA CallImplements ==
    ASSUME IInv, NEW w \in Workers, Call(w)
    PROVE  Implemented
<1>1. /\ TypeOK /\ pc[w] = "remote" /\ UNCHANGED <<convo, prop, receipt, effects, task>>
      /\ task[w].p \in Props /\ (convo.present => prop[task[w].p].status \in Started)
      /\ \E s \in {"applying", "failing"} : At(w, s)
  BY Sets DEF IInv, Fits, Executes, Call, Failed, convoVars, propVars
<1>2. \A x \in Workers : x # w => SameTask(x)
  BY <1>1 DEF TypeOK, At, SameTask
<1>3. pc'[w] \in {"applying", "failing"}
  BY <1>1 DEF TypeOK, At
<1>4. \A q \in Props : SameSeen(q)
  <2>1. \A q \in Props : Stage(q)' = Stage(q)
    BY <1>1 DEF Stage
  <2>2. QED
    BY <1>1, <2>1 DEF SameSeen, stages, versions, executions, receipts
<1>5. PICK p \in Props : p = task[w].p
  BY <1>1
<1>6. Holders(p) = {w} /\ \A q \in Props : q # p => SameHeld(q)
  BY <1>1, <1>2, <1>5, HeldAlone, HeldApart DEF Holding
<1>7. CASE pc'[w] = "applying"
  <2>1. \A q \in Props : Holders(q)' = Holders(q)
    BY <1>1, <1>2, <1>7 DEF Holders, SameTask, Holding
  <2>2. \A q \in Props : SameHeld(q)
    BY <1>1, <2>1 DEF SameHeld, holdings
  <2>3. QED
    BY <1>4, <2>2, Unseen DEF Implemented, Shown
<1>8. CASE pc'[w] = "failing"
  <2>1. Holders(p)' = {}
    BY <1>2, <1>6, <1>8 DEF Holders, SameTask, Holding
  <2>2. holdings'[p] = {}
    BY <2>1 DEF holdings
  <2>3. holdings' = [holdings EXCEPT ![p] = {}]
    BY <1>4, <1>6, <2>2, SeenOne
  <2>4. UNCHANGED <<stages, versions, executions, receipts>>
    BY <1>4 DEF SameSeen, stages, versions, executions, receipts
  <2>5. QED
    BY <2>3, <2>4 DEF Implemented, Execution!Next, Execution!GiveUp
<1>9. QED
  BY <1>3, <1>7, <1>8

(* What one effect adds to what has run. *)
LEMMA RanOnce ==
    ASSUME TypeOK', NEW p \in Props, effects[p] = <<>>, Len(effects'[p]) = 1
    PROVE  /\ executions[p] = <<>>
           /\ executions'[p] = Append(executions[p], effects'[p][1].did)
<1>1. effects'[p] \in Seq(Effects)
  BY DEF TypeOK
<1>2. executions[p] = <<>>
  BY DEF executions
<1>3. DOMAIN effects'[p] = 1..1
  BY <1>1
<1>4. executions'[p] = <<effects'[p][1].did>>
  BY <1>3 DEF executions
<1>5. QED
  BY <1>2, <1>4

LEMMA ApplyImplements ==
    ASSUME IInv, IInv', NEW w \in Workers, Apply(w)
    PROVE  Implemented
<1>1. PICK t \in Tasks : t = task[w]
  BY DEF IInv, TypeOK
<1>2. PICK p \in Props : p = t.p
  BY <1>1, Sets DEF IInv, Fits, Apply
<1>3. /\ TypeOK /\ TypeOK' /\ pc[w] = "applying"
      /\ UNCHANGED <<convo, prop, receipt, task>>
      /\ t.kind \in Kinds /\ effects[p] = <<>> /\ t.v = t.seen /\ t.seen \in Nat
  BY <1>1, <1>2, Sets DEF IInv, Fits, Executes, Apply, convoVars, propVars, Tasks
<1>4. CASE Failed(w) /\ UNCHANGED effects
  <2>1. /\ \A x \in Workers : x # w => SameTask(x)
        /\ pc'[w] \notin Holding /\ pc[w] \in Holding
    BY <1>3, <1>4 DEF TypeOK, Failed, At, SameTask, Holding
  <2>2. \A q \in Props : Settles(q) \/ calls'[q] # calls[q]
    BY <1>3, <1>4 DEF Settles
  <2>3. calls' = calls
    BY DEF Apply
  <2>4. QED
    BY <1>3, <2>1, <2>2, <2>3, GivesUp DEF Implemented, Execution!Next
<1>5. CASE Effect(t, t.seen) /\ At(w, "completing")
  <2>1. /\ \A x \in Workers : x # w => SameTask(x)
        /\ pc'[w] \notin Holding /\ pc[w] \in Holding
    BY <1>3, <1>5 DEF TypeOK, At, SameTask, Holding
  <2>2. /\ Len(effects'[p]) = 1 /\ effects'[p][1].did = t.v
        /\ \A q \in Props : q # p => effects'[q] = effects[q]
    BY <1>1, <1>2, <1>3, <1>5, Effected
  <2>3. /\ \A q \in Props : q # p => Settles(q)
        /\ \A q \in Props : Stage(q)' = Stage(q)
    BY <1>3, <2>2 DEF Settles, Stage, Apply
  <2>4. \A q \in Props : q # p => SameSeen(q) /\ SameHeld(q)
    BY <1>1, <1>2, <1>3, <2>1, <2>3, SettledSeen, HeldApart
  <2>5. Holders(p) = {w} /\ holdings[p] = {t.v}
    BY <1>1, <1>2, <2>1, HeldAlone
  <2>6. holdings'[p] = {}
    <3>1. Holders(p)' = {}
      BY <2>1, <2>5 DEF Holders, SameTask
    <3>2. QED
      BY <3>1 DEF holdings
  <2>7. executions'[p] = Append(executions[p], t.v)
    BY <1>3, <2>2, RanOnce
  <2>8. /\ holdings' = [holdings EXCEPT ![p] = {}]
        /\ executions' = [executions EXCEPT ![p] = Append(executions[p], t.v)]
    BY <2>4, <2>6, <2>7, SeenOne
  <2>9. UNCHANGED <<stages, versions, receipts>>
    BY <1>3, <2>3 DEF stages, versions, receipts
  <2>10. Execution!Run(p)
    BY <2>5, <2>8, <2>9 DEF Execution!Run, Execution!Ran
  <2>11. QED
    BY <2>10 DEF Implemented, Execution!Next
<1>6. QED
  BY <1>1, <1>4, <1>5 DEF Apply

(* A receipt is given for what ran, and is the same if it is given again.  *)
LEMMA CompleteImplements ==
    ASSUME IInv, IInv', NEW w \in Workers, Complete(w)
    PROVE  Implemented
<1>1. PICK t \in Tasks : t = task[w]
  BY DEF IInv, TypeOK
<1>2. PICK p \in Props : p = t.p
  BY <1>1, Sets DEF IInv, Fits, Complete
<1> DEFINE revision == IF t.kind = "bank" THEN t.revision + 1 ELSE t.revision
<1>3. /\ TypeOK /\ TypeOK' /\ pc[w] = "completing" /\ UNCHANGED <<calls, effects>>
      /\ Len(effects[p]) = 1 /\ (convo.present => prop[p].status \in Started)
      /\ revision \in Nat /\ Sound(p) /\ Sound(p)'
  BY <1>1, <1>2, Sets DEF IInv, Fits, Executes, Complete, ghosts, Tasks
<1>4. \A q \in Props : SameHeld(q)
  <2>1. (\A x \in Workers : x # w => SameTask(x)) /\ pc[w] \notin Holding /\ pc'[w] \notin Holding
    BY <1>3 DEF Complete, Over, Failed, At, Take, TypeOK, SameTask, Holding
  <2>2. QED
    BY <2>1, HeldApart
<1>5. CASE Exists(p) /\ Succeeds(p, revision)
  <2>1. /\ convo' = convo /\ prop'[p].status = "succeeded" /\ prop'[p].version = prop[p].version
        /\ receipt'[p] # None /\ receipt'[p].version = prop[p].version
        /\ \A q \in Props : q # p => prop'[q] = prop[q] /\ receipt'[q] = receipt[q]
    BY <1>3, <1>5, Receipted
  <2>2. \A q \in Props : q # p => SameSeen(q)
    BY <1>3, <2>1, SettledSeen DEF Settles
  <2>3. /\ stages'[p] = stages[p] /\ versions'[p] = versions[p] /\ executions'[p] = executions[p]
        /\ receipts'[p] = prop[p].version
    BY <1>3, <1>5, <2>1 DEF stages, Stage, versions, executions, receipts, Exists, Started
  <2>4. effects[p][1].did = prop[p].version
    BY <1>3, <1>5 DEF Sound, Reviewed, Exists
  <2>5. executions[p] = <<prop[p].version>>
    <3>1. effects[p] \in Seq(Effects)
      BY <1>3 DEF TypeOK
    <3>2. DOMAIN effects[p] = 1..1
      BY <1>3, <3>1
    <3>3. executions[p] = <<effects[p][1].did>>
      BY <3>2 DEF executions
    <3>4. QED
      BY <2>4, <3>3
  <2>6. receipts' = [receipts EXCEPT ![p] = executions[p][Len(executions[p])]]
    <3>1. executions[p][Len(executions[p])] = prop[p].version
      BY <2>5
    <3>2. QED
      BY <1>4, <2>2, <2>3, <3>1, SeenOne
  <2>7. UNCHANGED <<stages, versions, holdings, executions>>
    <3>1. \A q \in Props : /\ stages'[q] = stages[q] /\ versions'[q] = versions[q]
                           /\ holdings'[q] = holdings[q] /\ executions'[q] = executions[q]
      BY <1>4, <2>2, <2>3 DEF SameSeen, SameHeld
    <3>2. QED
      BY <3>1 DEF stages, versions, holdings, executions
  <2>8. executions[p] # <<>>
    BY <2>5
  <2>9. Execution!Record(p)
    BY <2>6, <2>7, <2>8 DEF Execution!Record
  <2>10. QED
    BY <2>9 DEF Implemented, Execution!Next
<1>6. CASE UNCHANGED <<convoVars, propVars>>
  <2>1. \A q \in Props : SameSeen(q)
    BY <1>3, <1>6, SettledSeen DEF Settles, convoVars, propVars
  <2>2. QED
    BY <1>4, <2>1, Unseen DEF Implemented, Shown
<1>7. QED
  BY <1>1, <1>2, <1>5, <1>6 DEF Complete

(* At home the execution is one step: taken, run and receipted.            *)
LEMMA CommitImplements ==
    ASSUME IInv, IInv', NEW w \in Workers, Commit(w)
    PROVE  Implemented
<1>1. PICK t \in Tasks : t = task[w]
  BY DEF IInv, TypeOK
<1>2. PICK p \in Props : p = t.p
  BY <1>1, Sets DEF IInv, Fits, Commit
<1> DEFINE revision == IF t.kind = "write" THEN house.revision + 1 ELSE t.revision
           version == prop[p].version
<1>3. /\ TypeOK /\ TypeOK' /\ pc[w] = "claimed" /\ UNCHANGED calls
      /\ revision \in Nat /\ version \in Nat /\ Claims(t) /\ Sound(p) /\ t.kind \in Kinds
      /\ convo.present /\ prop[p].status = "proposed" /\ effects[p] = <<>> /\ receipt[p] = None
  <2>1. /\ TypeOK /\ TypeOK' /\ pc[w] = "claimed" /\ UNCHANGED calls
        /\ Claims(t) /\ Sound(p) /\ t.kind \in Kinds
    BY <1>1, <1>2, Sets DEF IInv, Fits, Commit
  <2>2. revision \in Nat /\ version \in Nat
    <3> DEFINE next == house.revision + 1
    <3>1. next \in Nat
      BY <2>1 DEF TypeOK
    <3>2. version \in Nat /\ t.revision \in Nat
      <4>1. prop[p] \in Rows
        BY <2>1 DEF TypeOK
      <4>2. QED
        BY <4>1 DEF Tasks, Rows
    <3> HIDE DEF next
    <3>3. revision = IF t.kind = "write" THEN next ELSE t.revision
      BY DEF next
    <3>4. QED
      BY <3>1, <3>2, <3>3
  <2>3. convo.present /\ prop[p].status = "proposed" /\ effects[p] = <<>> /\ receipt[p] = None
    BY <1>2, <2>1 DEF Claims, Offered, Sound, Started
  <2>4. QED
    BY <2>1, <2>2, <2>3
<1>4. \A q \in Props : SameHeld(q)
  BY <1>3, OverHolds DEF Commit, Idle, Holding
<1>5. CASE Effect(t, version) /\ Succeeds(p, revision)
  <2>1. /\ convo' = convo /\ prop'[p].status = "succeeded" /\ prop'[p].version = version
        /\ receipt'[p] # None /\ receipt'[p].version = version
        /\ \A q \in Props : q # p => prop'[q] = prop[q] /\ receipt'[q] = receipt[q]
    BY <1>3, <1>5, Receipted
  <2>2. /\ Len(effects'[p]) = 1 /\ effects'[p][1].did = version
        /\ \A q \in Props : q # p => effects'[q] = effects[q]
    BY <1>2, <1>3, <1>5, Effected
  <2>3. \A q \in Props : q # p => SameSeen(q)
    BY <1>3, <2>1, <2>2, SettledSeen DEF Settles
  <2>4. /\ stages[p] = "offered" /\ stages'[p] = "closed"
        /\ versions[p] = version /\ versions'[p] = versions[p]
        /\ receipts'[p] = version
    BY <1>3, <2>1 DEF stages, Stage, versions, receipts
  <2>5. executions'[p] = Append(executions[p], version)
    BY <1>3, <2>2, RanOnce
  <2> HIDE DEF version
  <2>6. /\ stages' = [stages EXCEPT ![p] = "closed"]
        /\ executions' = [executions EXCEPT ![p] = Append(executions[p], versions[p])]
        /\ receipts' = [receipts EXCEPT ![p] = versions[p]]
    BY <1>4, <2>3, <2>4, <2>5, SeenOne
  <2>7. UNCHANGED <<versions, holdings>>
    <3>1. \A q \in Props : versions'[q] = versions[q] /\ holdings'[q] = holdings[q]
      BY <1>4, <2>3, <2>4 DEF SameSeen, SameHeld
    <3>2. QED
      BY <3>1 DEF versions, holdings
  <2>8. Execution!Settle(p)
    BY <2>4, <2>6, <2>7 DEF Execution!Settle, Execution!Close, Execution!Ran
  <2>9. QED
    BY <2>8 DEF Implemented, Execution!Next
<1>6. CASE UNCHANGED <<convoVars, propVars, effects>>
  <2>1. \A q \in Props : SameSeen(q)
    BY <1>3, <1>6, SettledSeen DEF Settles, convoVars, propVars
  <2>2. QED
    BY <1>4, <2>1, Unseen DEF Implemented, Shown
<1>7. QED
  BY <1>1, <1>2, <1>5, <1>6 DEF Commit

LEMMA DeleteImplements ==
    ASSUME IInv, IInv', Conversing, NEW w \in Workers, Delete(w)
    PROVE  Execution!Forget
<1>1. /\ TypeOK /\ pc[w] = "deleting" /\ Over(w, "idle") /\ UNCHANGED effects
      /\ prop' = [p \in Props |-> Blank] /\ receipt' = [p \in Props |-> None]
  BY DEF IInv, Delete, ghosts
<1>2. convo'.present = FALSE
  <2> DEFINE freed == Free
  <2>1. convo' = [freed EXCEPT !.present = FALSE]
    BY DEF Delete, Remove
  <2>2. freed \in [present : BOOLEAN, active : Gens \cup {None},
                   lease : {"free", "held", "lapsed"}, version : Nat, context : Gens \cup {None}]
    BY DEF Free, Conversing, ConversationTypes
  <2> HIDE DEF freed
  <2>3. QED
    BY <2>1, <2>2
<1>3. \A q \in Props : SameHeld(q)
  BY <1>1, OverHolds DEF Idle, Holding
<1>4. holdings' = holdings /\ executions' = executions
  <2>1. holdings' = holdings
    BY <1>3 DEF SameHeld, holdings
  <2>2. QED
    BY <1>1, <2>1 DEF executions
<1>5. \A p \in Props : /\ Stage(p)' = "closed" /\ versions'[p] = 0 /\ receipts'[p] = 0
  BY <1>1, <1>2 DEF Stage, versions, receipts, Blank
<1>6. /\ stages' = [p \in Props |-> "closed"] /\ versions' = [p \in Props |-> 0]
      /\ receipts' = [p \in Props |-> 0]
  BY <1>5 DEF stages, versions, receipts
<1>7. QED
  BY <1>4, <1>6 DEF Execution!Forget

-----------------------------------------------------------------------------
LEMMA InitImplements == PInit => Execution!Init
<1> SUFFICES ASSUME PInit PROVE Execution!Init
  OBVIOUS
<1>1. /\ convo.present = TRUE
      /\ prop = [p \in Props |-> Blank] /\ receipt = [p \in Props |-> None]
      /\ effects = [p \in Props |-> <<>>]
      /\ pc = [w \in Workers |-> "idle"]
  BY DEF PInit, Init
<1>2. \A p \in Props : /\ Stage(p) = "new" /\ prop[p].version = 0 /\ Holders(p) = {}
                       /\ [i \in DOMAIN effects[p] |-> effects[p][i].did] = <<>>
                       /\ receipt[p] = None
  BY <1>1 DEF Stage, Blank, Holders, Holding
<1>3. QED
  BY <1>2 DEF Execution!Init, stages, versions, holdings, executions, receipts

LEMMA StepImplements ==
    ASSUME IInv, Conversing, [Next]_vars
    PROVE  [Execution!Next]_(Execution!executionVars)
<1>1. IInv'
  BY StepKeeps
<1>2. ASSUME NEW w \in Workers, Step(w)
      PROVE  Implemented
  BY <1>1, <1>2, CreateImplements, SaveEditImplements, QuietImplements, CommitImplements,
     ClaimRemoteImplements, CallImplements, ApplyImplements, CompleteImplements,
     DeleteImplements DEF Step, Implemented, Execution!Next
<1>3. CASE UNCHANGED vars
  <2>1. UNCHANGED <<convo, prop, receipt, effects, pc, task>>
    BY <1>3 DEF vars, convoVars, propVars, ghosts
  <2>2. Shown
    <3>1. \A p \in Props : Stage(p)' = Stage(p) /\ Holders(p)' = Holders(p)
      BY <2>1 DEF Stage, Holders
    <3>2. QED
      BY <2>1, <3>1 DEF Shown, stages, versions, holdings, executions, receipts
  <2>3. QED
    BY <2>2 DEF Shown, Execution!executionVars
<1>4. CASE Request \/ World
  BY <1>4, RequestImplements, WorldImplements DEF Implemented, Shown, Execution!executionVars
<1>5. CASE Talk \/ \E p \in Props : Sweep(p) \/ Expire(p)
  BY <1>5, AroundImplements DEF Shown, Execution!executionVars
<1>6. QED
  BY <1>2, <1>3, <1>4, <1>5 DEF Next, Implemented, Shown, Execution!executionVars

(* Every behaviour of the requests, edits, crashes and deletions is, seen  *)
(* from a proposal, one of the abstract execution: proposals.py and        *)
(* provider_actions.py implement it.                                       *)
THEOREM ImplementsExecution == Spec => ExecutionSpec
<1>1. PInit => Execution!Init
  BY InitImplements
<1>2. IInv /\ Conversing /\ [Next]_vars => [Execution!Next]_(Execution!executionVars)
  BY StepImplements
<1>3. QED
  BY <1>1, <1>2, Inductive, ConversingAlways, PTL DEF Spec, ExecutionSpec, Execution!Spec

(* The abstract execution by itself: what is offered has not run, what is  *)
(* taken runs once.                                                        *)
ExecutionInv ==
    /\ stages \in [Props -> {"new", "offered", "closed"}] /\ versions \in [Props -> Nat]
    /\ holdings \in [Props -> SUBSET Nat] /\ executions \in [Props -> Seq(Nat)]
    /\ receipts \in [Props -> Nat]
    /\ \A p \in Props :
          /\ stages[p] # "closed" => holdings[p] = {} /\ executions[p] = <<>> /\ receipts[p] = 0
          /\ holdings[p] # {} => executions[p] = <<>>
          /\ executions[p] = <<>> \/ \E v \in Nat : executions[p] = <<v>>
          /\ receipts[p] # 0 => executions[p] = <<receipts[p]>>

LEMMA ExecutionStep ==
    ASSUME ExecutionInv, [Execution!Next]_(Execution!executionVars)
    PROVE  ExecutionInv'
<1>1. ASSUME NEW p \in Props, Execution!Offer(p) PROVE ExecutionInv'
  BY <1>1 DEF ExecutionInv, Execution!Offer
<1>2. ASSUME NEW p \in Props, Execution!Revise(p) PROVE ExecutionInv'
  BY <1>2 DEF ExecutionInv, Execution!Revise
<1>3. ASSUME NEW p \in Props, Execution!Withdraw(p) PROVE ExecutionInv'
  BY <1>3 DEF ExecutionInv, Execution!Withdraw, Execution!Close
<1>4. ASSUME NEW p \in Props, Execution!Settle(p) PROVE ExecutionInv'
  <2>1. versions[p] \in Nat /\ executions[p] = <<>> /\ stages[p] = "offered"
    BY <1>4 DEF ExecutionInv, Execution!Settle, Execution!Close
  <2>2. Append(executions[p], versions[p]) = <<versions[p]>> /\ <<versions[p]>> \in Seq(Nat)
    BY <2>1
  <2>3. executions' = [executions EXCEPT ![p] = <<versions[p]>>]
    BY <1>4, <2>2 DEF Execution!Settle, Execution!Ran
  <2>4. QED
    BY <1>4, <2>1, <2>2, <2>3 DEF ExecutionInv, Execution!Settle, Execution!Close
<1>5. ASSUME NEW p \in Props, Execution!Take(p) PROVE ExecutionInv'
  BY <1>5 DEF ExecutionInv, Execution!Take, Execution!Close
<1>6. ASSUME NEW p \in Props, Execution!Run(p) PROVE ExecutionInv'
  <2>1. PICK v \in holdings[p] : Execution!Ran(p, v)
    BY <1>6 DEF Execution!Run
  <2>2. v \in Nat /\ executions[p] = <<>> /\ stages[p] = "closed" /\ receipts[p] = 0
    <3>1. v \in Nat /\ holdings[p] # {}
      BY <2>1 DEF ExecutionInv
    <3>2. executions[p] = <<>> /\ stages[p] = "closed" /\ receipts[p] \in Nat
      BY <3>1 DEF ExecutionInv
    <3>3. \A r \in Nat : <<>> # <<r>>
      OBVIOUS
    <3>4. receipts[p] = 0
      BY <3>2, <3>3 DEF ExecutionInv
    <3>5. QED
      BY <3>1, <3>2, <3>4
  <2>3. Append(executions[p], v) = <<v>> /\ <<v>> \in Seq(Nat)
    BY <2>2
  <2>4. executions' = [executions EXCEPT ![p] = <<v>>]
    BY <2>1, <2>3 DEF Execution!Ran
  <2>5. QED
    BY <1>6, <2>2, <2>3, <2>4 DEF ExecutionInv, Execution!Run
<1>7. ASSUME NEW p \in Props, Execution!GiveUp(p) PROVE ExecutionInv'
  BY <1>7 DEF ExecutionInv, Execution!GiveUp
<1>8. ASSUME NEW p \in Props, Execution!Record(p) PROVE ExecutionInv'
  <2>1. PICK v \in Nat : executions[p] = <<v>>
    BY <1>8 DEF ExecutionInv, Execution!Record
  <2>2. executions[p][Len(executions[p])] = v /\ executions[p] # <<>>
    BY <2>1
  <2>3. receipts' = [receipts EXCEPT ![p] = v] /\ stages[p] = "closed"
    BY <1>8, <2>2 DEF ExecutionInv, Execution!Record
  <2>4. QED
    BY <1>8, <2>1, <2>3 DEF ExecutionInv, Execution!Record
<1>9. CASE Execution!Forget
  BY <1>9 DEF ExecutionInv, Execution!Forget
<1>10. CASE UNCHANGED Execution!executionVars
  BY <1>10 DEF ExecutionInv, Execution!executionVars
<1>11. QED
  BY <1>1, <1>2, <1>3, <1>4, <1>5, <1>6, <1>7, <1>8, <1>9, <1>10 DEF Execution!Next

(* The promise is worth making: whatever implements OneExecution executes  *)
(* nothing twice, executes nothing that is still offered, and receipts     *)
(* only what ran.                                                          *)
THEOREM ExecutionIsOnce == ExecutionSpec => []Execution!Once
<1>1. Execution!Init => ExecutionInv
  BY DEF Execution!Init, ExecutionInv
<1>2. ExecutionInv /\ [Execution!Next]_(Execution!executionVars) => ExecutionInv'
  BY ExecutionStep
<1>3. ExecutionInv => Execution!Once
  <2> SUFFICES ASSUME ExecutionInv, NEW p \in Props
               PROVE  /\ Len(executions[p]) <= 1
                      /\ stages[p] # "closed" \/ holdings[p] # {} => executions[p] = <<>>
                      /\ receipts[p] # 0 => executions[p] = <<receipts[p]>>
    BY DEF Execution!Once
  <2>1. Len(executions[p]) <= 1
    <3>1. executions[p] = <<>> \/ \E v \in Nat : executions[p] = <<v>>
      BY DEF ExecutionInv
    <3>2. CASE executions[p] = <<>>
      BY <3>2
    <3>3. ASSUME NEW v \in Nat, executions[p] = <<v>> PROVE Len(executions[p]) <= 1
      BY <3>3
    <3>4. QED
      BY <3>1, <3>2, <3>3
  <2>2. QED
    BY <2>1 DEF ExecutionInv
<1>4. QED
  BY <1>1, <1>2, <1>3, PTL DEF ExecutionSpec, Execution!Spec
==============================================================================
