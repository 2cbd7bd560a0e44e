----------------------------- MODULE Assistant -----------------------------
(***************************************************************************)
(* Questions answered side by side (ai/graph.py, ai/wording_cache.py): each *)
(* request reads one revision of its household, is routed to a calculator,  *)
(* may have the local model word the answer, and publishes the wording only *)
(* when every check passes; the wording, with tokens for its figures, is    *)
(* kept for the next question that is the same up to its figures. A node of *)
(* the graph is an operator on the request's record; the steps between      *)
(* which other requests run are actions.                                    *)
(***************************************************************************)
EXTENDS Guardrails, LocalModel

CONSTANTS Requests,        \* the requests in flight
          Slots,           \* how many may run at once
          Households,      \* each household's contents, revision by revision
          ScopeOf,         \* the household of each request
          Asks,            \* the questions each request may ask
          Selections,      \* the tool calls a model may answer a selection round with
          Deviations,      \* what may be wrong with a draft, in combination
          MaxToolCalls, MaxEntries

ASSUME AssistantAssumption ==
    /\ MaxToolCalls \in Nat /\ MaxEntries \in Nat /\ Slots \in Nat
    /\ ScopeOf \in [Requests -> DOMAIN Households]
    /\ \A h \in DOMAIN Households :
          /\ Households[h] \in Seq(Range(Households[h])) /\ Households[h] /= <<>>
          /\ \A k \in DOMAIN Households[h] : Households[h][k].legs \in Seq(PaymentLeg)
    /\ \A r \in Requests : \A q \in Asks[r] : q.hits \in [DOMAIN q.hits -> Nat]
    /\ \A calls \in Selections : calls \in Seq(Range(calls))

VARIABLES revision,        \* the committed revision of each household
          request,         \* the state of each request
          cache            \* kept wording, least recently used first

assistantVars == <<revision, request, cache>>
vars == <<assistantVars, modelVars>>

(***************************************************************************)
(* A request. "answer" is what is published: the figure in each place, and  *)
(* what the sentence claims beside them.                                    *)
(***************************************************************************)
NoAnswer == [said |-> <<>>, words |-> {}, says |-> "nothing", byModel |-> FALSE]
Reference(s) == TemplateAnswer(s.route.intent, s.results[1])
ReferenceAnswer(s) == [said |-> Reference(s).figures, words |-> Reference(s).words,
                       says |-> "nothing", byModel |-> FALSE]
NoDraft == [claims |-> <<>>, typed |-> {}, says |-> "nothing", echoes |-> FALSE,
            advises |-> FALSE, caveats |-> FALSE]
Idle == [phase |-> "waiting"]
Asked(q, seen, model) ==
    [phase |-> "asked", q |-> q, seen |-> seen, model |-> model, results |-> <<>>,
     draft |-> NoDraft, cached |-> "off", kept |-> TRUE, right |-> TRUE, of |-> "none", answer |-> NoAnswer]

AssistantInit ==
    /\ revision = [h \in DOMAIN Households |-> 1]
    /\ request = [r \in Requests |-> Idle]
    /\ cache = <<>>
Init == AssistantInit /\ ModelInit

Becomes(r, s) == request' = [request EXCEPT ![r] = s]

(***************************************************************************)
(* Verification: the first check that fails puts the reference back.        *)
(***************************************************************************)
Said(s) == Substitute(s.draft, Facts(Reference(s)))
Rejected(s) ==
    \/ TokenError(s.draft, Facts(Reference(s)))
    \/ s.route.intent = "coverage" /\ ~CoverageCaveatsPresent(s.draft)
    \/ EchoesUntrusted(s.draft)
    \/ ~AnswerIsSubstantive(Range(Said(s)), Reference(s))
    \/ ~CheckGrounding(Range(Said(s)), Collect(s.results) \union Range(Facts(Reference(s))))
    \/ s.route.intent = "spending_allowance" /\ SpendingAllowanceClaimError(Said(s), s.results[1])
    \/ ClaimsCompletedAction(s.draft, s.results)
    \/ AdviceClaimError(s.draft)
ByModel(s) == s.cached /= "off" /\ ~Rejected(s)
Verified(s) ==
    IF ~ByModel(s) THEN ReferenceAnswer(s)
    ELSE [said |-> Said(s), words |-> Reference(s).words, says |-> s.draft.says, byModel |-> TRUE]

\* A sentence is right when every figure stands in the place of the reference.
Right(s) == \A k \in DOMAIN s.draft.claims : s.draft.claims[k] = Tokens(Reference(s))[k]

Finalized(s) ==
    [s EXCEPT !.phase = "done", !.draft = NoDraft, !.right = Right(s), !.answer = Verified(s)]

(***************************************************************************)
(* The nodes before the model: scope, route and tools.                      *)
(***************************************************************************)
\* Mutant: the household as it is now.
SnapshotNow(r, s) == Households[ScopeOf[r]][revision[ScopeOf[r]]]
Snapshot(r, s) == Households[ScopeOf[r]][s.seen]
\* A result and, from the trace, the arguments it was asked with.
CallTool(r, s, name, arguments) ==
    With(Call(name, arguments, Snapshot(r, s)), [arguments |-> arguments])

ScopeGuard(s) == ScopeCheck(s.q) /= {}
Refused(r, s) ==
    With([s EXCEPT !.results = <<CallTool(r, s, "explain_product_boundary", [topic |-> Text("refused")])>>],
         [route |-> Routed("boundary", "explain_product_boundary", NoArguments, "refused")])
Classified(s) ==
    LET r == Route(s.q)
    IN  With(s, [route |-> [r EXCEPT !.arguments = ContextArguments(r.tool, @, s.q.viewing)]])

ModelSelects(s) == s.q.choice = "model" /\ s.model /\ s.route.intent \notin Clarifications
RoutedCall(r, s) == CallTool(r, s, s.route.tool, s.route.arguments)
\* What the model selected stands behind the routed result; a card needs the allowance too.
Executed(r, s) ==
    LET mine == s.results
        primary == IF mine /= <<>> /\ mine[1].tool = s.route.tool THEN mine
                   ELSE <<RoutedCall(r, s)>> \o mine
        extra == IF s.route.intent = "card_choice"
                 THEN <<CallTool(r, s, "get_spending_allowance", [days |-> Whole(30)])>> ELSE <<>>
    IN  [s EXCEPT !.phase = "executed", !.results = primary \o extra]

Started(r, s) ==
    IF ScopeGuard(s) THEN Finalized(Refused(r, s))
    ELSE IF ModelSelects(Classified(s)) THEN [Classified(s) EXCEPT !.phase = "selecting"]
    ELSE Executed(r, Classified(s))

Ask(r) ==
    /\ request[r].phase = "waiting"
    /\ Cardinality({x \in Requests : request[x].phase \notin {"waiting", "done"}}) < Slots
    /\ \E q \in Asks[r] : Becomes(r, Started(r, Asked(q, revision[ScopeOf[r]], available)))
    /\ UNCHANGED <<revision, cache, modelVars>>

(***************************************************************************)
(* The model selects tools: only reads, only offered names, only arguments  *)
(* that fit; the first call that is not ends the selection. The model may   *)
(* be cooling down or closed, and the time for the answer may be up.        *)
(***************************************************************************)
Authorized(c) == c.name \in OpenAISchemas /\ ToolSpec(c.name).readOnly /\ Accepts(c.name, c.arguments)
Permitted(s, calls) ==
    LET bad == {k \in DOMAIN calls : ~Authorized(calls[k])} \union {Len(calls) + 1}
    IN  SubSeq(calls, 1, Min({Min(bad) - 1, MaxToolCalls - Len(s.results)}))
Selected(r, s, calls) ==
    LET done == Permitted(s, calls)
    IN  [s EXCEPT !.results = @ \o [k \in DOMAIN done |->
            CallTool(r, s, done[k].name,
                     ContextArguments(done[k].name, done[k].arguments, s.q.viewing))]]
SelectionOver(s, after, calls) ==
    \/ calls = <<>> \/ \E k \in DOMAIN calls : ~Authorized(calls[k])
    \/ Len(after.results) >= MaxToolCalls
    \/ \E k \in DOMAIN after.results : after.results[k].tool = s.route.tool /\ after.results[k].error = ""

SelectTools(r) ==
    LET s == request[r]
    IN  /\ s.phase = "selecting"
        /\ UNCHANGED <<revision, cache>>
        /\ \/ Chat(r) /\ Becomes(r, [s EXCEPT !.phase = "offered"])
           \/ Becomes(r, Executed(r, s)) /\ UNCHANGED modelVars

ToolsSelected(r) ==
    LET s == request[r]
    IN  /\ s.phase = "offered"
        /\ UNCHANGED <<revision, cache>>
        /\ \/ /\ ChatSucceeds(r)
              /\ \E calls \in Selections :
                    LET after == Selected(r, s, calls)
                    IN  Becomes(r, IF SelectionOver(s, after, calls) THEN Executed(r, after)
                                   ELSE [after EXCEPT !.phase = "selecting"])
           \/ ChatFails(r) /\ Becomes(r, Executed(r, s))

(***************************************************************************)
(* Wording. Its key is the household, the question and the reference with   *)
(* tokens in the place of figures, and the names of the two tokens that a   *)
(* small model confuses. An entry that is found may be past its time.       *)
(***************************************************************************)
Notes(s) ==
    IF s.route.intent /= "spending_allowance" THEN <<>>
    ELSE <<Mask(s.results[1].figures["amount"], Reference(s)),
           Mask(s.results[1].figures["low_point_balance"], Reference(s))>>
\* Mutant: the figures' places are not part of the key.
KeyOfTheQuestion(r, s) == [scope |-> ScopeOf[r], question |-> s.q.name]
Key(r, s) ==
    [scope |-> ScopeOf[r], question |-> s.q.name, amount |-> Mask(s.q.amount, Reference(s)),
     tokens |-> Tokens(Reference(s)), words |-> Reference(s).words, notes |-> Notes(s)]

Place(key) == SelectInSeq(cache, LAMBDA e : e.key = key)
Without(key) == IF Place(key) = 0 THEN cache ELSE RemoveAt(cache, Place(key))
Used(key) == Append(Without(key), cache[Place(key)])
Put(entry) ==
    LET all == Append(Without(entry.key), entry)
    IN  SubSeq(all, 1 + Floor0(Len(all) - MaxEntries), Len(all))

\* The rest of a request runs in its own thread; only wording that passed is kept.
Finish(r, s) ==
    /\ Becomes(r, Finalized(s))
    /\ cache' = IF s.cached = "miss" /\ ByModel(s)
                THEN Put([key |-> Key(r, s), draft |-> s.draft, of |-> ScopeOf[r], right |-> Right(s)])
                ELSE cache

\* Fixed guidance and errors are published as they are, and so is every answer without a model.
OwnWords(s) ==
    \/ s.route.intent \in Clarifications \union {"unknown"}
    \/ s.results[1].error /= ""
    \/ ~s.model

Hit(r, s) ==
    LET e == cache[Place(Key(r, s))]
    IN  [s EXCEPT !.cached = "hit", !.draft = e.draft, !.kept = e.right, !.of = e.of]

Compose(r) ==
    LET s == request[r]
    IN  /\ s.phase = "executed"
        /\ UNCHANGED revision
        /\ \/ OwnWords(s) /\ Finish(r, s) /\ UNCHANGED modelVars
           \/ /\ ~OwnWords(s)
              /\ Place(Key(r, s)) /= 0
              /\ Becomes(r, Finalized(Hit(r, s)))
              /\ cache' = Used(Key(r, s))
              /\ UNCHANGED modelVars
           \/ /\ ~OwnWords(s)
              /\ cache' = Without(Key(r, s))
              /\ \/ Chat(r) /\ Becomes(r, [s EXCEPT !.phase = "wording"])
                 \/ Becomes(r, Finalized(s)) /\ UNCHANGED modelVars

(***************************************************************************)
(* The model keeps every token in its place, or deviates; or it fails, or   *)
(* is cut off, and the reference answer stands.                             *)
(***************************************************************************)
Draft(tokens, wrong) ==
    LET kept == IF "drop" \in wrong THEN <<>>
                ELSE IF "swap" \in wrong /\ Len(tokens) > 1
                THEN [tokens EXCEPT ![1] = tokens[2], ![2] = tokens[1]]
                ELSE IF "invent" \in wrong THEN Append(tokens, Len(tokens) + 1) ELSE tokens
    IN  [claims |-> kept, typed |-> IF "type" \in wrong THEN {0} ELSE {},
         says |-> IF "settled" \in wrong THEN "settled" ELSE IF "sent" \in wrong THEN "sent" ELSE "nothing",
         echoes |-> "echo" \in wrong, advises |-> "advise" \in wrong, caveats |-> "omit" \notin wrong]

Worded(r) ==
    LET s == request[r]
    IN  /\ s.phase = "wording"
        /\ UNCHANGED revision
        /\ \/ /\ ChatSucceeds(r)
              /\ \/ \E wrong \in Deviations :
                        Finish(r, [s EXCEPT !.cached = "miss", !.draft = Draft(Tokens(Reference(s)), wrong)])
                 \/ Finish(r, s)
           \/ ChatFails(r) /\ Finish(r, s)

\* A committed change of a household: its next revision.
Edit(h) ==
    /\ revision[h] < Len(Households[h])
    /\ revision' = [revision EXCEPT ![h] = @ + 1]
    /\ UNCHANGED <<request, cache, modelVars>>

ModelStep == ModelNext /\ UNCHANGED assistantVars
Next ==
    \/ \E r \in Requests :
        Ask(r) \/ SelectTools(r) \/ ToolsSelected(r) \/ Compose(r) \/ Worded(r)
    \/ \E h \in DOMAIN Households : Edit(h)
    \/ ModelStep

Spec == Init /\ [][Next]_vars

(***************************************************************************)
(* Properties.                                                              *)
(***************************************************************************)
Done(r) == request[r].phase = "done"
\* What the household held at the revision a request began with.
Seen(r) == Households[ScopeOf[r]][request[r].seen]

\* Each figure of an answer is held by a result of its own household, as asked,
\* at the revision the answer is labelled with, whoever worded it and whenever.
FiguresOfItsRevision ==
    \A r \in Requests : Done(r) =>
        LET s == request[r]
            own == [k \in DOMAIN s.results |->
                        Call(s.results[k].tool, s.results[k].arguments, Seen(r))]
        IN  \A v \in Range(s.answer.said) : FigureSources(v, own) /= {}

\* Wording that was right about every figure when it was kept is right each time
\* it is used again, and serves only the household whose question it answered.
KeptWordingStaysRight ==
    \A r \in Requests : (Done(r) /\ request[r].cached = "hit") =>
        /\ request[r].of = ScopeOf[r]
        /\ request[r].kept => request[r].right

\* Where the model's sentence calls an amount spendable, in a phrasing the check
\* recognises (place 1 of the template), the amount is the allowance after protected
\* reserves, never the balance before them, also when the sentence was kept.
SpendableIsTheAllowance ==
    \A r \in Requests : Done(r) =>
        LET s == request[r]
        IN  s.route.intent = "spending_allowance" /\ s.results[1].error = "" =>
                s.answer.said[1] = Floor0(Seen(r).low - Seen(r).protected)

\* "Paid" is published only of a household with a payment that has landed, "sent"
\* only with one that is under way or has landed, also when the sentence was kept
\* from earlier. A payment counts by the state it is in, and where the answer
\* explains it also by the states it has been through: what is explained is the
\* payment the tool was asked for, or any of the household's if it was asked for none.
Landed == {"reconciled", "credited_by_biller", "funds_available"}
Explains(h, result, leg) ==
    /\ result.tool = "explain_transfer_outcome" /\ result.error = ""
    /\ \A other \in Range(h.legs) :
          "leg_id" \in DOMAIN result.arguments /\ result.arguments["leg_id"].value = other.id =>
              leg.id = other.id
Evidence(h, results) ==
    States(h) \union
    UNION {leg.past : leg \in {l \in Range(h.legs) : \E k \in DOMAIN results : Explains(h, results[k], l)}}
ClaimsHaveEvidence ==
    \A r \in Requests : Done(r) =>
        LET shown == Evidence(Seen(r), request[r].results)
        IN  /\ request[r].answer.says = "settled" => shown \intersect Landed /= {}
            /\ request[r].answer.says = "sent" =>
                    shown \intersect (Landed \union {"submitted", "processing"}) /= {}

\* Not checked, as the code does not keep it: "paid" is published only while a payment
\* has landed. The audit of a payment that was returned still names where it had been.
ClaimsOfThePresent ==
    \A r \in Requests : (Done(r) /\ request[r].answer.says = "settled") =>
        States(Seen(r)) \intersect Landed /= {}
=============================================================================
