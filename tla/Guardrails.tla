----------------------------- MODULE Guardrails -----------------------------
(***************************************************************************)
(* Figures and wording (ai/facts.py, ai/guardrails.py and the completion    *)
(* claims of ai/graph.py). A reference answer is the sequence of its        *)
(* figures, by the place each has in the sentence, and its words. A model   *)
(* sees tokens, not figures. A draft says                                   *)
(*   claims   which token it puts in which place of the sentence;           *)
(*   typed    the figures it typed itself;                                  *)
(*   says     whether it claims that a payment was "sent" or "settled";     *)
(*   echoes, advises, caveats   whether it repeats instructions found in    *)
(*            the context, adds advice, and keeps the caveats of coverage.  *)
(***************************************************************************)
EXTENDS Routing

(***************************************************************************)
(* Tokens: each distinct figure gets one, in the order of first use.        *)
(***************************************************************************)
FirstPlace(figures, k) == Min({j \in DOMAIN figures : figures[j] = figures[k]})
Token(figures, k) == Cardinality({figures[j] : j \in 1 .. FirstPlace(figures, k)})
Tokens(reference) == [k \in DOMAIN reference.figures |-> Token(reference.figures, k)]
Facts(reference) ==
    [t \in Range(Tokens(reference)) |->
        reference.figures[Min({k \in DOMAIN reference.figures : Tokens(reference)[k] = t})]]

\* A figure of the question shows as the token of the same figure, or is hidden.
Hidden == 0
Mask(amount, reference) ==
    LET same == {t \in DOMAIN Facts(reference) : Facts(reference)[t] = amount}
    IN  IF same = {} THEN Hidden ELSE Min(same)

TokenError(draft, facts) ==
    \/ ~ Range(draft.claims) \subseteq DOMAIN facts
    \/ draft.typed /= {}
    \/ DOMAIN facts /= {} /\ draft.claims = <<>>
Substitute(draft, facts) == [k \in DOMAIN draft.claims |-> facts[draft.claims[k]]]

\* The fields of the results that hold exactly a figure.
FigureSources(figure, results) ==
    UNION {{<<results[k].tool, f>> : f \in {g \in DOMAIN results[k].figures : results[k].figures[g] = figure}}
            : k \in DOMAIN results}

(***************************************************************************)
(* Checks of a draft, once its figures are in.                              *)
(***************************************************************************)
Safe == {0}
Collect(results) == UNION {Range(results[k].figures) : k \in DOMAIN results}
CheckGrounding(figures, allowed) == figures \subseteq allowed \union Safe

\* The first place of the allowance template is the one called spendable.
\* Mutant: any figure may be called spendable.
ClaimOfAnyFigure(said, primary) == FALSE
SpendingAllowanceClaimError(said, primary) ==
    ~ (1 \in DOMAIN said /\ said[1] = primary.figures["amount"])

EchoesUntrusted(draft) == draft.echoes
AnswerIsSubstantive(figures, reference) == reference.figures /= <<>> => figures /= {}
AdviceClaimError(draft) == draft.advises
CoverageCaveatsPresent(draft) == draft.caveats

\* Mutant: a payment that was sent counts as one that landed.
SettledOnceSent == {"submitted", "processing", "reconciled", "credited_by_biller", "funds_available"}
SettledStates == {"reconciled", "credited_by_biller", "funds_available"}
InFlightStates == SettledStates \union {"submitted", "processing"}
\* Evidence counts wherever it stands in the results.
ClaimsCompletedAction(draft, results) ==
    LET shown == UNION {results[k].states : k \in DOMAIN results}
    IN  \/ draft.says = "settled" /\ shown \intersect SettledStates = {}
        \/ draft.says = "sent" /\ shown \intersect InFlightStates = {}

(***************************************************************************)
(* Scope: advice the product does not give is refused before any tool runs. *)
(***************************************************************************)
OutOfScope == {"security_selection", "new_product", "eligibility_determination", "legal_advice"}
ScopeCheck(q) == q.refused \intersect OutOfScope

=============================================================================
