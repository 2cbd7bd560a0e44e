# FinPilot in TLA+

A verification project for FinPilot (`src/finpilot`), a household finance
application: a Python server that several processes may run, a database
(PostgreSQL, or SQLite for a single machine), a simulated payment provider, a
linked-bank provider (Plaid), calculators that plan and forecast, and a model
that words answers and drafts actions which a person reviews. The modules model
the parts where an order of events or a corner of a calculation nobody tested
could lose, double or misstate money. TLC checks them on small
instances; TLAPS proves some of their properties for every instance.

Contents: 1 the system, 2 modules and code, 3 the runs, 4 what the code does
not keep, 5 the proofs, 6 what is left out, 7 the plan, 8 how to run it.

## 1. The system

| Component | Code | State it keeps | Operations |
|---|---|---|---|
| Payment engine | `execution/engine.py` | legs and their states, reservations per account, submissions the provider knows, the global pause | build from a paycheck or a bill, authorize, preflight and execute, run a group, settle, recover an unknown outcome, apply a return, pause, resume |
| Domain model | `models.py` | accounts, bills, dated occurrences, reserves, rules, mandates with their usage | record and release the use of a mandate, record funding and payment of an occurrence |
| Commands, workspace | `services/commands.py`, `services/workspace.py` | none | authorize, rename, pause, skip, edit rules and bills, build and run payments, recover |
| Household store | `runtime.py`, `persistence/` | one row per household (revision, snapshot), projection of its transactions, audit; two caches and a lock per process | read, transaction, bootstrap, dashboard |
| Conversations | `services/conversations.py`, `api/assistant_routes.py` | a row per conversation (active generation, lease, version, context), a row per generation | ask, begin, complete, fail, delete; a lease of 180 s |
| Reviewed proposals | `services/proposals.py`, `provider_actions.py`, `private_commands.py`, `api/action_routes.py` | a row per proposal (status, version, revision and day of its preview, expiry), one receipt | create, edit, cancel, get, confirm; claim, call, apply, complete for provider work |
| Bank connections | `services/bank_operations.py`, `integrations/plaid.py`, `api/bank_routes.py` | a row per connection (token, cursor, version, status), imported accounts and transactions | exchange, snapshot, fetch pages, import, disconnect |
| Accounts, sessions, throttling | `services/auth.py` | users, sessions, attempt counters | register, log in and out, authenticate, throttle |
| Private documents | `services/documents.py` | documents, chunks, search terms | ingest, search, delete |
| MCP | `integrations/mcp_*.py`, `api/mcp_routes.py` | approved servers and tools | discover, approve, read, import |
| Calculators | `money.py`, `dates.py`, `engine/*` | the funding of a month's targets, the balances of a plan, the skips of a rule | allocate a deposit, schedule, forecast, allow, sweep, run a debt plan, rank cards, insure deposits, compare after tax |
| Assistant | `ai/graph.py`, `router.py`, `tools.py`, `guardrails.py`, `facts.py`, `wording_cache.py`, `llm.py` | kept wording, the pool and cooldown of the model's client | route a question, read, let the model select and word, verify, keep, close |
| HTTP, web, seed, migrations, scripts | `api/*`, `web/`, `seed/`, `alembic/`, `scripts/` | none of their own | |

How they meet. Every change of a household goes through one store transaction:
it takes the process's stripe lock and the database's row locks, checks the
role and the revision the client named, lets its caller edit a private
snapshot, and commits the snapshot, its projection and an audit row under a
predicate on the revision. The engine works on that snapshot. A proposal is
previewed in one transaction and confirmed in a later one; while it is
confirmed it looks at its conversation, whose lease belongs to the answer being
produced. Provider work (bank operations, MCP imports) has a durable claim
before it and a receipt after it, with no transaction open in between. A bank
sync fetches from the provider with no transaction open, and imports in one.

What is hard here, and what makes each part correct:

- **Engine.** Outcomes that stay unknown, callbacks that come late or never,
  returns after settlement, drafts that outlive the rule they came from.
  Correct: reservations and occurrences are exactly what the legs' states say;
  no bill is overpaid; one funding intent is out once; stale drafts never go.
- **Store.** Two processes, three kinds of lock, caches no other process
  invalidates, midnight, a role lost while waiting. Correct: a ledger of
  edits one after another, and no answer from the past.
- **Conversations and proposals.** Two tabs, a repeated confirmation, an answer
  slower than its lease, a process that dies between claim and receipt.
  Correct: an action runs once, as reviewed, and its receipt is true.
- **Calculators.** Deposits that share targets, cents rounded over dozens of
  months, a figure that is acted on days after it was read, an unknown term
  that could overturn a ranking. Correct: a target is funded once, what is due
  comes first, the totals are the rows', and a promise holds while days pass.
- **Assistant.** A household that changes under a question, wording kept from
  another one, true figures in the wrong place, a client closed under a caller.
  Correct: the figures are of one revision, and claims have evidence.
- **Bank.** Data that moves between two pages, two syncs, an exchange that is
  repeated, a disconnect in the middle. Correct: what is imported is what the
  bank held at the saved cursor, once.

`PROJECT.json` lists forty hazards, each at its line. Section 6 names smaller ones.

## 2. Modules and code

```
HouseholdLedger   <--- implemented by --- HouseholdStore     HouseholdStore_proofs
Conversations     <--- extended by    --- Proposals          Proposals_proofs
ExecutionEngine              ExecutionEngine_proofs <- EnginePayments_proofs
BankSync (its commits are one HouseholdStore transaction)
                             BankSync_proofs
Money, Schedules, Orders <- Paychecks, Debts, Forecasts, Cards, Taxes, Coverage
MCPlanning        composes the planners: one of them per behaviour
                             Planners_proofs (of Paychecks and Debts)
Figures           the pure ones: a case of Cards, Coverage or Taxes per behaviour
                             Figures_proofs (of Forecasts and Figures)
Toolbox <- Routing <- Guardrails <- Assistant; LocalModel <- Assistant
                                                             Assistant_proofs
```

Each `MC*` module gives the constants of its component small values; `MCPlanning`
and `MCAssistant` also state what those values are checked for.

**ExecutionEngine.** Every public method of the engine holds one reentrant
lock, so a method is one step, except `run_group`, one step per leg with `run`
holding the lock. `leg`, `state`, `applied` and `paidApplied` are the fields of
a leg; `reserved`, `submitted` and `paused` those of the engine; `available`,
`protected`, `funded`, `paid` and `ruleFunded` the records a settlement moves;
`mandate`, `usage` and `authority` the mandate *objects*: an edited rule holds a
deep copy of its mandate with the same identifier, and a draft keeps the object
it was built with. `Preflight` is the engine's list of checks, `Execute` its
outcomes (refused by a check, accepted, timed out, refused by the provider).
`HostedNext` is what the commands of the server reach, `Next` adds the methods
only a caller of the engine itself reaches (authorize, settle, return, a lost
callback). Simplified: loan payments are not split; a leg always has an
occurrence; a bill's payee does not change.

**HouseholdLedger, HouseholdStore.** A worker is a thread of a process. `Lock`,
`Edit`, `Commit`, `Invalidate` are the parts of `Runtime.transaction` between
which another thread, process, crash, midnight or role change can come; `Peek`,
`Lookup`, `Load`, `Draw`, `Keep`, `Answer` those of `bootstrap` and
`dashboard`. Which entries a full cache drops is left open. A client names the
revision it has loaded, or none. A household's book is a map of its
transactions, one of which an edit changes; that stands for any edit of the
snapshot. The ledger has three variables (all revisions, projection, audit) and
one action.

**Conversations.** One conversation. `Ask` reads the row and the context to
inherit; `Begin` is the conditional update that takes the lease; `Finish`,
`Fail` are completion and failure; `Abandon` is a dead process; `Lapse` is the
180 seconds.

**Proposals** extends it with the proposals of that conversation and the
requests on them. `Claim` and `Commit` are the two halves of a local
confirmation between which the conversation may move, as nothing locks it;
`Check`, `ClaimRemote`, `Call`, `Apply`, `Complete`, `Uncertain` the steps of a
provider confirmation; `Sweep` is `get` declaring an overdue operation unknown;
`Expire` abstracts both deadlines. The locks of PostgreSQL are modelled; what
SQLite allows is a subset, since it has one writer at a time, and the stripe
locks of a process only make it smaller. `calls` and `effects` are ghosts that
count what was done.

**OneExecution** is what a reviewed action promises, without requests: on offer
in versions, withdrawn or taken, run as the version that was on offer, receipted.
`Proposals` implements it under the mapping at the end of that module: a proposal
is held by the provider confirmation between its claim and its effect, and the
deletion of the conversation forgets stage, version and receipt, while what was
taken before may still run.

**BankSync.** The provider is an external log of what the bank held, each
report a new place; a cursor is a place. What a request may receive is the net
change between its cursor and now, one change a page, in any order; the provider may leave
out the removal of a pending row when it sends the posted one that names it.
Definitions of the provider (`Held`, `Net`, `Needed`, `Happens`) are marked
external: they are modelled from how `plaid.py` uses the answers. `Updated` is the
import of a batch, said of each row instead of turn by turn: the last change of
a row decides what it is, and pending rows that a posted one names are reversed
at the end. `CommitLink`,
`CommitSync`, `CommitDisconnect` are one household transaction each. `Abandon`
is any failure: the provider's, the database's, a named revision that is not
current, a crash. `events` dates a snapshot. Disconnecting what is already
disconnected changes nothing and is not an action.

**Money, Schedules.** Amounts are whole cents, or fractions where the code keeps
more; `RoundHalfUp`, `RoundDown`, `Allocate` are `Money.round`, `floor` and the
largest-remainder split. A date is Python's ordinal; `Adjust`, `DayInMonth`,
`Occurrences` are the calendar's and the schedule's rules over every cadence,
with the federal holidays. `Orders` is Python's stable `sorted` and a list
comprehension with a condition, in a form the prover can reason about.

**Paychecks.** `MonthlyPlan` is the month's targets; `AllocatePaycheck` is one
deposit: `Passes` serves the `Urgent` targets by deadline, holds the floor
(`HoldFloor`), serves the required ones that are `DueLater` and then the `Rest` by
priority, as `allocate_paycheck` does; `Serve` is what one target gets in a pass,
and `Commit` adds a deposit's lines to the funding that the next one reads.

**Debts.** `SimulateMonth` is one turn of the loop of `DebtSimulator.run`:
interest, minimums, reserve, extra by strategy. `Compare`, `Mortgage`,
`Biweekly` are functions of whole plans.

**Forecasts.** One account with its dated ledger. What `entries_for` lists is here the
deposits, the pending transactions and the unpaid dates of each bill in a window
(`DepositsIn`, `PendingIn`, `Unpaid`), and `Closing` is the balance of each day.
`SpendAllowance` and `Sweep` take money on a figure's word and remember the
promise; `DraftPayment` puts an occurrence on record; `DayEnds` is an external
day: any due bill may be paid or not, an unconfirmed one for up to a tenth more,
and an expected deposit may come or not. A promise is `sure` when the figure
saw everything (`Clear`): no obligation of the window is out of its sight, as an
overdue one without a record is, or one moved back from a date after the window.
Rules, skips and upcoming runs are functions beside it.

**Cards, Coverage, Taxes** are pure: `RankCards`, `Buckets`, `Remedy`,
`CompareSavingsVsDebt` and what they need. `Figures` says what one may be given
and takes a case of one of the three as its initial state; nothing moves after it.

**Toolbox, Routing, Guardrails.** A tool is what it accepts, when it fails and
which figures and payment states its result carries; a question is what its
words match. A payment leg is its state and the states its audit lists before it:
a status shows the first, the explanation of a leg shows both. A draft of the model is which token it puts where, what it typed
itself, and what it claims. Text is nothing more than that.

**LocalModel, Assistant.** The nodes of the graph are operators on a request's
record; the steps are those between which another request, an edit or a
shutdown can come: `Ask` (snapshot, route, tool), `SelectTools` and
`ToolsSelected` around the model's selection, `Compose` and `Worded` around its
wording, `Edit`, and the client's `Discover`, `Close`, `CoolingEnds`.

Every module keeps its mutants (a definition with a plausible bug, marked as
such) before the definition they replace: each checked property is known to
fail for at least one of them.

## 3. The runs

Distinct states and seconds are those of two TLC workers with coverage on,
on a slow machine.

| Run | Question | Bounds | States |
|---|---|---|---|
| `engine_ledger` | Do reservations, dated bills and balances stay exactly what the legs say, under every call, fault and return? (`BooksExact`, `NeverOverpaid`, `OneOutPerIntent`, `ProviderKnows`) | 3 legs over 2 days, a bill of 2 and a goal, amounts of 1, legs 1 and 2 chained | 774 k, 109 s |
| `engine_commands` | With rules and bills edited between draft and payment, does a stale draft go out, is cash ever uncovered, is an open payment replaced? (`Covered`, `NoReplacement`, `SentOnCurrentTerms`) | 2 legs, a rule that pays a bill of 4 out of the savings and one that saves for a goal, amounts of 2, 2 mandates, all edits | 1.81 M, 160 s |
| `engine_onetime`, `engine_periodcap`, `engine_returned` | Do three sentences of the documentation hold? They do not: section 4 | 2 or 3 legs | shortest traces |
| `store` | Does the store implement the ledger, do caches and answers show what was committed, does every request end? (`LedgerSpec`, `CachesExact`, `AnswersFresh`, `ReviewedOnly`, `AuthorityAtCommit`, `EveryRequestEnds`) | 2 processes, 3 threads, 2 requests on cold or warm caches of one entry, one crash, midnight or role change, both databases | 89 k, 88 s |
| `proposals` | Is an action run once, as reviewed, and is its receipt true? (`ExecutionSpec`, `ExecutedOnce`, `ReviewedExactly`, `ReceiptsTrue`, `DuplicatesAnswered`, `OvertakenNeverCompletes`, `ContextInherited`) | 2 questions, 1 proposal of 4 kinds and 2 versions, 2 requests at a time and 3 in all, one event | 1.26 M, 200 s |
| `proposals_stuck` | Does the wait a confirmation is told to make end? It does not: section 4 | 1 question, 1 proposal, no events | a short trace and a stutter |
| `bank` | Do the records match the cursor, is a purchase counted once, does nothing go back? (`RecordsMatchCursor`, `CountedOnce`, `NeverBackward`, `HealthyIsCurrent`, `DisconnectedStays`, `DisconnectedMeansRevoked`) | 2 requests at a time and 4 in all, 2 connection rows, 2 accounts, 1 purchase, 3 events at the bank, 2 attempts a batch | 1.49 M, 200 s |
| `planning` | Do the planners keep what their figures say? (`SharedLedger`, `DeadlinesFirst`, `ConflictShown`, `MonthsClose`, `BenchmarkCheapest`, `PromiseHolds`, `RankingSettled`, `DepositsInOnePlace`, `BreakEvenHonest`) | every combination of small rules, deposits, debts, ledgers and cases in `MCPlanning`; 14 months; a week | 94 k, 48 s |
| `overdue_bill` | Is an overdue bill in the forecast? It is not: section 4 | the ledgers of `planning` | a short trace |
| `assistant` | Are an answer's figures of one revision, its wording right when it is used again, and its claims backed by evidence? (`FiguresOfItsRevision`, `KeptWordingStaysRight`, `SpendableIsTheAllowance`, `ClaimsHaveEvidence`, `PoolOpenWhileUsed`) | 3 questions of 2 households, 2 at a time, 2 revisions, 2 tool calls, 1 kept wording; 4 kinds of draft, 5 selections; a payment that is reconciled and then returned, one under way | 191 k, 200 s |

Assumptions of the MC modules that TLC evaluates before a run are checks too:
`SkipsHold` (skipping a run stops that run alone), `ScenariosHold` (a lump sum
never costs interest), `InitiationHolds` (the latest safe day is safe, the next
is not), `ComparisonsHold` (the shorter card comparisons agree with the ranking), `CoverHolds`
(the households of the engine's runs meet the hypotheses of `CoveredCorrect`) and
`RoutesAreAnswerable` (every intent leads to a calculator that accepts its arguments and to a
template that finds its figures, with an error and without one; `TemplateReads` is the
same of the templates for every household, a lemma the figures' proof rests on).

Why the bounds are enough to see the interesting cases. In the engine every hazard relates two
legs of one obligation, and the third leg lets one of them be returned and
rebuilt in between; a bill of 2 paid by amounts of 1 needs two payments and can
be overpaid by a third. In the store a lost edit needs two writers, and a stale
cache needs a slow reader beside a writer, in one process or in two; three
threads over two processes give both, caches that start cold or warm replace a
third request, and a cache of one entry evicts at every insertion. For a proposal two requests race and the third finds what they
left: three confirmations of one version, or an edit between two. At the bank
three events are enough for a purchase that is pending, posted and then
changed or removed, or for a balance to vanish and come back, with each event
falling between any two calls of two syncs; the code tries a batch three times,
the run twice, as a second restart starts from the same saved cursor as the first.
For the planners the cases are chosen at the edges: two deposits of one
day, a rent due on a payday, a target with a cent too few, debts that tie, a
minimum beyond the debt, a bill moved by a holiday, a cap that a purchase passes,
a rate on the break-even. Three questions let one keep wording, one use it and a third of
another household meet both.

`MaxLegs`, `MaxDay`, `MaxRequests`, `MaxEvents` and `MaxVersion` are bounds of
the model and stand in guards; `CacheLimit` and `Attempts` are limits of the code
made small, as are `MaxMonths`, `MaxToolCalls`, `MaxEntries`; `Slots` is a bound.
Symmetry is used between requests and between questions of `proposals` and
`bank`, never in a liveness run.

Deadlock is checked in the engine's runs. The others say `CHECK_DEADLOCK
FALSE`, since they really stop once their bounded requests are served.

Fairness. `store` assumes weak fairness of each thread's next step: a
thread that can go on goes on. That is what an operating system and a database
give; neither lock promises a fair queue, and with a bounded number of requests
weak fairness is enough: a lock cannot be taken from a waiting thread for ever.
`proposals_stuck` assumes that requests go on, that an
answer whose process lives ends, and that time passes (`Lapse`); it assumes
nothing of a dead process, nor that a user asks again. All other runs check
safety and assume nothing.

## 4. What the code does not keep

Each is a run that TLC ends with a counterexample, and a finding that quotes the text.

- **A one-time mandate pays twice** (`engine_onetime`). Renaming a rule forks
  its mandate: a draft built before holds the old object, one built after the copy.
  `models.py:645` says a one-time mandate authorizes a single payment.
- **The period cap is reset** (`engine_periodcap`). A payment dated in another
  month resets the usage, so going back to the first month starts it over.
- **A draft settles on a returned payment** (`engine_returned`). It was built
  before the return, keeps the attempt number of that time and with it the old
  idempotency key, and the provider answers with the old submission.
- **A dead answer blocks every confirmation** (`proposals_stuck`). The
  180-second lease lapses, `active_generation` stays, and `check` looks only at
  that, until somebody asks another question.
- **An overdue bill leaves the forecast** (`overdue_bill`), with the allowance
  and the buffer computed from it, unless a payment had been drafted for it.

Two statements are written in `Proposals` and not checked, because the code does
not keep them and no text claims it does: `ProviderDuplicatesAnswered`, the
receipt for a repeated provider confirmation, and `DeleteWaits`, no deletion
under a claim committed a moment before.

One more is written in `Assistant` and not kept, without a run of its own:
`ClaimsOfThePresent`, that "has been paid" is published only while a payment has
landed. The explanation of a payment carries the leg with its audit
(`ai/tools.py:1050`), and `_claims_completed_action` searches the whole result
(`ai/graph.py:565`). Of a leg that was reconciled and then returned, "has been paid"
may be published; of one whose outcome is unknown, "I have sent", as it was
`submitted` before the timeout (`execution/engine.py:716`). The comment above the
search says that a response is permitted only after the payment service confirms
that state (`ai/graph.py:556`), and the result itself that a payment is only described as sent
when the service confirms it (`ai/tools.py:1057`). With `ClaimsOfThePresent` as an
invariant of `assistant`, TLC finds the returned payment in six states; what the
code does keep is `ClaimsHaveEvidence`, which counts that past where the answer explains a payment.

Observed while modelling, and left at that. *Engine:* the duplicate check of a
draft compares the whole intent, its attempt number included
(`execution/engine.py:651`); a rule that pays a bill without a payee account may
name a goal too, its leg then pays the creditor and `settle`
(`execution/engine.py:878`) credits the goal with money that left, after which
the reserves of an account may exceed its balance: no household of the runs has
such a rule, and `CoveredCorrect` has its absence as the hypothesis `GoalRulesFund`. *Planners:* a skip is stored under its adjusted date
while allocator and engine ask with the unadjusted one (`ai/tools.py:445`); a
semimonthly schedule that moves missing days to the next month's first loses
occurrences; a deposit that is received today is counted in the allowance before
it is in the balance; the sweep's buffer nets an inflow that comes later; a
debt in a promotion is ordered by the rate of its contract, for which
`BenchmarkCheapest` makes an exception; paychecks of one day fund a shared target without counting one another
(`engine/allocator.py:537`); `money.allocate` hands out no cents of a negative
total (`money.py:193`); the comment on joint deposits (`engine/coverage.py:203`)
does nothing. *Assistant:* with the model selecting tools, a question that was
routed nowhere still lets it select; grounding accepts true figures that changed places, except
in the phrasings of a spendable amount that `ai/guardrails.py:229` recognises, which are
what place 1 of the allowance stands for; kept wording that a check rejects stays kept.

## 5. The proofs

| Module | Theorems | Inductive invariant |
|---|---|---|
| `ExecutionEngine_proofs` | `TypeCorrect`, `OneOutCorrect`, `ProviderKnowsCorrect` | `OneOut` |
| `EnginePayments_proofs` | `NeverOverpaidCorrect`, `BooksExactCorrect`, `NoReplacementCorrect`, `TermsCorrect`, `CoveredCorrect` | `Within`, `Books`, `FirstAttempts`, `CoverInv`, types |
| `HouseholdStore_proofs` | `TypeCorrect`, `CachesCorrect`, `AnswersCorrect`, `ImplementsLedger`, `ReviewedCorrect`, `AuthorityCorrect` | `StoreInv`, `AdmittedInv` |
| `Proposals_proofs` | `TypeCorrect`, `OnceCorrect`, `ReviewCorrect`, `ReceiptCorrect`, `DuplicateCorrect`, `OvertakenCorrect`, `ContextCorrect`, `ImplementsExecution`, `ExecutionIsOnce` | `Conversing`, `IInv`, `ExecutionInv` |
| `BankSync_proofs` | `RevokedCorrect`, `StaysCorrect`, `RecordsCorrect`, `CountedCorrect`, `HealthyCorrect`, `ForwardCorrect` | `IInv`, `RInv` |
| `Planners_proofs` | `MonthsCloseCorrect`, `SharedLedgerCorrect`, `DeadlinesFirstCorrect`, `ConflictShownCorrect` | `MonthsInv`, `PaychecksInv` |
| `Figures_proofs` | `PromiseCorrect`, `BreakEvenCorrect`, `RankingCorrect`, `DepositsCorrect` | `AccountInv`; the figures change nothing |
| `Assistant_proofs` | `FiguresCorrect`, `KeptWordingCorrect`, `SpendableCorrect`, `ClaimsCorrect`, `PoolCorrect` | `IInv`; for the pool the property itself |

All rest on nothing but the named assumptions of their module
(`EngineAssumption`, `StoreAssumption`, `ConversationAssumption`,
`ProposalAssumption`, `BankAssumption`, `AssistantAssumption`, `DebtAssumption`,
`HomeAssumption`, `LedgerAssumption`, `WindowAssumption`, `YearsAssumption`, and in `Figures`
`PurchasesTyped`, `ProgramsTyped`, `HouseholdsTyped`, `ComparisonsTyped`): the types of the
constants and `None` being none of the values. TLC evaluates them in every run. Those of debts,
homes and ledgers say that amounts are whole cents, that a budget is not negative (it is the minimums and an
extra payment that `api/finance_routes.py:138` takes from zero up), that the rules of a household have distinct identities (they are the keys of a
dictionary), that the deposits its schedules project are dated amounts, and that an
account's deposits are not negative and its bills more than nothing, as the
editor takes them (`services/workspace.py:96`, `:311`). `HouseholdsTyped` also says that a regime is
in force on the day, as there is no report otherwise (`engine/coverage.py:88`).
`CoveredCorrect`
alone has hypotheses of its own, `Solvent` and `GoalRulesFund`: reserves begin
within the balance of their account, which the editor checks
(`services/workspace.py:200`, `:354`), and a rule that pays a bill and names a goal pays
into the account of the goal, which nothing checks. No bound of a model
is used but that it is a natural number.

*Engine.* Neither `OneOutPerIntent` nor `ProviderKnows` says why a step keeps
it. The lemma `NextStep` reduces all actions to one fact, `LegStep`: a step
leaves every built leg as it was built, and a leg that is out afterwards was
out before or is the one leg this step executed, after its preflight. As
preflight refuses a leg that has another of its intent out, `OneOut` (both
properties with the types) is kept. `TermsCorrect` is the same fact read for the
terms preflight compares. `FirstAttempts` adds that under the commands nothing
is returned, so every leg is a first attempt and the intent of a replacement is
the intent of the leg it would replace.

*Sums of payments.* `Total` counts the cents of a set of legs; `Joins` and
`Sums` say what a leg adds to the sums it joins, and no induction over the set
is needed. `MoneyOfNext` reduces every action to six kinds: a step leaves all
money alone, or it commits, releases, settles, confirms or takes back one leg.
`Phases` (applied exactly while the money is where it was sent) tells which of
the sets of unsettled, settled and confirmed legs change, `SetsStep`. `Books` says that
reservations, balances, funded and paid amounts are the sums over these sets;
an amount taken from a sum that holds its leg never meets the clamp at zero. `Within` uses
the commit, where preflight has compared the amount with what the bill needs
less what is in flight, and the settlement, which moves an amount from one side to
the other.

*Cover.* Preflight commits no more than what is free of reservations and
reserves. A settlement then lowers the reservation and the balance alike, and
what it adds to a goal it adds to the balance of the goal's account
(`GoalsKept`: by the rules a leg that names a goal is paid there). Under
the commands nothing is returned, so nothing leaves an account in another way.

*Store.* `StoreInv` adds two things to the properties. `Ledgered`: the history
is as long as the revision, its last book is the row's, and the projection
agrees; it makes `CachesExact` meaningful, as an entry is the history at its
revision and the history only grows. `AllHonest`: what every thread has read so
far is something that was committed, no older than its request, and a writer's
new book is an edit of the revision it read; without that a later insertion
could put anything in a cache. The refinement follows: `Commit` succeeds only when the
revision is still the one that was read, so it is the ledger's one action, and every
other step leaves history, projection and audit alone. `AdmittedInv` says that
on PostgreSQL a writer past its checks holds the rows they were made on.

*Bank.* `Closing` carries the revocation from the provider's answer to the
transaction that closes the row; `Versions` says that every closing counts the
version up, so a disconnect that was overtaken by another knows it; `Syncing`,
that a sync has a connection.

*Bank records.* `BankSound` is what the provider keeps: a purchase has one row at a
time, and a posted row names only the pending row it replaces. A batch
is a set of changes between two places of the log in which a row changes once,
so the order of its pages does not matter, and what a row is afterwards is what the
bank held at the second place (`Exact`, `Complete`, `Batched`). `InTime`: the
version of the connection is the only evidence that the cursor a batch began at
is still the saved one; `OneLinked`, that two exchanges do not give two
connections with the same rows.

*Proposals.* `Conversing` says that the answer which owns the conversation began
as its version, and that what a question read is what the conversation held at
the version it read: from it follow both properties of the conversation. `IInv` says of
each request what its step may rely on (`Fits`: a request past its claim has
the version it confirms, its remote call is counted, its effect not yet), of each two requests that
they are not both past the claim of one proposal (`Apart`), and of each proposal that its
status, receipt, calls and effects agree (`Sound`: proposed or canceled, nothing
was done; executed, once, and the receipt says what). `Apart` is what makes the
rest inductive: without it two claims could each be sound alone. One lemma per
action shows that it keeps the four parts, and the properties are read off `Sound`.
The refinement is step by step: an action of a request changes what is seen of one
proposal only (`SeenOne`, `Unseen`), and `IInv` says which step of `OneExecution` that is.
`Apart` makes who holds a proposal one request, so a claim is a take and an effect
spends it. `ExecutionIsOnce` is a theorem about the abstract module alone:
whatever implements it executes nothing twice.

*Assistant.* The invariant says of each open request that its results were told
of the revision its snapshot is of, and of each kept wording that it is right
by the tokens that are in its own key. Two lemmas carry it: for every
household and argument the template of an intent puts into words only figures
its tool returned (`TemplateReads`), and verification lets through only tokens
of the reference it is given. A third, `StatesShown`, says which payments a result can
speak of: the states the household's legs are in, and the past of the leg that an explanation is
about, which is the household's and the one asked for (`ExplainedLeg`). A caller takes a connection only from a client that is not closed, and the
last one out of a closed client closes the pool; no other step touches it.

*Sums and orders.* The planners are made of folds, sorts and filters, so
`Planners_proofs` starts with what these are: a fold over a sequence is the last of a
sequence of partial results (`TraceOf`, `SumTrace`), a sum grows with what is
added, and a list in key order has every place once, the smaller key first
(`KeyOrderLists`, `SortByArranges`). The order of debts by relief of cash flow compares
fractions, and that it is an order is proved too (`FractionsOrdered`).

*Debts.* A payment moves cents from the budget to one debt (`Settles` nothing else), so
every pass of a month loses none; a pass over debts in any order that names each
leaves the budget spent or every debt paid (`PayInOrder`), which is why the month pays
the whole budget under every strategy but the one that preserves liquidity. `MonthsInv`
adds to the property the types, the plan's terms and the payoffs so far, each debt once.

*Paychecks.* Of a deposit in progress `Fits` says that it is spent to the cent
and gave no target more than it lacks, and of each target, that it has no line yet
(`Fresh`), that one line shows all it got (`Met`), or that what it still lacks went to nobody due later
(`First`). One pass serves each target once (`PassFacts`); `Keeps` says that what is served afterwards
changes none of the four. As the money only shrinks, a target that is served in full
and left short leaves nothing behind, and from then on nothing is given to anybody: that is
why an earlier deadline is never paid from what a later one left. `PaychecksInv` then says
that the ledger is the month's targets with more funding, each within the larger
of its target and what it had (`Grown`), and the three properties are read off.

*Forecasts.* `PromiseHolds` says nothing of the days to come, so no step keeps it by itself.
`Margin` is what a day closes with in the worst case: the balance, with the deposits
that are sure and the pending transactions up to that day, when every bill owed by
then is paid at its highest price. `AccountInv` says that the margin of every day a promise
covers is above what was to be kept (`Kept`). A day that ends moves money from one side of the
margin to the other and loses none (`DayKeepsMargins`), as it pays only what was owed and no more
than the highest price (`BillsShrink`), and the new balance is at least the day's
own margin (`DayKeepsBalance`). What is left is that both figures start above: an exact
allowance has every margin at or above the balance its forecast shows
(`AllowanceKeeps`), and the buffer's tenth, rounded once over the whole sum, covers the
tenths of the single bills (`SweepKeeps`, `RoundedTenth`, `SumTenfold`). The attempt found
the first form of `Clear` too weak: a bill due on a Sunday after the window and
moved back into it is in no forecast (`dates.py` asks for the window's days before it
adjusts them), so it has to be excluded by name; a bill like it is now in the run.

*Taxes.* A row and the baseline round interest three times between them, so they compare
only to the cents that rounding moves. `InterestNear` bounds the interest after tax by
its exact value to within a cent, and `RowAgainstBaseline` carries that over to a
row: at the break-even yield the debt is ahead by at most two cents, below it
behind by at most two. The highest of the rows' yields therefore decides for all of them.

*Cards.* What a card earns below and above a cap is linear in the amount, so two parts
earn before rounding what the whole earns (`EarnedInParts`), provided the same rule is the best
one before and after the first part; it is, as a rule is picked by its rate alone
and buying changes only how much of the cap is used (`SameMatch`). Rounding each part moves a
cent (`RoundedParts`). For the ranking, a grace that is confirmed as lost can only lower a net
(`NetFalls`) and leaves the reward as it was: a winner whose own grace is known and whose rivals can only fall
stays ahead, and a winner whose grace is unknown is never shown as settled.

*Coverage.* A report adds account by account into buckets, and the property adds bucket by bucket,
so the proof first exchanges two sums over a finite set of keys (`SumsExchange`). What one
account adds over all buckets is its balance, or what its sweep program lists of it (`SumSpread`,
`AccountInBuckets`, as the banks of one program are different keys); with what is reported
as not resolved, and less what a program lists beyond the balance, that is the balance (`PartsOfAccount`).
Dividing an account, and moving part of one to another bank, are the same step
(`Divided`), which changes the total of a bucket by what the account held there before
and holds after (`DividedTotals`). A division adds what it takes from the same bucket. A remedy takes from
one bucket what is uncovered and the buffer, and the headroom it reported keeps
the other below its limit (`RemedyMoves`, `AfterRemedy`), so that less is uncovered (`LessUncovered`).

Only model-checked: `BenchmarkCheapest`, which compares whole runs of a plan
under two orders: that the avalanche is the cheapest is an exchange argument over the months to come,
an induction over data; and `EveryRequestEnds`: liveness under fairness is out of the prover's reach.

## 6. What is left out

Not modelled: accounts, sessions and throttling, documents, MCP approval, the
HTTP layer, the assistant's workflows with their planner and evidence, seed
data, migrations, the web page and scripts; PROJECT.json gives each its reason.
Two of their hazards are worth naming: the document quota relies on a row lock
that SQLite does not have (`services/documents.py:211`), and so does the counter
of attempts (`services/auth.py:78`).

- Workspace edits: a manual edit of a balance does not look at reservations
  (`services/workspace.py:200`); an account left out of a snapshot may be
  imported from CSV and be synced again later (`services/workspace.py:463`).
- Engine: interest, principal and escrow; legs without an occurrence; the rows
  a settlement writes for display. The return of a settled leg keeps the
  mandate's use (`execution/engine.py:967`).
- Store: the stripe is shared by households that hash alike, which only
  makes a request wait longer; the codec; `record_answer`; start and stop.
- Proposals: what an operation computes; several actions of one proposal are
  one change; private operations on other records are one kind that
  leaves the household alone; deadlines are an event, not a clock.
- Bank: liabilities and card terms, parsing, changes of currency or account
  type, the encryption of tokens; the limit of 100 pages is one more failure.
  Reached by the model but covered by no property: a row left active whose grant is
  already revoked (`services/bank_operations.py:60`). A transaction that
  arrives between snapshot and changes (`integrations/plaid.py:559`) and rows
  skipped for an account that is still incomplete (`integrations/plaid.py:535`)
  are excluded from the properties by what they say. A category corrected on a
  pending row is not carried to the posted row (`integrations/plaid.py:562`).
- Planners: powers of a yield are parameters, rates are whole percents or
  thousandths, currencies are one. The tiers, the sweep's economics and the timing
  advice of `Forecasts` are translated and checked by no property.
- Assistant: words are what the router and the checks tell apart; the lengths
  and enumerations of arguments, memory, documents and the scope of a household's permissions,
  which no deployment sets, are left out. Pausing, skipping and paying are refused to a
  question, so their bodies are in the engine's model only.

## 7. The plan

Done: the engine, the store and its refinement, conversations, proposals and their refinement,
the bank, the planners and calculators, the assistant's answers. What would
come next, in order of worth:

1. `Throttle` and `Sessions` (`services/auth.py`), `Documents` (quota,
   duplicate uploads), MCP approval and drift.
2. `Workspace`: validation of edits, CSV import, manual edits against reservations.
3. `Engine` composed with `Store`: commands of two processes on one snapshot.

## 8. How to run it

In this directory: `tlc -workers 2 -config Store.cfg MCHouseholdStore`, with
the module and configuration of any run in `PROJECT.json`, and `tlapm
HouseholdStore_proofs.tla` for a module of proofs. `PROJECT.json` also holds the
map from every definition to the lines it models, the mutants and the hazards.
