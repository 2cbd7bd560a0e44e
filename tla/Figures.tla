------------------------------ MODULE Figures ------------------------------
(***************************************************************************)
(* The figures that are computed from what is given and change nothing: the *)
(* cards for a purchase, the insured part of a household's deposits, and    *)
(* cash kept against debt paid.  A state is one case with its inputs.       *)
(***************************************************************************)
EXTENDS Cards, Coverage, Taxes

CONSTANTS
    Purchases,      \* a purchase, the cards it may be put on, a part of it
    Programs,       \* what of an account is where: none, or the banks of a sweep
    Households,     \* a household's deposits, and the buffer of a remedy
    Comparisons     \* cash at a yield, the debts it could pay, a tax profile

VARIABLE figure

(***************************************************************************)
(* What the figures are of.                                                *)
(***************************************************************************)
RewardRules ==
    [category : STRING, rate : Nat, cap : Nat \union {NoCap}, used : Int, from : Int, until : Int,
     merchants : SUBSET STRING, channels : SUBSET STRING,
     needsActivation : BOOLEAN, activated : BOOLEAN]
CardRecords ==
    [rules : Seq(RewardRules), grace : GraceStates \union {"unknown"}, cashback : BOOLEAN,
     pointValue : Nat, apr : Nat, foreignFee : Nat, excluded : BOOLEAN, balance : Int, limit : Nat]
PurchaseRecords ==
    [amount : Nat, category : STRING, date : Int, merchant : STRING, channel : STRING,
     codingCertain : BOOLEAN, foreign : BOOLEAN, feeRate : Nat, lostDiscount : Int, carried : Nat]
DebtRecords == [balance : Int, rate : Nat, deductible : BOOLEAN]
TaxProfiles ==
    [federal : Nat, state : Nat, niit : Nat, niitApplies : BOOLEAN, itemizes : BOOLEAN,
     verified : BOOLEAN]

AccountRecords ==
    [type : STRING, inst : STRING, owner : STRING, category : STRING, protection : STRING,
     current : Int, allocations : Programs]
DeclaredRecords == [inst : STRING, owner : STRING, category : STRING, amount : Int]
HouseholdRecords ==
    [accounts : Seq(AccountRecords), declared : Seq(DeclaredRecords),
     creditUnions : SUBSET STRING, jurisdiction : STRING, on : Int]

ASSUME PurchasesTyped ==
    \A f \in Purchases : /\ f.kind = "purchase"
                         /\ f.cards \in Seq(CardRecords) /\ f.purchase \in PurchaseRecords
                         /\ f.part \in 0..f.purchase.amount
ASSUME ProgramsTyped ==
    \A s \in Programs : /\ IsFiniteSet(DOMAIN s) /\ DOMAIN s \in SUBSET STRING
                        /\ s \in [DOMAIN s -> Int]
\* There is no report where no regime is in force: regime_for raises.
ASSUME HouseholdsTyped ==
    \A f \in Households :
        /\ f.kind = "deposits" /\ f.household \in HouseholdRecords /\ f.buffer \in Nat
        /\ \A kind \in {"bank", "credit_union"} :
              InForce(f.household.jurisdiction, f.household.on, kind) # {}
ASSUME ComparisonsTyped ==
    \A f \in Comparisons : /\ f.kind = "taxes"
                           /\ f.amount \in Nat /\ f.apy \in Nat /\ f.days \in Nat
                           /\ f.debts \in Seq(DebtRecords) /\ f.profile \in TaxProfiles

NoFigure == [kind |-> "none"]
FiguresOff == figure = NoFigure
FiguresInit == figure \in Purchases \union Households \union Comparisons
FiguresSpec == FiguresInit /\ [][UNCHANGED figure]_figure

(***************************************************************************)
(* Properties.                                                             *)
(***************************************************************************)
\* Cards: a winner that is shown as settled cannot be overturned by what is
\* still unknown of the cards (SettledWinner in Cards), nor by making the
\* purchase in two parts, which earn on any card what it earns in one
\* (CapIsMarginal).
RankingSettled ==
    figure.kind = "purchase" =>
        /\ SettledWinner(figure.cards, figure.purchase)
        /\ \A k \in DOMAIN figure.cards :
              CapIsMarginal(figure.cards[k], figure.purchase, figure.part)
\* Coverage: every unit of a deposit is in one bucket or reported as not
\* resolved, splitting an account adds no coverage, and a remedy that is
\* carried out does what it says.
DepositsInOnePlace ==
    figure.kind = "deposits" => /\ DepositsAccounted(figure.household)
                                /\ AddingAccountsAddsNothing(figure.household)
                                /\ RemedyWorks(figure.household, figure.buffer)
\* Taxes: the break-even yield that is shown decides the comparison.
BreakEvenHonest ==
    figure.kind = "taxes" =>
        BreakEvenDecides(figure.amount, figure.apy, figure.debts, figure.profile, figure.days)
============================================================================
