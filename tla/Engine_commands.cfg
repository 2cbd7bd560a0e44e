SPECIFICATION HostedSpec
CONSTANTS
    None = None
    checking = checking
    savings = savings
    rent = rent
    rentDue = rentDue
    goalDate = goalDate
    goalLater = goalLater
    payRent = payRent
    save = save
    standing = standing
    m1 = m1
    paycheck = paycheck
    MaxLegs = 2
    MaxDay = 0
    Accounts = {checking, savings}
    CashAccounts = {checking, savings}
    SendAccounts = {checking, savings}
    CreditorAccounts = {}
    Bills = {rent}
    BillOccurrences = {rentDue}
    RuleOccurrences = {goalDate}
    Policies = {payRent, save}
    OptionalRules = {}
    IncomeEvents = {paycheck}
    Mandates = {standing, m1}
    FirstMandate = standing
    Amounts = {2}
    PerRunCap = 2
    PeriodCap = 3
    PaymentSandbox = TRUE
    Controls = {"revise", "pause", "skip", "bill", "authorize", "rename"}
    BillOf <- MCBillOf
    Due <- MCDueMore
    DateOf <- MCDateOf
    Payee <- MCPayee
    BillSource <- MCSavedSource
    PolicyBill <- MCPolicyBill
    PolicySource <- MCEitherSource
    PolicyDest <- MCPolicyDest
    PolicyReserve <- MCPolicyReserve
    PolicyDates <- MCPolicyDates
    DependsOn <- MCNoDependencies
    MonthOf <- MCMonthOf
    InitAvailable <- MCSaved
    InitProtected <- MCProtectedCash

INVARIANTS
    Covered
    NoReplacement
PROPERTY
    SentOnCurrentTerms
