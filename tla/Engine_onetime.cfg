SPECIFICATION HostedSpec
CONSTANTS
    None = None
    checking = checking
    savings = savings
    rent = rent
    rentDue = rentDue
    goalDate = goalDate
    goalLater = goalLater
    payRent = payRent
    save = save
    standing = standing
    m1 = m1
    m2 = m2
    paycheck = paycheck
    MaxLegs = 2
    MaxDay = 0
    Accounts = {checking, savings}
    CashAccounts = {checking, savings}
    SendAccounts = {checking, savings}
    CreditorAccounts = {}
    Bills = {rent}
    BillOccurrences = {rentDue}
    RuleOccurrences = {goalDate, goalLater}
    Policies = {payRent, save}
    OptionalRules = {save}
    IncomeEvents = {paycheck}
    Mandates = {standing, m1, m2}
    FirstMandate = standing
    Amounts = {1}
    PerRunCap = 2
    PeriodCap = 3
    PaymentSandbox = TRUE
    Controls = {"authorize", "rename"}
    BillOf <- MCBillOf
    Due <- MCDue
    DateOf <- MCDateLater
    Payee <- MCPayee
    BillSource <- MCBillSource
    PolicyBill <- MCPolicyBill
    PolicySource <- MCPolicySource
    PolicyDest <- MCPolicyDest
    PolicyReserve <- MCPolicyReserve
    PolicyDates <- MCPolicyMonths
    DependsOn <- MCNoDependencies
    MonthOf <- MCMonthOf
    InitAvailable <- MCInitAvailable
    InitProtected <- MCInitProtected

INVARIANT OneTimeOnce
