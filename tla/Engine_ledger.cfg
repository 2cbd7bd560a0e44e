SPECIFICATION Spec
CONSTANTS
    None = None
    checking = checking
    savings = savings
    rent = rent
    rentDue = rentDue
    goalDate = goalDate
    goalLater = goalLater
    payRent = payRent
    save = save
    standing = standing
    paycheck = paycheck
    MaxLegs = 3
    MaxDay = 1
    Accounts = {checking, savings}
    CashAccounts = {checking, savings}
    SendAccounts = {checking, savings}
    CreditorAccounts = {}
    Bills = {rent}
    BillOccurrences = {rentDue}
    RuleOccurrences = {goalDate}
    Policies = {payRent, save}
    OptionalRules = {save}
    IncomeEvents = {paycheck}
    Mandates = {standing}
    FirstMandate = standing
    Amounts = {1}
    PerRunCap = 2
    PeriodCap = 3
    PaymentSandbox = TRUE
    Controls = {}
    BillOf <- MCBillOf
    Due <- MCDue
    DateOf <- MCDateOf
    Payee <- MCPayee
    BillSource <- MCBillSource
    PolicyBill <- MCPolicyBill
    PolicySource <- MCPolicySource
    PolicyDest <- MCPolicyDest
    PolicyReserve <- MCPolicyReserve
    PolicyDates <- MCPolicyDates
    DependsOn <- MCChained
    MonthOf <- MCMonthOf
    InitAvailable <- MCInitAvailable
    InitProtected <- MCInitProtected

INVARIANTS
    BooksExact
    NeverOverpaid
    OneOutPerIntent
    ProviderKnows
