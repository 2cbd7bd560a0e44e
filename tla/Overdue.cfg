SPECIFICATION Spec
CONSTANTS
    Purchases <- MCPurchaseFigures
    Programs <- MCPrograms
    Households <- MCDeposits
    Comparisons <- MCComparisons
    FirstYear = 2026
    LastYear = 2028
    Month <- MCMonth
    Homes = {}
    DebtPlans = {}
    MaxMonths = 14
    Ledgers <- MCLedgers
    AllowanceDays = 3
    BufferDays = 4
    WindowDays = 2
CHECK_DEADLOCK FALSE
INVARIANT
    OverdueStaysVisible
