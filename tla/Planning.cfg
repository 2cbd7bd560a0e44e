SPECIFICATION Spec
CONSTANTS
    Purchases <- MCPurchaseFigures
    Programs <- MCPrograms
    Households <- MCDeposits
    Comparisons <- MCComparisons
    FirstYear = 2026
    LastYear = 2028
    Month <- MCMonth
    Homes <- MCHomes
    DebtPlans <- MCDebtPlans
    MaxMonths = 14
    Ledgers <- MCLedgers
    AllowanceDays = 3
    BufferDays = 4
    WindowDays = 2
CHECK_DEADLOCK FALSE
INVARIANTS
    SharedLedger
    DeadlinesFirst
    ConflictShown
    MonthsClose
    BenchmarkCheapest
    PromiseHolds
    RankingSettled
    DepositsInOnePlace
    BreakEvenHonest
