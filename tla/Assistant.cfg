CONSTANTS
    Requests = {"r1", "r2", "r3"}
    Slots = 2
    MaxToolCalls = 2
    MaxEntries = 1
    Households <- MCHouseholds
    ScopeOf <- MCScopeOf
    Asks <- MCAsks
    Selections <- MCSelections
    Deviations <- MCDeviations
SPECIFICATION Spec
INVARIANTS
    FiguresOfItsRevision
    KeptWordingStaysRight
    SpendableIsTheAllowance
    ClaimsHaveEvidence
    PoolOpenWhileUsed
CHECK_DEADLOCK FALSE
