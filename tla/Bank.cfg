CONSTANTS
    checking = checking
    card = card
    coffee = coffee
    Workers = {w1, w2}
    Conns = {c1, c2}
    Accounts = {checking, card}
    Purchases = {coffee}
    AccountOf <- MCAccountOf
    Attempts = 2
    MaxRequests = 4
    MaxEvents = 3
    None = None
SPECIFICATION Spec
CHECK_DEADLOCK FALSE
SYMMETRY MCAlike
INVARIANTS
    RecordsMatchCursor
    CountedOnce
    HealthyIsCurrent
    DisconnectedMeansRevoked
PROPERTIES
    NeverBackward
    DisconnectedStays
