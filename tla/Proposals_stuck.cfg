CONSTANTS
    Gens = {g1}
    Workers = {w1}
    Props = {p1}
    Kinds = {"write"}
    MaxVersion = 1
    MaxRequests = 2
    MaxEvents = 0
    None = None
SPECIFICATION FairSpec
CHECK_DEADLOCK FALSE
PROPERTY
    WaitEnds
