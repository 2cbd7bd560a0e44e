CONSTANTS
    Gens = {g1, g2}
    Workers = {w1, w2}
    Props = {p1}
    Kinds = {"write", "private", "bank", "import"}
    MaxVersion = 2
    MaxRequests = 3
    MaxEvents = 1
    None = None
SPECIFICATION Spec
CHECK_DEADLOCK FALSE
SYMMETRY Alike
INVARIANTS
    ExecutedOnce
    ReviewedExactly
    ReceiptsTrue
PROPERTIES
    ExecutionSpec
    OvertakenNeverCompletes
    ContextInherited
    DuplicatesAnswered
