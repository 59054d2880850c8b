SPECIFICATION Spec
CONSTANTS
    a = a  b = b
    w1 = w1  w2 = w2
    Item = {a, b}
    Worker = {w1, w2}
    Priority <- MCPriority
    Rank <- MCRank
    MaxAttempts <- MCMaxAttempts
    MaxLeases = 2
    MaxEnqueues = 2
    NoLease = NoLease
SYMMETRY Symmetry
INVARIANTS
    OneHolder
    LeasedIsRecoverable
    RetriesBounded
PROPERTIES
    EndedLeaseStaysEnded
    FailureStaysVisible
