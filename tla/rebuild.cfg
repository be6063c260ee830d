CONSTANTS
    Operation = {o1, o2}
    Runner = {r1, r2}
    Key = {k1, k2}
    Digest = {d1}
    None = None
    Link <- MCLink
    FirstLink <- NoLink
    RetryLimit = 2
    ClaimLimit = 3
    Rows = 2
    BatchSize = 1
    MaxVersion = 1
    GraphSettings = {TRUE, FALSE}
SPECIFICATION Spec
INVARIANTS TypeOK RetryableHasBudget PointerConsistent ReplayIsComplete ServedIsCurrent CanRollBack
PROPERTY ImplementsLease
SYMMETRY Symmetry
CHECK_DEADLOCK FALSE
