CONSTANTS
    Operation = {o1}
    Runner = {r1, r2}
    Key = {k1}
    Digest = {d1}
    None = None
    Link <- MCLink
    FirstLink <- NoLink
    RetryLimit = 3
    ClaimLimit = 3
    Rows = 2
    BatchSize = 1
    MaxVersion = 1
    GraphSettings = {TRUE, FALSE}
SPECIFICATION Spec
INVARIANT CancelledKeepsSource
ACTION_CONSTRAINT OnlyInterrupted
CHECK_DEADLOCK FALSE
