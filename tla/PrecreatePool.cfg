\* Two pools, two requests; a batch of two handles written one by one.
SPECIFICATION Spec
CONSTANTS
    Pool = {p1, p2}
    Create = {c1, c2}
    Ask <- MCAsk
    Batch = 2
    Low = 1
    MaxKeys = 1
    CountRange = 16
    Nobody = Nobody
    Immediate = {TRUE, FALSE}
    Faults = {"write"}
INVARIANTS
    CountBacked
    HandlesGiven
    RefillerAwake
\* With immediate completion every request may end up waiting for ever.
CHECK_DEADLOCK FALSE
