\* Two files are created at once; nothing fails.
SPECIFICATION Spec
CONSTANTS
    c1 = c1
    c2 = c2
    n1 = n1
    n2 = n2
    None = None
    Client = {c1, c2}
    Name = {n1, n2}
    Jobs <- MCTwoFiles
    OldKind = {}
    RetryLimit = 1
    Faults = {}
    MaxFaults = 0
INVARIANT OwnMetafile
CHECK_DEADLOCK FALSE
