\* One name, any two faults of the network or of the storage.
SPECIFICATION FairSpec
CONSTANTS
    c1 = c1
    c2 = c2
    n1 = n1
    n2 = n2
    None = None
    Client = {c1, c2}
    Name = {n1}
    Jobs <- MCJobs
    OldKind = {"meta", "dir"}
    RetryLimit = 1
    Faults = {"lost", "metafile", "local", "request", "keyvals", "setobj", "write"}
    MaxFaults = 2
INVARIANTS
    CreatedIsNamed
    
    
PROPERTY OperationEnds
\* The model stops when every operation has ended (OperationEnds).
CHECK_DEADLOCK FALSE
