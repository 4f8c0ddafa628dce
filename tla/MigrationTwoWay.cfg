SPECIFICATION FairSpec
CONSTANTS
    N = 2
    LBEnabled = {1, 2}
    File <- OneFile
    FirstHome <- OnFirst
    MaxHandle = 3
    Load = {0, 2}
    Threshold = 1
    MaxTries = 2
    MaxQueue = 2
    Writer = {}
    Opens <- AllOpen
    Extending = {}
INVARIANT CopiesApart
INVARIANT BusyNotCandidate
CHECK_DEADLOCK FALSE
PROPERTY RoundEnds
