SPECIFICATION Spec
CONSTANTS
    N = 2
    LBEnabled = {1}
    File <- OneFile
    FirstHome <- OnFirst
    MaxHandle = 2
    Load = {0, 2}
    Threshold = 1
    MaxTries = 1
    MaxQueue = 1
    Writer = {w1}
    Opens <- AllOpen
    Extending = {w1}
INVARIANT AckedVisible
