SPECIFICATION Spec
CONSTANTS
    m1 = m1
    m2 = m2
    d1 = d1
    d2 = d2
    d3 = d3
    t1 = t1
    t2 = t2
    None = None
    Handle <- MCHandle
    Extents <- MCExtents
    Thread <- MCThread
    MaxCount = 2
    Purgatory = 1
    Faults = {"store", "del", "keyval"}
    MaxFaults = 2
    MaxClock = 2
SYMMETRY Sym
INVARIANTS
    Apart
    
