SPECIFICATION FairSpec
CONSTANTS
    Req = {r1, r2, r3}
    Handle = {h1}
    ModeElem = ModeElem
    InCount = 2
    MaxModes = 2
INVARIANTS
    HeadGoes
    NoOvertaking
    CompatibleHolders
    CountExact
    AdminDrained
    IndInv
PROPERTIES
    EverybodysTurn
    ImplementsLock
