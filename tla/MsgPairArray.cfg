\* Arrays of one and of two requests, each posted at most twice.
SPECIFICATION FairSpec
CONSTANTS
    Shapes <- MCShapes
    RetryLimit = 1
INVARIANTS
    CountExact
    PeerCancelled
    OutcomeTrue
PROPERTIES
    Returns
    UsesJobs
