\* Two jobs and two operations of a flow; one thread cancels
\* at a time.
SPECIFICATION FairSpec
CONSTANTS
    Job = {j1, j2}
    FlowOp = {f1, f2}
    AtATime = 1
    TestCount = 2
    Timeout = {1}
    Infinite = Infinite
    MaxTime = 2
    MaxPosts = 2
    None = None

    
    
PROPERTIES
    CancelsPending
    
    JobEnds
    ImplementsJob
\* Nothing moves any more once the BMI thread has terminated.
CHECK_DEADLOCK FALSE
