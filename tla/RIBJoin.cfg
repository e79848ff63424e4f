\* A batch task joins an interactive task that expires.
CONSTANTS
    b1 = b1
    i1 = i1
    Batch = {b1}
    Interactive = {i1}
    RealTime = {}
    RtId <- OneId
    Stealable = {}
    Suspending = {b1}
    Looping = {}
    Joinable = {i1}
    NoTask = NoTask
    Plans <- SporadicOnly
    InitPlans <- SporadicOnly
    Deadlines = {1}
    Bursts = {1}
    SpinTime = 1
    CancelCap = 0
    MaxRun = 1
    RtRun = 1
    MaxClock = 1
    MaxOps = 1
SPECIFICATION FairSpec
PROPERTY
    JoinReturns
\* After ShutDown the main thread leaves its loop.
CHECK_DEADLOCK FALSE
