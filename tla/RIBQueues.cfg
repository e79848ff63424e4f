\* A schedule without real-time slots: one batch task, three interactive ones of
\* which one may be stolen, and a stack that keeps one expired task.
CONSTANTS
    b1 = b1
    i1 = i1
    i2 = i2
    s1 = s1
    Batch = {b1}
    Interactive = {i1, i2, s1}
    RealTime = {}
    RtId <- OneId
    Stealable = {s1}
    Suspending = {i1}
    Looping = {}
    Joinable = {b1}
    NoTask = NoTask
    Plans <- SporadicOnly
    InitPlans <- SporadicOnly
    Deadlines = {1, 2}
    Bursts = {1}
    SpinTime = 1
    CancelCap = 1
    MaxRun = 1
    RtRun = 1
    MaxClock = 1
    MaxOps = 1
SPECIFICATION Spec
INVARIANT
    HeldOnce
\* After ShutDown the main thread leaves its loop.
CHECK_DEADLOCK FALSE
