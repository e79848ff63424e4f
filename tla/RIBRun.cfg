\* Two batch tasks, of which b1 may yield for ever, an interactive task, and a
\* real-time task that runs no longer than a slot.
CONSTANTS
    b1 = b1
    b2 = b2
    i1 = i1
    r1 = r1
    Batch = {b1, b2}
    Interactive = {i1}
    RealTime = {r1}
    RtId <- OneId
    Stealable = {}
    Suspending = {b1, b2}
    Looping = {b1}
    Joinable = {b2, r1}
    NoTask = NoTask
    Plans <- AnyPlan
    InitPlans <- AnyPlanOrNone
    Deadlines = {1}
    Bursts = {1}
    SpinTime = 1
    CancelCap = 1
    MaxRun = 2
    RtRun = 2
    MaxClock = 3
    MaxOps = 1
SPECIFICATION FairSpec
ACTION_CONSTRAINT OneSubject
INVARIANT
    IndexInBounds
PROPERTIES
    CycleLength
    ShutDownEnds
    EveryTaskServed
\* After ShutDown the main thread leaves its loop.
CHECK_DEADLOCK FALSE
