\* One waiter with deadlines, two without; their lock is a SpinMutex.
CONSTANTS
    t1 = t1
    w1 = w1
    w2 = w2
    Tasks = {t1, w1, w2}
    Timed = {t1}
    Kinds = {"wait", "until"}
    LockKind = "spin"
    Nobody = Nobody
    TimerThread = TimerThread
    MaxOps = 1
SPECIFICATION FairSpec
PROPERTIES
    TimedSleepEnds
    FinishedWaitReturns
\* Tasks that made all their calls stop.
CHECK_DEADLOCK FALSE
