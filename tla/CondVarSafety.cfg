\* Two waiters with deadlines, one without; their lock is a Mutex.
CONSTANTS
    t1 = t1
    w1 = w1
    t2 = t2
    Tasks = {t1, t2, w1}
    Timed = {t1, t2}
    Kinds = {"wait", "until"}
    LockKind = "mutex"
    Nobody = Nobody
    TimerThread = TimerThread
    MaxOps = 2
SPECIFICATION Spec
\* A leaked timeout ends what the properties promise.
CONSTRAINT BeforeLeak
SYMMETRY TaskSymmetry
INVARIANTS
    WokenOnce
    TimedWokenOnce
    NothingLeftBehind
    LostOnlyAfterTimeout
\* Tasks that made all their calls stop, and a failed assertion ends the program.
CHECK_DEADLOCK FALSE
