\* A task that waits with a Mutex is queued by its unlock and enabled by a notifier.
CONSTANTS
    N = 1
    c1 = c1
    c2 = c2
    Tasks = {c1, c2}
    StandAlone = {}
    NoTask = NoTask
    MaxOps = 1
SPECIFICATION SpecMutex
INVARIANT NoDuplicateReady
CHECK_DEADLOCK FALSE
