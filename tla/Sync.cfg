\* Two consumers and two producers; three tasks at the readers-writer lock.
\* Two wheels of four slots: times up to 15 fit, longer ones are parked on the
\* last wheel; one timeout of the kind Timer uses, one that repeats.
CONSTANTS
    c1 = c1
    c2 = c2
    p1 = p1
    p2 = p2
    Consumers = {c1, c2}
    Producers = {p1, p2}
    Sole = {c1, p1}
    Increments = {1, 2}
    Nobody = Nobody
    SemaphoreSize = 1
    Capacities = {0, 1}
    Garbage <- AnyCounter
    Full = 2
    MaxOps = 3
    Lockers = {c1, c2, p1}
    a1 = a1
    r1 = r1
    Timers = {a1, r1}
    ABS = {a1}
    INT = {r1}
    WHEEL_BIT = 2
    WHEEL_NUM = 2
    MaxTime = 19
    Times = {0, 3, 4, 7, 17}
    Null = Null
    Expired = Expired
    Idle = Idle
SPECIFICATION SyncSpec
INVARIANTS
    WakeupsCover
    LimitsKept
    TakenInOrder
    Exclusion
    BitsMatchLists
    TimeoutsCheck
PROPERTIES
    PoolDrains
    ImplementsTimerSet
\* Tasks that made all their calls stop.
CHECK_DEADLOCK FALSE
