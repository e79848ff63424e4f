\* Two executors, one task with its own stack and one on the shared stack.
CONSTANTS
    N = 2
    s1 = s1
    c1 = c1
    Tasks = {s1, c1}
    StandAlone = {s1}
    NoTask = NoTask
    MaxOps = 1
SPECIFICATION FairSpec
INVARIANTS
    OneThreadPerStack
    NoDuplicateReady
    RunsItsOwnTask
    SizeCoversQueue
PROPERTIES
    SharedStackStaysPut
    EveryTaskFinishes
    StoppedExecutorExits
\* Stopped executors leave their loops: the system may end.
CHECK_DEADLOCK FALSE
