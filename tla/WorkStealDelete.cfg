\* EndTask marks a task stealable before it reads the task's status.
CONSTANTS
    N = 2
    s1 = s1
    s2 = s2
    Tasks = {s1, s2}
    StandAlone = {s1, s2}
    NoTask = NoTask
    MaxOps = 1
SPECIFICATION Spec
INVARIANT DeletedOnceAndUnused
CHECK_DEADLOCK FALSE
