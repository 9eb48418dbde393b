SPECIFICATION MonitorsSpec
CONSTANTS
    Workers = {w1, w2, w3}
    Tasks = {a, b, c, d}
    None = None
    Threads = {t1, t2, t3, t4}
    Values = {v1, v2}
    MaxLen = 3
INVARIANTS
    IInv
    DrainedWhenGone
    SleepersNotNeeded
PROPERTIES
    EveryTaskRuns
    ShutdownReturns
    QueueWaiterWakes
    StackOnlyThrowsLoseWakeups
