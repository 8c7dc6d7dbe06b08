SPECIFICATION Spec
CONSTANTS
    t1 = t1  t2 = t2
    Threads = {t1}
    QueueSize = 2
    MaxEvents = 2
    MaxBreakpoints = 1
    MaxAllocations = 0
INVARIANT FinishedIsComplete
