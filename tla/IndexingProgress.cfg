SPECIFICATION Spec
CONSTANTS
    t1 = t1  t2 = t2
    Threads = {t1}
    QueueSize = 1
    MaxEvents = 2
    MaxBreakpoints = 2
    MaxAllocations = 0
PROPERTIES
    IndexingGoesOn
