SPECIFICATION Spec
CONSTANTS
    t1 = t1  t2 = t2
    Threads = {t1, t2}
    QueueSize = 2
    MaxEvents = 4
    MaxBreakpoints = 1
    MaxAllocations = 1
SYMMETRY ThreadSymmetry
INVARIANTS
    TypeOK
    ParentsAreCallers
    NeverFails
    NothingLostOrReordered
    HitCountsMatch
