SPECIFICATION Spec
CONSTANTS
    t1 = t1  t2 = t2  f = f  g = g  nop = nop  b1 = b1  b2 = b2  b3 = b3  b4 = b4
    Threads = {t1, t2}
    Functions = {}
    Immediate = {}
    FrameSize <- NoSizes
    UserFunctions <- NoFunctions
    BoxSites = {b1, b3}
    TypeOf <- RcAndClosure
    ZeroSized = {}
    ClosureTypes = {"closure"}
    Addresses = {32, 48, 80}
    Free = "free"
    MaxHits <- TwoHits
    CaughtPanics = FALSE
    Signals = FALSE
    Rereported = {"call"}
    TraceAllocation = TRUE
SYMMETRY ThreadSymmetry
INVARIANTS
    RecordIsTheHeap
    AllocationsAlternate
