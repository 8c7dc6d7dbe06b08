SPECIFICATION Spec
CONSTANTS
    t1 = t1  t2 = t2  f = f  g = g  nop = nop  b1 = b1  b2 = b2  b3 = b3  b4 = b4
    Threads = {t1, t2}
    Functions = {g, nop}
    Immediate = {nop}
    FrameSize <- GNopSizes
    UserFunctions <- GNop
    BoxSites = {}
    TypeOf <- NoTypes
    ZeroSized = {}
    ClosureTypes = {}
    Addresses = {}
    Free = "free"
    MaxHits <- TwoHits
    CaughtPanics = TRUE
    Signals = TRUE
    Rereported = {"call", "ret"}
    TraceAllocation = TRUE
SYMMETRY ThreadSymmetry
PROPERTIES
    ImplementsCallLog
