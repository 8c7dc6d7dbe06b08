SPECIFICATION Spec
CONSTANTS
    t1 = t1  t2 = t2  f = f  g = g  nop = nop  b1 = b1  b2 = b2  b3 = b3  b4 = b4
    Threads = {t1}
    Functions = {f, g}
    Immediate = {}
    FrameSize <- FGSizes
    UserFunctions <- FG
    BoxSites = {}
    TypeOf <- NoTypes
    ZeroSized = {}
    ClosureTypes = {}
    Addresses = {}
    Free = "free"
    MaxHits <- FiveHits
    CaughtPanics = FALSE
    Signals = FALSE
    Rereported = {"call"}
    TraceAllocation = FALSE
INVARIANT ReturnsAreAnnounced
