SPECIFICATION Spec
CONSTANTS
    t1 = t1  t2 = t2  f = f  g = g  nop = nop  b1 = b1  b2 = b2  b3 = b3  b4 = b4
    Threads = {t1, t2}
    Functions = {f}
    Immediate = {}
    FrameSize <- OnlyFSizes
    UserFunctions <- OnlyF
    BoxSites = {}
    TypeOf <- NoTypes
    ZeroSized = {}
    ClosureTypes = {}
    Addresses = {}
    Free = "free"
    MaxHits <- TwoHits
    CaughtPanics = FALSE
    Signals = FALSE
    Rereported = {"call"}
    TraceAllocation = TRUE
PROPERTIES
    HitsAreHandled
    NothingIsStranded
