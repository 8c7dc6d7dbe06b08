SPECIFICATION Spec
CONSTANTS
    f1 = f1  f2 = f2  p1 = p1  p2 = p2
    Files = {f1}
    Processes = {p1, p2}
    MaxEdits = 2
    MaxRuns = 3
    MaxTool = 1
    Absent = Absent  Truncated = Truncated  NoFunctions = NoFunctions
    VersionFile = VersionFile
SYMMETRY Symmetry
CHECK_DEADLOCK FALSE
INVARIANTS
    TypeOK
    BreakpointsFit
    AgeTells
    PinnedMapsAreCurrent
