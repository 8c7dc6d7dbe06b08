CONSTANTS
    MaxArray = 4
    Returns <- MCReturns
    Stale = {0, 238}
INIT Init
NEXT Next
INVARIANTS
    TypeOK
    
    
    NeverPanics
    ReadsBack
