SPECIFICATION Spec
CONSTANTS
    Addr <- Objects
    Events <- SomeEvents
    Limits = {5, 8}
INVARIANTS
    TypeOK
    TreesReadBack
    SharedResolve
    RefsAreSet
    WrittenOnce
PROPERTIES
    Terminates
