SPECIFICATION Spec
CONSTANTS
    None = None  Default = Default  Unnamed = Unnamed
    Scenarios <- AllScenarios
    Internal <- InternalNames
    Locations <- AllPlaces
    Answers <- ShortAnswers
    Requests <- SomeRequests
    Files <- SomeFiles
CHECK_DEADLOCK FALSE
INVARIANTS
    TypeOK
    WorkspaceIsReadRight
    CommandsDoAsAsked
    TablesFitLLDB
    OutputIsShown
    RecordingIsWhole
PROPERTIES
    RecordingsAreKept
    CommandsEnd
