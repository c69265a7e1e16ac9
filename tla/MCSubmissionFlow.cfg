SPECIFICATION FairSpec
CONSTANTS
    MaxSubmissions = 2
    MaxFailures = 2
INVARIANTS
    TypeOK
    ShownIsOfActiveJob
    DoneIsLoaded
PROPERTY BusyEnds
CHECK_DEADLOCK FALSE
