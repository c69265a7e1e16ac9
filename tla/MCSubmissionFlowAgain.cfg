SPECIFICATION Spec
CONSTANTS
    MaxSubmissions = 2
    MaxFailures = 2
INVARIANT DoneIsShown
CHECK_DEADLOCK FALSE
