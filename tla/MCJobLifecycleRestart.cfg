SPECIFICATION Spec
CONSTANTS
    MaxRequests = 2
    ContentUnderstandingMaxPolls = 2
    BatchTranscriptionMaxPolls = 3
    MaxRedeliveries = 0
PROPERTY DoneIsNotRestarted
CHECK_DEADLOCK FALSE
