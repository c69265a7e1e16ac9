SPECIFICATION Spec
CONSTANTS
    MaxRequests = 1
    ContentUnderstandingMaxPolls = 2
    BatchTranscriptionMaxPolls = 3
    MaxRedeliveries = 0
PROPERTY TerminalIsFinal
CHECK_DEADLOCK FALSE
