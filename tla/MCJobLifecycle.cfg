SPECIFICATION FairSpec
CONSTANTS
    MaxRequests = 2
    ContentUnderstandingMaxPolls = 2
    BatchTranscriptionMaxPolls = 2
    MaxRedeliveries = 1
INVARIANTS
    TypeOK
    ReferencesAreBacked
    DoneIsCoherent
    OnlyUploadCompleteDropsTranscript
    CompletedIsTerminalOrUploaded
    MarkedIsStarted
PROPERTIES
    TerminalIsLeftOnlyBy
    PublicationKept
    StartedEnds
CHECK_DEADLOCK FALSE
