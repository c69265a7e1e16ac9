SPECIFICATION FairSpec
CONSTANTS
    MaxAttempts = 3
    TargetDuration = 2
    Transcripts <- MCTranscripts
INVARIANTS
    TypeOK
    StoredConforms
    RequestsAreBounded
    MergeIsComplete
    ChunksFit
PROPERTIES
    RefusedIsNotRepeated
    GenerationEnds
CHECK_DEADLOCK FALSE
