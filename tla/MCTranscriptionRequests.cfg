SPECIFICATION FairSpec
CONSTANTS
    MaxAttempts = 4
    Backoff <- NoPauses
    RetryAfter = {0}
    RequestTimes = {0}
    Preparation <- AtOnce
    ReadTtl <- AtOnce
    MaxPolls = 3
    MaxRedeliveries = 2
INVARIANTS
    TypeOK
    OrphansAreExplained
PROPERTIES
    HeldIsKept
    TranscriptionKept
    TranscriptionEnds
CHECK_DEADLOCK FALSE
