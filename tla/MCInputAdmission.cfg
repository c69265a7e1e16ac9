SPECIFICATION Spec
CONSTANTS
    HardMaxFileSize = 2
    BatchMaxFileSize = 3
    SourceMaxFileSize = 5
    VideoMaxFileSize = 5
    MaxDuration = 2
    BatchMaxDuration = 4
    BlockUploadThreshold = 2
    BlockSize = 2
    Sizes <- MCSizes
    Durations <- MCDurations
INVARIANTS
    TypeOK
    EngineIsWithinItsLimits
    AdmittedIsKept
    OfferedIsAdmitted
    PageIsServed
CHECK_DEADLOCK FALSE
