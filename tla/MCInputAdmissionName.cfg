SPECIFICATION Spec
CONSTANTS
    HardMaxFileSize = 2
    BatchMaxFileSize = 3
    SourceMaxFileSize = 5
    VideoMaxFileSize = 5
    MaxDuration = 2
    BatchMaxDuration = 4
    BlockUploadThreshold = 2
    BlockSize = 2
    Sizes <- MCSizes
    Durations <- MCDurations
INVARIANT AdmittedIsKeptUnderAnyName
CHECK_DEADLOCK FALSE
