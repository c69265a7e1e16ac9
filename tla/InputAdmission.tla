--------------------------- MODULE InputAdmission ---------------------------
(***************************************************************************)
(* Which recordings are let in, and which transcription engine gets them.  *)
(*                                                                         *)
(* The same limits are applied five times, to different descriptions of    *)
(* one recording: by the page to the file that was picked, then to what    *)
(* the client declares when the job is created, to what it declares when   *)
(* the upload is complete, to the blob that is really there, and to the    *)
(* audio that the conversion leaves.  Whether a recording is converted is  *)
(* decided each time from a name and a content type: the page takes those  *)
(* of the file, create_job the type the page sends, the rest the blob name *)
(* built from the file name.  Other clients than the page may call the     *)
(* API as they like, and write to the upload URL again as long as it       *)
(* lives, which may be longer than the recording is read.                  *)
(*                                                                         *)
(* Sizes and durations are numbers at the scale of the limits.  0 stands   *)
(* for a duration that is not known: the client sends none, the probe      *)
(* finds none.  (A declared duration of 0 is treated by the code like one  *)
(* below every limit, just as an unknown one.)                             *)
(***************************************************************************)
EXTENDS Naturals

CONSTANTS
    HardMaxFileSize,            \* hardMaxFileSizeBytes: Fast Transcription
    BatchMaxFileSize,           \* batchMaxFileSizeBytes
    SourceMaxFileSize,          \* stablePreprocessedSourceMaxFileSizeBytes
    VideoMaxFileSize,           \* contentUnderstandingMaxFileSizeBytes
    MaxDuration,                \* maxDurationSecondsWithDiarization
    BatchMaxDuration,           \* batchMaxDurationSecondsWithDiarization
    BlockUploadThreshold,       \* blockUploadThresholdBytes (256 MB)
    BlockSize,                  \* blockSizeBytes (8 MB)
    Sizes,                      \* bound of the model: the sizes a file may have
    Durations                   \* bound of the model: the durations it may have

ASSUME LimitsAssumption ==
    /\ {HardMaxFileSize, BatchMaxFileSize, SourceMaxFileSize, VideoMaxFileSize,
        MaxDuration, BatchMaxDuration} \subseteq Nat \ {0}
    /\ HardMaxFileSize <= BatchMaxFileSize
    /\ BatchMaxFileSize <= SourceMaxFileSize
ASSUME BlocksAssumption == BlockUploadThreshold \in Nat /\ BlockSize \in Nat \ {0}
ASSUME BoundsAssumption == Sizes \subseteq Nat \ {0} /\ Durations \subseteq Nat \ {0}

VARIABLES
    stage,       \* how far the recording got
    page,        \* the client is the page, not another caller of the API
    file,        \* the file as the client has it
    request,     \* what the client declares when it creates the job
    staged,      \* how much of its file the page has uploaded in blocks
    blob,        \* the recording at the upload URL: its size and its duration
    completion,  \* the size upload-complete was told, and what it answered
    measured,    \* what create_read_sas found: actual_size or the converted
                 \* size, and duration_seconds
    stale,       \* the measurements an upload came after
    input,       \* the audio the transcription service reads
    engine       \* transcriptionEngine

client == <<page, file, request>>
prepared == <<measured, stale, input, engine>>
vars == <<stage, client, staged, blob, completion, prepared>>

Unknown == 0

Routes == {"stable", "contentUnderstanding"}

\* extension: mp4 is one of PREPROCESS_EXTENSIONS, mp3 any other supported one.
\* type: the content type, mp4 one of PREPROCESS_CONTENT_TYPES, mp3 one that
\* belongs to the other extensions, octets application/octet-stream.
\* cut: the name is so long that candidate[:128] drops its extension.
Descriptions(durations) ==
    [route : Routes, extension : {"mp4", "mp3"}, type : {"mp4", "mp3", "octets"},
     cut : BOOLEAN, size : Sizes, duration : durations]

Recordings == [size : Nat, duration : Nat]
NoRecording == [size |-> 0, duration |-> Unknown]

Stages == {"picked", "rejected", "new", "refused", "created", "abandoned",
           "uploaded", "tooLarge", "checked", "failed", "prepared", "transcribing"}

TypeOK ==
    /\ stage \in Stages
    /\ page \in BOOLEAN
    /\ file \in Descriptions(Nat)
    /\ request \in Descriptions(Nat)
    /\ staged \in Nat
    /\ blob \in Recordings
    /\ completion \in [size : Nat, answer : {"none", "accepted", "refused"}]
    /\ measured \in Recordings
    /\ stale \subseteq {"size", "duration"}
    /\ input \in Recordings
    /\ engine \in {"none", "fast", "batch", "contentUnderstanding"}

Init ==
    /\ page \in BOOLEAN
    /\ stage = IF page THEN "picked" ELSE "new"
    /\ file \in Descriptions(Durations \cup {Unknown})
    /\ request = file
    /\ staged = 0
    /\ blob = NoRecording
    /\ completion = [size |-> Unknown, answer |-> "none"]
    /\ measured = NoRecording
    /\ stale = {}
    /\ input = NoRecording
    /\ engine = "none"

-----------------------------------------------------------------------------
(* What the limits are applied to *)

\* should_preprocess_media of the file name and the declared type (in the page
\* shouldPreprocessMedia of the file: there request is the file still).
ShouldPreprocess == request.extension = "mp4" \/ request.type = "mp4"

\* Mutant: later only the content type is looked at.
ShouldPreprocessBlobByType == request.type = "mp4"

\* should_preprocess_media, of the blob name build_safe_file_name made.
ShouldPreprocessBlob ==
    (request.extension = "mp4" /\ ~request.cut) \/ request.type = "mp4"

\* ALLOWED_EXTENSIONS_BY_CONTENT_TYPE
TypeAllowsExtension == request.type \in {request.extension, "octets"}

MaxFileSize(preprocess) ==
    IF request.route = "contentUnderstanding" THEN VideoMaxFileSize
    ELSE IF preprocess THEN SourceMaxFileSize
    ELSE BatchMaxFileSize

DurationLimit ==
    IF request.route = "contentUnderstanding" THEN MaxDuration ELSE BatchMaxDuration

\* Mutant: the limits themselves are still given to Fast Transcription.
SelectTranscriptionEngineInclusive(size, duration) ==
    IF duration > MaxDuration \/ size > HardMaxFileSize THEN "batch" ELSE "fast"

SelectTranscriptionEngine(size, duration) ==
    IF duration >= MaxDuration \/ size >= HardMaxFileSize THEN "batch" ELSE "fast"

-----------------------------------------------------------------------------
(* The steps of a recording *)

\* Mutant: the page sends the type as it finds it.
FileType == IF request.type = "octets" THEN request.extension ELSE request.type

\* resolveAudioContentType: a type that is missing, or that does not go with the
\* extension, gives way to the canonical one of the extension.
ResolveAudioContentType == request.extension

\* Math.round of the seconds getAudioDurationSeconds finds within its time: a
\* duration stands for any fraction of a second above it as well.
Rounded(duration) ==
    IF duration = Unknown THEN {Unknown} ELSE {duration, duration + 1}

\* handleSubmit, up to its call of createJob: validateAudioFile, the duration,
\* and what is sent about the file.  (The page only takes names with a supported
\* extension.)
Submit ==
    /\ stage = "picked"
    /\ \/ /\ \/ file.size >= MaxFileSize(ShouldPreprocess)
             \/ file.duration >= DurationLimit
          /\ stage' = "rejected"
          /\ UNCHANGED request
       \/ /\ file.size < MaxFileSize(ShouldPreprocess)
          /\ file.duration < DurationLimit
          /\ stage' = "new"
          /\ \E d \in Rounded(file.duration) :
               request' = [file EXCEPT !.type = ResolveAudioContentType, !.duration = d]
    /\ UNCHANGED <<page, file, staged, blob, completion, prepared>>

\* create_job.  The check against normalMaxFileSizeBytes can never fail after
\* the first one passed.
CreateJob ==
    /\ stage = "new"
    /\ \/ /\ \/ request.size >= MaxFileSize(ShouldPreprocess)
             \/ request.duration >= DurationLimit
             \/ ~TypeAllowsExtension
          /\ stage' = "refused"
       \/ /\ request.size < MaxFileSize(ShouldPreprocess)
          /\ request.duration < DurationLimit
          /\ TypeAllowsExtension
          /\ stage' = "created"
    /\ UNCHANGED <<client, staged, blob, completion, prepared>>

\* The page's blob is there: a recording of that size.  What plays for as long as
\* the page found is what the probe will find; otherwise nobody knows yet.
Uploaded(size) ==
    /\ stage' = "uploaded"
    /\ \E d \in Durations :
          /\ file.duration # Unknown => d = file.duration
          /\ blob' = [size |-> size, duration |-> d]

\* uploadAudioFile: one request, up to the threshold.
PutFile ==
    /\ stage = "created"
    /\ page
    /\ file.size <= BlockUploadThreshold
    /\ Uploaded(file.size)
    /\ UNCHANGED <<client, staged, completion, prepared>>

\* uploadAudioFileInBlocks: the next block, the last of which may be shorter.
PutBlock ==
    /\ stage = "created"
    /\ page
    /\ file.size > BlockUploadThreshold
    /\ staged < file.size
    /\ staged' = IF staged + BlockSize < file.size THEN staged + BlockSize ELSE file.size
    /\ UNCHANGED <<stage, client, blob, completion, prepared>>

\* Mutant: the loop ends before the last block, unless it is a full one.
CommitBlockListFullOnly ==
    /\ stage = "created"
    /\ page
    /\ file.size > BlockUploadThreshold
    /\ staged + BlockSize > file.size
    /\ Uploaded(staged)
    /\ UNCHANGED <<client, staged, completion, prepared>>

\* commitBlockList: the blob is made of the blocks that were staged.
CommitBlockList ==
    /\ stage = "created"
    /\ page
    /\ file.size > BlockUploadThreshold
    /\ staged >= file.size
    /\ Uploaded(staged)
    /\ UNCHANGED <<client, staged, completion, prepared>>

\* Any of the page's requests to the blob fails: the upload is not resumed.
UploadFails ==
    /\ stage = "created"
    /\ page
    /\ stage' = "abandoned"
    /\ UNCHANGED <<client, staged, blob, completion, prepared>>

\* The transcription is given another blob, which ffmpeg made of the upload.
Converts == request.route = "stable" /\ ShouldPreprocessBlob

\* Another client puts a recording of any size at the upload URL.  The URL lets
\* it create and write, for longer than it takes to complete the upload: it may
\* do so again, whatever was measured, up to the moment of the last read.
Upload ==
    /\ ~page
    /\ \/ stage \in {"created", "uploaded", "checked"}
       \/ stage = "prepared" /\ ~Converts
    /\ stage' = IF stage = "created" THEN "uploaded" ELSE stage
    /\ blob' \in [size : Sizes, duration : Durations]
    /\ stale' = stale \cup {m \in {"size", "duration"} : measured[m] # Unknown}
    /\ UNCHANGED <<client, staged, completion, measured, input, engine>>

\* completeUpload of the page declares the size of its file; another client what
\* it likes, or nothing (Unknown).  The orchestration is started before the
\* check, and runs whatever the answer.
CompleteUpload ==
    /\ stage \in {"uploaded", "tooLarge", "checked", "failed", "prepared", "transcribing"}
    /\ completion.answer = "none"
    /\ \E size \in IF page THEN {file.size} ELSE Sizes \cup {Unknown} :
         completion' = [size |-> size,
                        answer |-> IF size >= MaxFileSize(ShouldPreprocessBlob)
                                     THEN "refused" ELSE "accepted"]
    /\ UNCHANGED <<stage, client, staged, blob, prepared>>

\* _validate_actual_ingest_blob_size
CheckBlob ==
    /\ stage = "uploaded"
    /\ stage' = IF blob.size >= MaxFileSize(ShouldPreprocessBlob)
                  THEN "tooLarge" ELSE "checked"
    /\ measured' = [measured EXCEPT !.size = blob.size]
    /\ UNCHANGED <<client, staged, blob, completion, stale, input, engine>>

\* The engine is chosen, its URL made.
Prepared(by) ==
    /\ stage' = "prepared"
    /\ engine' = by

\* Mutant: the engine is recorded under a name TranscriptionEngine lacks.
PrepareVideoMisnamed ==
    /\ stage = "checked"
    /\ request.route = "contentUnderstanding"
    /\ Prepared("video")
    /\ UNCHANGED <<client, staged, blob, completion, measured, stale, input>>

\* Content Understanding reads the upload itself; nothing measures how long it is.
PrepareVideo ==
    /\ stage = "checked"
    /\ request.route = "contentUnderstanding"
    /\ Prepared("contentUnderstanding")
    /\ UNCHANGED <<client, staged, blob, completion, measured, stale, input>>

\* The duration FfmpegMediaDurationProbe measures of what was downloaded, if it
\* measures any.
Probed == {blob.duration, Unknown}

\* prepare_transcription_input of a recording that Speech can read: the engine by
\* the measured duration and the size that was checked.
PrepareDirect ==
    /\ stage = "checked"
    /\ request.route = "stable"
    /\ ~ShouldPreprocessBlob
    /\ \E d \in Probed :
         \/ /\ d >= BatchMaxDuration
            /\ stage' = "failed"
            /\ UNCHANGED <<measured, engine>>
         \/ /\ d < BatchMaxDuration
            /\ measured' = [measured EXCEPT !.duration = d]
            /\ Prepared(SelectTranscriptionEngine(measured.size, d))
    /\ UNCHANGED <<client, staged, blob, completion, stale, input>>

\* prepare_transcription_input of one that ffmpeg converts: the audio it makes of
\* the download may have any size, and the conversion may fail.
PrepareConverted ==
    /\ stage = "checked"
    /\ request.route = "stable"
    /\ ShouldPreprocessBlob
    /\ \/ /\ stage' = "failed"
          /\ UNCHANGED prepared
       \/ \E d \in Probed, s \in Sizes :
            /\ d < BatchMaxDuration
            /\ s < BatchMaxFileSize
            /\ measured' = [size |-> s, duration |-> d]
            /\ stale' = {}
            /\ input' = [size |-> s, duration |-> blob.duration]
            /\ Prepared(SelectTranscriptionEngine(s, d))
    /\ UNCHANGED <<client, staged, blob, completion>>

\* The transcription service reads what is at the URL it was given: the converted
\* audio, which no client can write to, or the upload as it is now.
ReadInput ==
    /\ stage = "prepared"
    /\ stage' = "transcribing"
    /\ input' = IF Converts THEN input ELSE blob
    /\ UNCHANGED <<client, staged, blob, completion, measured, stale, engine>>

Next == \/ Submit \/ CreateJob
        \/ PutFile \/ PutBlock \/ CommitBlockList \/ UploadFails \/ Upload
        \/ CompleteUpload \/ CheckBlob
        \/ PrepareVideo \/ PrepareDirect \/ PrepareConverted
        \/ ReadInput

Spec == Init /\ [][Next]_vars

-----------------------------------------------------------------------------
(* Properties *)

EngineMaxFileSize ==
    CASE engine = "fast" -> HardMaxFileSize
      [] engine = "batch" -> BatchMaxFileSize
      [] engine = "contentUnderstanding" -> VideoMaxFileSize

EngineMaxDuration == IF engine = "fast" THEN MaxDuration ELSE BatchMaxDuration

\* What a transcription service reads is within that service's limits, whatever
\* the client declared and uploaded, in everything that was measured and that no
\* upload came after.  (Nothing in the code keeps a client from writing to its
\* upload URL between the measurement and the read; and a duration that was not
\* measured counts as below every limit.)
EngineIsWithinItsLimits ==
    stage = "transcribing" =>
        /\ "size" \notin stale => input.size < EngineMaxFileSize
        /\ "duration" \notin stale /\ measured.duration # Unknown =>
              input.duration < EngineMaxDuration

\* What the page offers, create_job admits: the limits of the two agree, and the
\* type the page sends goes with the extension.  Two descriptions are excepted: a
\* duration that was rounded up, and a file whose own type is that of a source to
\* be converted while its extension is not (the page then applies the limit for
\* such sources, but sends the type of the extension).
OfferedIsAdmitted ==
    page /\ stage = "refused" =>
        \/ request.duration > file.duration
        \/ file.type = "mp4" /\ file.extension = "mp3"

\* A recording that was let in, and that is what the client declared, is not
\* turned away for its size once it has been uploaded.
Kept ==
    /\ stage = "tooLarge" => blob.size # request.size
    /\ completion.answer = "refused" => completion.size # request.size

\* Creating the job, completing the upload and checking the blob apply the same
\* limit, provided that the file name was not cut.
AdmittedIsKept == ~request.cut => Kept

\* A file that the page uploaded, in one request or in blocks, is there as a
\* whole, and it is not turned away for its size by any of the two checks that
\* follow, provided that its name was not cut.
PageIsServed ==
    page /\ blob # NoRecording =>
        /\ blob.size = file.size
        /\ ~request.cut => stage # "tooLarge" /\ completion.answer # "refused"

-----------------------------------------------------------------------------
(* What the documents say and the code does not do: refuted *)

\* docs/02-architecture.md: a source that is to be converted (m4a, mp4) is
\* accepted below 4 GB.  The blob name may lose the extension.
AdmittedIsKeptUnderAnyName == Kept
=============================================================================
