------------------------ MODULE InputAdmissionProofs ------------------------
(***************************************************************************)
(* Proofs about InputAdmission for all limits, sizes and durations.        *)
(***************************************************************************)
EXTENDS InputAdmission, TLAPS

\* What the chosen engine is going to read.
ToRead == IF Converts THEN input ELSE blob

\* Nothing is measured before the blob is checked; then its size is below the
\* limit of its blob name.
CheckedInv ==
    /\ stage \notin {"tooLarge", "checked", "failed", "prepared", "transcribing"} =>
         measured = NoRecording
    /\ stage = "uploaded" => blob.size # 0
    /\ stage = "checked" =>
         /\ measured.size # 0
         /\ measured.size < MaxFileSize(ShouldPreprocessBlob)
         /\ measured.duration = Unknown
         /\ "size" \notin stale => blob.size = measured.size

\* What was measured is within the limits of the engine that was chosen, and it is
\* what the engine is going to read, unless an upload came after.
PreparedInv ==
    stage = "prepared" =>
        /\ measured.size # 0
        /\ measured.size < EngineMaxFileSize
        /\ measured.duration # Unknown => measured.duration < EngineMaxDuration
        /\ "size" \notin stale => ToRead.size = measured.size
        /\ "duration" \notin stale /\ measured.duration # Unknown =>
              ToRead.duration = measured.duration

AdmissionInv == TypeOK /\ CheckedInv /\ PreparedInv /\ EngineIsWithinItsLimits

LEMMA InitAdmission == Init => AdmissionInv
<1> SUFFICES ASSUME Init PROVE AdmissionInv
  OBVIOUS
<1>1. stage \in {"picked", "new"}
  BY DEF Init
<1>2. Durations \cup {Unknown} \subseteq Nat
  BY BoundsAssumption DEF Unknown
<1>3. file \in Descriptions(Nat) /\ request \in Descriptions(Nat)
  BY <1>2 DEF Init, Descriptions
<1> QED
  BY <1>1, <1>3 DEF Init, AdmissionInv, TypeOK, CheckedInv, PreparedInv,
                    EngineIsWithinItsLimits, Stages, Recordings, NoRecording, Unknown

\* An engine is selected only below its limits, provided that what it is selected
\* for is within those of Batch Transcription.
LEMMA SelectionFits ==
    ASSUME NEW s \in Nat, NEW d \in Nat, s < BatchMaxFileSize, d < BatchMaxDuration,
           engine' = SelectTranscriptionEngine(s, d)
    PROVE  /\ engine' \in {"fast", "batch"}
           /\ s < EngineMaxFileSize'
           /\ d < EngineMaxDuration'
<1>1. CASE d >= MaxDuration \/ s >= HardMaxFileSize
  <2>1. engine' = "batch"
    BY <1>1 DEF SelectTranscriptionEngine
  <2> QED
    BY <2>1 DEF EngineMaxFileSize, EngineMaxDuration
<1>2. CASE ~(d >= MaxDuration \/ s >= HardMaxFileSize)
  <2>1. engine' = "fast"
    BY <1>2 DEF SelectTranscriptionEngine
  <2> QED
    BY <2>1, <1>2, LimitsAssumption DEF EngineMaxFileSize, EngineMaxDuration
<1> QED
  BY <1>1, <1>2

LEMMA NextTypes == TypeOK /\ [Next]_vars => TypeOK'
<1> SUFFICES ASSUME TypeOK, [Next]_vars PROVE TypeOK'
  OBVIOUS
<1>a. /\ blob.size \in Nat /\ blob.duration \in Nat
      /\ measured \in [size : Nat, duration : Nat]
      /\ Sizes \subseteq Nat /\ Durations \subseteq Nat
  BY BoundsAssumption DEF TypeOK, Recordings
<1>b. Probed \subseteq Nat
  BY <1>a DEF Probed, Unknown
<1>c. file.size \in Nat
  BY <1>a DEF TypeOK, Descriptions
<1>1. CASE Submit
  <2>1. /\ stage' \in {"rejected", "new"}
        /\ UNCHANGED <<page, file, staged, blob, completion, prepared>>
    BY <1>1 DEF Submit
  <2>2. CASE UNCHANGED request
    BY <2>1, <2>2 DEF TypeOK, Stages, prepared
  <2>3. CASE \E d \in Rounded(file.duration) :
               request' = [file EXCEPT !.type = ResolveAudioContentType, !.duration = d]
    <3>1. PICK d \in Rounded(file.duration) :
            request' = [file EXCEPT !.type = ResolveAudioContentType, !.duration = d]
      BY <2>3
    <3>2. /\ file \in Descriptions(Nat)
          /\ d \in Nat
          /\ ResolveAudioContentType \in {"mp4", "mp3"}
      BY DEF TypeOK, Descriptions, Rounded, ResolveAudioContentType, Unknown
    <3>3. request' \in Descriptions(Nat)
      BY <3>1, <3>2 DEF Descriptions
    <3> QED
      BY <2>1, <3>3 DEF TypeOK, Stages, prepared
  <2> QED
    BY <1>1, <2>2, <2>3 DEF Submit
<1>2. CASE CreateJob
  BY <1>2 DEF CreateJob, client, prepared, TypeOK, Stages
<1>3. CASE PutFile \/ CommitBlockList
  <2>1. PICK size \in Nat : Uploaded(size)
    BY <1>3, <1>c DEF PutFile, CommitBlockList, TypeOK
  <2>2. stage' = "uploaded" /\ blob' \in Recordings
    BY <2>1, <1>a DEF Uploaded, Recordings
  <2> QED
    BY <1>3, <2>2 DEF PutFile, CommitBlockList, client, prepared, TypeOK, Stages
<1>4. CASE Upload
  <2>1. blob' \in Recordings
    BY <1>4, <1>a DEF Upload, Recordings
  <2>2. stage' \in Stages
    BY <1>4 DEF Upload, TypeOK, Stages
  <2>3. stale' \subseteq {"size", "duration"}
    BY <1>4 DEF Upload, TypeOK
  <2> QED
    BY <1>4, <2>1, <2>2, <2>3 DEF Upload, client, TypeOK
<1>5. CASE PutBlock
  <2>1. staged' \in Nat
    BY <1>5, <1>c, BlocksAssumption DEF PutBlock, TypeOK
  <2> QED
    BY <1>5, <2>1 DEF PutBlock, client, prepared, TypeOK
<1>6. CASE UploadFails
  BY <1>6 DEF UploadFails, client, prepared, TypeOK, Stages
<1>7. CASE CompleteUpload
  <2>1. completion' \in [size : Nat, answer : {"none", "accepted", "refused"}]
    <3>1. PICK size \in IF page THEN {file.size} ELSE Sizes \cup {Unknown} :
            completion' = [size |-> size,
                           answer |-> IF size >= MaxFileSize(ShouldPreprocessBlob)
                                        THEN "refused" ELSE "accepted"]
      BY <1>7 DEF CompleteUpload
    <3>2. size \in Nat
      <4>1. 0 \in Nat /\ Sizes \subseteq Nat /\ file.size \in Nat
        BY <1>a, <1>c
      <4>2. CASE page
        BY <4>1, <4>2
      <4>3. CASE ~page
        BY <4>1, <4>3 DEF Unknown
      <4> QED
        BY <4>2, <4>3
    <3> QED
      BY <3>1, <3>2
  <2> QED
    BY <1>7, <2>1 DEF CompleteUpload, client, prepared, TypeOK
<1>8. CASE CheckBlob
  <2>1. stage' \in Stages
    BY <1>8 DEF CheckBlob, Stages
  <2>2. measured' \in Recordings
    BY <1>8, <1>a DEF CheckBlob, Recordings
  <2> QED
    BY <1>8, <2>1, <2>2 DEF CheckBlob, client, TypeOK
<1>9. CASE PrepareVideo
  BY <1>9 DEF PrepareVideo, Prepared, client, TypeOK, Stages
<1>10. CASE PrepareDirect
  <2>1. PICK d \in Probed :
          \/ /\ stage' = "failed"
             /\ UNCHANGED <<measured, engine>>
          \/ /\ measured' = [measured EXCEPT !.duration = d]
             /\ Prepared(SelectTranscriptionEngine(measured.size, d))
    BY <1>10 DEF PrepareDirect
  <2>2. /\ stage' \in Stages
        /\ measured' \in Recordings
        /\ engine' \in {"none", "fast", "batch", "contentUnderstanding"}
    BY <2>1, <1>a, <1>b DEF Prepared, SelectTranscriptionEngine, TypeOK, Stages, Recordings
  <2> QED
    BY <1>10, <2>2 DEF PrepareDirect, client, TypeOK
<1>11. CASE PrepareConverted
  <2>1. CASE stage' = "failed" /\ UNCHANGED prepared
    BY <1>11, <2>1 DEF PrepareConverted, prepared, client, TypeOK, Stages
  <2>2. CASE \E d \in Probed, s \in Sizes :
               /\ measured' = [size |-> s, duration |-> d]
               /\ stale' = {}
               /\ input' = [size |-> s, duration |-> blob.duration]
               /\ Prepared(SelectTranscriptionEngine(s, d))
    <3>1. /\ stage' \in Stages /\ stale' = {}
          /\ measured' \in Recordings /\ input' \in Recordings
          /\ engine' \in {"none", "fast", "batch", "contentUnderstanding"}
      BY <2>2, <1>a, <1>b DEF Prepared, SelectTranscriptionEngine, Stages, Recordings
    <3> QED
      BY <1>11, <3>1 DEF PrepareConverted, client, TypeOK
  <2> QED
    BY <1>11, <2>1, <2>2 DEF PrepareConverted
<1>12. CASE ReadInput
  BY <1>12 DEF ReadInput, client, TypeOK, Stages
<1>13. CASE UNCHANGED vars
  BY <1>13 DEF vars, client, prepared, TypeOK
<1> QED
  BY <1>1, <1>2, <1>3, <1>4, <1>5, <1>6, <1>7, <1>8, <1>9, <1>10, <1>11, <1>12, <1>13
     DEF Next

LEMMA NextAdmission == AdmissionInv /\ [Next]_vars => AdmissionInv'
<1> SUFFICES ASSUME AdmissionInv, [Next]_vars PROVE (CheckedInv /\ PreparedInv /\ EngineIsWithinItsLimits)'
  BY NextTypes DEF AdmissionInv
<1>a. /\ blob.size \in Nat /\ blob.duration \in Nat
      /\ measured \in [size : Nat, duration : Nat]
      /\ Sizes \subseteq Nat \ {0} /\ Durations \subseteq Nat \ {0}
      /\ file.size \in Nat \ {0} /\ staged \in Nat
  BY BoundsAssumption DEF AdmissionInv, TypeOK, Recordings, Descriptions
\* A step up to the upload: nothing is measured yet.
<1>1. CASE Submit \/ CreateJob \/ PutBlock \/ UploadFails
  <2>1. /\ stage \in {"picked", "new", "created"}
        /\ stage' \in {"rejected", "new", "refused", "created", "abandoned"}
        /\ UNCHANGED measured
    BY <1>1 DEF Submit, CreateJob, PutBlock, UploadFails, prepared
  <2> QED
    BY <2>1 DEF AdmissionInv, CheckedInv, PreparedInv, EngineIsWithinItsLimits
<1>2. CASE PutFile \/ CommitBlockList
  <2>1. /\ stage = "created" /\ stage' = "uploaded"
        /\ blob'.size # 0
        /\ UNCHANGED measured
    BY <1>2, <1>a DEF PutFile, CommitBlockList, Uploaded, prepared
  <2> QED
    BY <2>1 DEF AdmissionInv, CheckedInv, PreparedInv, EngineIsWithinItsLimits
<1>3. CASE Upload
  <2>1. /\ blob'.size # 0
        /\ UNCHANGED <<client, measured, input, engine>>
        /\ stage' = IF stage = "created" THEN "uploaded" ELSE stage
        /\ stage \in {"created", "uploaded", "checked"} \/ (stage = "prepared" /\ ~Converts)
    BY <1>3, <1>a DEF Upload
  <2>2. /\ measured.size # 0 => "size" \in stale'
        /\ measured.duration # Unknown => "duration" \in stale'
    BY <1>3 DEF Upload, Unknown
  <2>3. /\ MaxFileSize(ShouldPreprocessBlob)' = MaxFileSize(ShouldPreprocessBlob)
        /\ EngineMaxFileSize' = EngineMaxFileSize
        /\ EngineMaxDuration' = EngineMaxDuration
    BY <2>1 DEF client, MaxFileSize, ShouldPreprocessBlob, EngineMaxFileSize, EngineMaxDuration
  <2> QED
    BY <2>1, <2>2, <2>3 DEF AdmissionInv, CheckedInv, PreparedInv, EngineIsWithinItsLimits
<1>4. CASE CompleteUpload \/ UNCHANGED vars
  <2>1. UNCHANGED <<stage, client, blob, prepared>>
    BY <1>4 DEF CompleteUpload, vars
  <2> QED
    BY <2>1 DEF client, prepared, AdmissionInv, CheckedInv, PreparedInv, ToRead, Converts,
                EngineIsWithinItsLimits, EngineMaxFileSize, EngineMaxDuration, MaxFileSize,
                ShouldPreprocessBlob
<1>5. CASE CheckBlob
  <2>1. /\ stage = "uploaded" /\ UNCHANGED <<client, blob>>
        /\ measured' = [measured EXCEPT !.size = blob.size]
        /\ stage' = IF blob.size >= MaxFileSize(ShouldPreprocessBlob)
                      THEN "tooLarge" ELSE "checked"
    BY <1>5 DEF CheckBlob
  <2>2. measured'.size = blob.size /\ measured'.duration = Unknown /\ blob.size # 0
    BY <2>1, <1>a DEF AdmissionInv, CheckedInv, NoRecording
  <2>3. MaxFileSize(ShouldPreprocessBlob)' = MaxFileSize(ShouldPreprocessBlob)
    BY <2>1 DEF client, MaxFileSize, ShouldPreprocessBlob
  <2>4. MaxFileSize(ShouldPreprocessBlob) \in Nat
    BY LimitsAssumption DEF MaxFileSize
  <2>5. stage' = "checked" => blob.size < MaxFileSize(ShouldPreprocessBlob)
    BY <2>1, <2>4, <1>a
  <2> QED
    BY <2>1, <2>2, <2>3, <2>5 DEF CheckedInv, PreparedInv, EngineIsWithinItsLimits
<1>6. CASE PrepareVideo
  <2>1. /\ stage = "checked" /\ stage' = "prepared"
        /\ request.route = "contentUnderstanding" /\ engine' = "contentUnderstanding"
        /\ UNCHANGED <<client, blob, measured, stale>>
    BY <1>6 DEF PrepareVideo, Prepared
  <2>2. /\ measured.size # 0 /\ measured.size < VideoMaxFileSize
        /\ measured.duration = Unknown
        /\ "size" \notin stale => blob.size = measured.size
    BY <2>1 DEF AdmissionInv, CheckedInv, MaxFileSize
  <2>3. EngineMaxFileSize' = VideoMaxFileSize /\ ToRead' = blob
    BY <2>1 DEF EngineMaxFileSize, ToRead, Converts, client
  <2> QED
    BY <2>1, <2>2, <2>3 DEF CheckedInv, PreparedInv, EngineIsWithinItsLimits
<1>7. CASE PrepareDirect
  <2>1. PICK d \in Probed :
          \/ /\ d >= BatchMaxDuration
             /\ stage' = "failed"
          \/ /\ d < BatchMaxDuration
             /\ measured' = [measured EXCEPT !.duration = d]
             /\ Prepared(SelectTranscriptionEngine(measured.size, d))
    BY <1>7 DEF PrepareDirect
  <2>2. CASE stage' = "failed"
    BY <2>2 DEF CheckedInv, PreparedInv, EngineIsWithinItsLimits
  <2>3. CASE stage' # "failed"
    <3>1. /\ stage = "checked" /\ stage' = "prepared"
          /\ ~Converts /\ ~Converts' /\ UNCHANGED <<blob, stale>>
          /\ measured'.size = measured.size /\ measured'.duration = d
          /\ d < BatchMaxDuration /\ engine' = SelectTranscriptionEngine(measured.size, d)
      BY <1>7, <2>1, <2>3, <1>a
         DEF PrepareDirect, Prepared, Converts, ShouldPreprocessBlob, client
    <3>2. /\ measured.size # 0 /\ measured.size < BatchMaxFileSize
          /\ "size" \notin stale => blob.size = measured.size
      BY <1>7, <3>1 DEF PrepareDirect, AdmissionInv, CheckedInv, MaxFileSize
    <3>3. d \in Nat /\ (d # Unknown => d = blob.duration)
      BY <1>a DEF Probed, Unknown
    <3>4. measured.size < EngineMaxFileSize' /\ d < EngineMaxDuration'
      BY <3>1, <3>2, <3>3, <1>a, SelectionFits
    <3> QED
      BY <3>1, <3>2, <3>3, <3>4 DEF CheckedInv, PreparedInv, EngineIsWithinItsLimits, ToRead
  <2> QED
    BY <2>2, <2>3
<1>8. CASE PrepareConverted
  <2>1. CASE stage' = "failed"
    BY <2>1 DEF CheckedInv, PreparedInv, EngineIsWithinItsLimits
  <2>2. CASE stage' # "failed"
    <3>1. PICK d \in Probed, s \in Sizes :
            /\ d < BatchMaxDuration
            /\ s < BatchMaxFileSize
            /\ measured' = [size |-> s, duration |-> d]
            /\ stale' = {}
            /\ input' = [size |-> s, duration |-> blob.duration]
            /\ Prepared(SelectTranscriptionEngine(s, d))
      BY <1>8, <2>2 DEF PrepareConverted
    <3>2. /\ stage' = "prepared" /\ Converts'
          /\ engine' = SelectTranscriptionEngine(s, d)
      BY <1>8, <3>1 DEF PrepareConverted, Prepared, Converts, ShouldPreprocessBlob, client
    <3>3. d \in Nat /\ s \in Nat /\ s # 0 /\ (d # Unknown => d = blob.duration)
      BY <1>a DEF Probed, Unknown
    <3>4. s < EngineMaxFileSize' /\ d < EngineMaxDuration'
      BY <3>1, <3>2, <3>3, SelectionFits
    <3> QED
      BY <3>1, <3>2, <3>3, <3>4 DEF CheckedInv, PreparedInv, EngineIsWithinItsLimits, ToRead
  <2> QED
    BY <2>1, <2>2
<1>9. CASE ReadInput
  <2>1. /\ stage = "prepared" /\ stage' = "transcribing"
        /\ input' = ToRead
        /\ UNCHANGED <<measured, stale, engine>>
    BY <1>9 DEF ReadInput, ToRead
  <2>2. /\ EngineMaxFileSize' = EngineMaxFileSize
        /\ EngineMaxDuration' = EngineMaxDuration
    BY <2>1 DEF EngineMaxFileSize, EngineMaxDuration
  <2> QED
    BY <2>1, <2>2 DEF AdmissionInv, CheckedInv, PreparedInv, EngineIsWithinItsLimits
<1> QED
  BY <1>1, <1>2, <1>3, <1>4, <1>5, <1>6, <1>7, <1>8, <1>9 DEF Next

\* Every variable keeps its type whatever is declared and uploaded: an engine is
\* one that TranscriptionEngine names, and a duration the page rounds a number.
THEOREM TypeCorrect == Spec => []TypeOK
<1>1. AdmissionInv => TypeOK
  BY DEF AdmissionInv
<1> QED
  BY <1>1, InitAdmission, NextAdmission, PTL DEF Spec

\* No transcription service reads a recording beyond its limits, in what could be
\* measured of it and was not written again after, whatever the client declared
\* and uploaded (_validate_actual_ingest_blob_size, prepare_transcription_input).
THEOREM EngineIsWithinItsLimitsCorrect == Spec => []EngineIsWithinItsLimits
<1>1. Init => AdmissionInv
  BY InitAdmission
<1>2. AdmissionInv /\ [Next]_vars => AdmissionInv'
  BY NextAdmission
<1>3. AdmissionInv => EngineIsWithinItsLimits
  BY DEF AdmissionInv
<1> QED
  BY <1>1, <1>2, <1>3, PTL DEF Spec

-----------------------------------------------------------------------------
(* The limits of the steps agree with each other *)

\* The page has applied create_job's limits to the file, and sends the type that
\* goes with the extension; a created job is below the limit of its file name.
AgreementInv ==
    /\ stage = "picked" => request = file
    /\ page /\ stage = "new" =>
         /\ request.route = file.route /\ request.size = file.size
         /\ request.extension = file.extension /\ request.type = file.extension
         /\ file.size < MaxFileSize(file.extension = "mp4" \/ file.type = "mp4")
         /\ file.duration < DurationLimit
    /\ stage \notin {"picked", "rejected", "new", "refused"} =>
         request.size < MaxFileSize(ShouldPreprocess)
    /\ OfferedIsAdmitted
    /\ AdmittedIsKept

LEMMA InitAgreement == Init => AgreementInv
BY DEF Init, AgreementInv, OfferedIsAdmitted, AdmittedIsKept, Kept

\* A limit is a number.
LEMMA LimitsAreNumbers ==
    /\ MaxFileSize(ShouldPreprocess) \in Nat /\ MaxFileSize(ShouldPreprocessBlob) \in Nat
    /\ MaxFileSize(file.extension = "mp4" \/ file.type = "mp4") \in Nat
    /\ DurationLimit \in Nat
BY LimitsAssumption DEF MaxFileSize, DurationLimit

LEMMA NextAgreement == TypeOK /\ AgreementInv /\ [Next]_vars => AgreementInv'
<1> SUFFICES ASSUME TypeOK, AgreementInv, [Next]_vars PROVE AgreementInv'
  OBVIOUS
<1>a. /\ file.size \in Nat /\ file.duration \in Nat
      /\ request.size \in Nat /\ request.duration \in Nat
      /\ blob.size \in Nat
      /\ Sizes \subseteq Nat
      /\ request.extension \in {"mp4", "mp3"} /\ file.extension \in {"mp4", "mp3"}
  BY BoundsAssumption DEF TypeOK, Descriptions, Recordings
\* Nothing changes what was agreed while client and stage stay as they are, or
\* once the recording goes on.
<1>b. ASSUME UNCHANGED client,
             stage' \notin {"picked", "new", "refused"},
             stage \notin {"picked", "rejected", "new", "refused"},
             AdmittedIsKept'
      PROVE  AgreementInv'
  BY <1>b DEF client, AgreementInv, OfferedIsAdmitted, MaxFileSize, ShouldPreprocess
<1>c. stage \notin {"picked", "rejected", "new", "refused"} /\ ~request.cut =>
        request.size < MaxFileSize(ShouldPreprocessBlob)
  BY DEF AgreementInv, MaxFileSize, ShouldPreprocess, ShouldPreprocessBlob
<1>1. CASE Submit
  <2>1. CASE stage' = "rejected"
    BY <1>1, <2>1 DEF Submit, AgreementInv, OfferedIsAdmitted, AdmittedIsKept, Kept
  <2>2. CASE stage' # "rejected"
    <3>1. /\ stage = "picked" /\ stage' = "new" /\ request = file
          /\ file.size < MaxFileSize(ShouldPreprocess) /\ file.duration < DurationLimit
          /\ UNCHANGED <<page, file, blob, completion>>
      BY <1>1, <2>2 DEF Submit, AgreementInv
    <3>2. PICK d \in Rounded(file.duration) :
            request' = [file EXCEPT !.type = ResolveAudioContentType, !.duration = d]
      BY <1>1, <2>2 DEF Submit
    <3>3. /\ request'.route = file.route /\ request'.size = file.size
          /\ request'.extension = file.extension /\ request'.type = file.extension
          /\ request'.cut = file.cut
      BY <3>1, <3>2 DEF TypeOK, Descriptions, ResolveAudioContentType
    <3>4. AdmittedIsKept'
      BY <3>1, <3>2 DEF AgreementInv, AdmittedIsKept, Kept, TypeOK, Descriptions
    <3> QED
      BY <3>1, <3>3, <3>4 DEF AgreementInv, OfferedIsAdmitted, MaxFileSize,
                              ShouldPreprocess, DurationLimit
  <2> QED
    BY <2>1, <2>2
<1>2. CASE CreateJob
  <2>1. AdmittedIsKept'
    BY <1>2 DEF CreateJob, client, AgreementInv, AdmittedIsKept, Kept
  <2>2. CASE stage' = "created"
    BY <1>2, <2>1, <2>2 DEF CreateJob, client, AgreementInv, OfferedIsAdmitted,
                            MaxFileSize, ShouldPreprocess
  <2>3. CASE stage' = "refused"
    <3>1. ASSUME page PROVE OfferedIsAdmitted'
      <4>1. /\ request.route = file.route /\ request.size = file.size
            /\ request.extension = file.extension /\ request.type = file.extension
            /\ file.size < MaxFileSize(file.extension = "mp4" \/ file.type = "mp4")
            /\ file.duration < DurationLimit
        BY <3>1, <1>2 DEF CreateJob, AgreementInv
      <4>2. \/ request.size >= MaxFileSize(ShouldPreprocess)
            \/ request.duration >= DurationLimit
        BY <1>2, <2>3, <4>1 DEF CreateJob, TypeAllowsExtension
      <4>3. CASE request.duration >= DurationLimit
        BY <1>2, <4>1, <4>3, <1>a, LimitsAreNumbers
           DEF CreateJob, client, OfferedIsAdmitted
      <4>4. CASE request.size >= MaxFileSize(ShouldPreprocess)
        <5>1. ~(ShouldPreprocess <=> (file.extension = "mp4" \/ file.type = "mp4"))
          BY <4>1, <4>4, <1>a, LimitsAreNumbers DEF MaxFileSize
        <5>2. file.type = "mp4" /\ file.extension = "mp3"
          BY <4>1, <5>1, <1>a DEF ShouldPreprocess
        <5> QED
          BY <1>2, <5>2 DEF CreateJob, client, OfferedIsAdmitted
      <4> QED
        BY <4>2, <4>3, <4>4
    <3>2. OfferedIsAdmitted'
      BY <3>1, <1>2 DEF CreateJob, client, OfferedIsAdmitted
    <3> QED
      BY <2>1, <2>3, <3>2 DEF AgreementInv
  <2> QED
    BY <1>2, <2>2, <2>3 DEF CreateJob
<1>3. CASE PutFile \/ PutBlock \/ CommitBlockList \/ UploadFails \/ Upload
  <2>1. /\ stage \in {"created", "uploaded", "checked", "prepared"}
        /\ stage' \in {"created", "uploaded", "abandoned", "checked", "prepared"}
        /\ UNCHANGED <<client, completion>>
    BY <1>3 DEF PutFile, PutBlock, CommitBlockList, UploadFails, Upload, Uploaded
  <2>2. AdmittedIsKept'
    BY <2>1 DEF client, AgreementInv, AdmittedIsKept, Kept
  <2> QED
    BY <2>1, <2>2, <1>b
<1>4. CASE CompleteUpload
  <2>1. PICK size \in IF page THEN {file.size} ELSE Sizes \cup {Unknown} :
          completion' = [size |-> size,
                         answer |-> IF size >= MaxFileSize(ShouldPreprocessBlob)
                                      THEN "refused" ELSE "accepted"]
    BY <1>4 DEF CompleteUpload
  <2>2. ASSUME ~request.cut, completion'.answer = "refused"
        PROVE  completion'.size # request.size
    <3>1. completion'.size = size /\ size >= MaxFileSize(ShouldPreprocessBlob)
      BY <2>1, <2>2
    <3>2. request.size < MaxFileSize(ShouldPreprocessBlob)
      BY <1>4, <2>2, <1>c DEF CompleteUpload
    <3> QED
      BY <3>1, <3>2, <1>a, LimitsAreNumbers DEF Unknown
  <2>3. AdmittedIsKept'
    BY <1>4, <2>2 DEF CompleteUpload, client, AgreementInv, AdmittedIsKept, Kept
  <2> QED
    BY <1>4, <2>3, <1>b DEF CompleteUpload
<1>5. CASE CheckBlob
  <2>1. ASSUME ~request.cut, stage' = "tooLarge" PROVE blob.size # request.size
    <3>1. blob.size >= MaxFileSize(ShouldPreprocessBlob)
      BY <1>5, <2>1 DEF CheckBlob
    <3>2. request.size < MaxFileSize(ShouldPreprocessBlob)
      BY <1>5, <2>1, <1>c DEF CheckBlob
    <3> QED
      BY <3>1, <3>2, <1>a, LimitsAreNumbers
  <2>2. AdmittedIsKept'
    BY <1>5, <2>1 DEF CheckBlob, client, AgreementInv, AdmittedIsKept, Kept
  <2> QED
    BY <1>5, <2>2, <1>b DEF CheckBlob
<1>6. CASE PrepareVideo \/ PrepareDirect \/ PrepareConverted \/ ReadInput
  <2>1. /\ stage \in {"checked", "prepared"}
        /\ stage' \in {"failed", "prepared", "transcribing"}
        /\ UNCHANGED <<client, blob, completion>>
    BY <1>6 DEF PrepareVideo, PrepareDirect, PrepareConverted, ReadInput, Prepared
  <2>2. AdmittedIsKept'
    BY <2>1 DEF client, AgreementInv, AdmittedIsKept, Kept
  <2> QED
    BY <2>1, <2>2, <1>b
<1>7. CASE UNCHANGED vars
  BY <1>7 DEF vars, client, AgreementInv, OfferedIsAdmitted, AdmittedIsKept, Kept,
              MaxFileSize, ShouldPreprocess, DurationLimit
<1> QED
  BY <1>1, <1>2, <1>3, <1>4, <1>5, <1>6, <1>7 DEF Next

LEMMA Agreement == Spec => []AgreementInv
<1>1. Init => AdmissionInv /\ AgreementInv
  BY InitAdmission, InitAgreement
<1>2. AdmissionInv /\ AgreementInv /\ [Next]_vars => AdmissionInv' /\ AgreementInv'
  BY NextAdmission, NextAgreement DEF AdmissionInv
<1> QED
  BY <1>1, <1>2, PTL DEF Spec

\* What the page offers (handleSubmit), create_job admits, for every value of the
\* limits, up to the rounding of the duration and files of two types.
THEOREM OfferedIsAdmittedCorrect == Spec => []OfferedIsAdmitted
<1>1. AgreementInv => OfferedIsAdmitted
  BY DEF AgreementInv
<1> QED
  BY <1>1, Agreement, PTL

\* A recording that is what its client declared is never turned away for its size
\* after it was admitted (_validate_uploaded_size,
\* _validate_actual_ingest_blob_size), unless its name was cut.
THEOREM AdmittedIsKeptCorrect == Spec => []AdmittedIsKept
<1>1. AgreementInv => AdmittedIsKept
  BY DEF AgreementInv
<1> QED
  BY <1>1, Agreement, PTL

-----------------------------------------------------------------------------
(* What the page uploads arrives as a whole *)

BeforeUpload == {"picked", "rejected", "new", "refused", "created", "abandoned"}

\* The page declares the size of its file each time, and stages no byte twice.
ServedInv == page =>
    /\ stage \notin {"picked", "rejected"} => request.size = file.size
    /\ staged <= file.size
    /\ stage \in BeforeUpload => blob = NoRecording /\ completion.answer = "none"
    /\ stage \notin BeforeUpload => blob.size = file.size
    /\ completion.answer # "none" => completion.size = file.size

LEMMA InitServed == Init => ServedInv
<1>1. Init => file.size \in Nat
  BY BoundsAssumption DEF Init, Descriptions
<1> QED
  BY <1>1 DEF Init, ServedInv, BeforeUpload

LEMMA NextServed == TypeOK /\ AgreementInv /\ ServedInv /\ [Next]_vars => ServedInv'
<1> SUFFICES ASSUME TypeOK, AgreementInv, ServedInv, [Next]_vars, page' PROVE ServedInv'
  BY DEF ServedInv
<1>b. page' = page
  BY DEF Next, Submit, CreateJob, PutFile, PutBlock, CommitBlockList, UploadFails, Upload,
         CompleteUpload, CheckBlob, PrepareVideo, PrepareDirect, PrepareConverted, ReadInput,
         client, vars
<1>c. page
  BY <1>b
<1>a. page /\ file.size \in Nat /\ staged \in Nat
  BY <1>c, BoundsAssumption DEF TypeOK, Descriptions
<1>1. CASE Submit
  <2>1. CASE stage' = "rejected"
    BY <1>1, <2>1, <1>a DEF Submit, ServedInv, BeforeUpload
  <2>2. CASE stage' # "rejected"
    <3>1. /\ stage = "picked" /\ stage' = "new"
          /\ UNCHANGED <<file, staged, blob, completion>>
      BY <1>1, <2>2 DEF Submit
    <3>2. request'.size = file.size
      BY <1>1, <2>2 DEF Submit, TypeOK, Descriptions
    <3> QED
      BY <3>1, <3>2, <1>a DEF ServedInv, BeforeUpload
  <2> QED
    BY <2>1, <2>2
<1>2. CASE CreateJob
  BY <1>2, <1>a DEF CreateJob, client, ServedInv, BeforeUpload
<1>3. CASE PutFile \/ CommitBlockList
  <2>1. PICK size \in Nat : Uploaded(size) /\ size = file.size
    <3>1. CASE PutFile
      BY <3>1, <1>a DEF PutFile
    <3>2. CASE CommitBlockList
      <4>1. staged = file.size
        BY <3>2, <1>a DEF CommitBlockList, ServedInv
      <4> QED
        BY <3>2, <4>1, <1>a DEF CommitBlockList
    <3> QED
      BY <1>3, <3>1, <3>2
  <2>2. stage' = "uploaded" /\ blob'.size = file.size
    BY <2>1 DEF Uploaded
  <2> QED
    BY <1>3, <2>2, <1>a DEF PutFile, CommitBlockList, client, ServedInv, BeforeUpload
<1>4. CASE PutBlock
  <2>1. staged' <= file.size
    BY <1>4, <1>a, BlocksAssumption DEF PutBlock
  <2> QED
    BY <1>4, <2>1, <1>a DEF PutBlock, client, ServedInv, BeforeUpload
<1>5. CASE UploadFails
  BY <1>5, <1>a DEF UploadFails, client, ServedInv, BeforeUpload
<1>6. CASE Upload
  BY <1>6, <1>a DEF Upload
<1>7. CASE CompleteUpload
  BY <1>7, <1>a DEF CompleteUpload, client, ServedInv, BeforeUpload
<1>8. CASE CheckBlob \/ PrepareVideo \/ PrepareDirect \/ PrepareConverted \/ ReadInput
  <2>1. /\ stage \in {"uploaded", "checked", "prepared"}
        /\ stage' \in {"tooLarge", "checked", "failed", "prepared", "transcribing"}
        /\ UNCHANGED <<client, staged, blob, completion>>
    BY <1>8 DEF CheckBlob, PrepareVideo, PrepareDirect, PrepareConverted, ReadInput, Prepared
  <2> QED
    BY <2>1, <1>a DEF client, ServedInv, BeforeUpload
<1>9. CASE UNCHANGED vars
  BY <1>9, <1>a DEF vars, client, ServedInv, BeforeUpload
<1> QED
  BY <1>1, <1>2, <1>3, <1>4, <1>5, <1>6, <1>7, <1>8, <1>9 DEF Next

\* A file that the page uploads is there as a whole, whatever the threshold and
\* the size of a block (uploadAudioFile, uploadAudioFileInBlocks), and, unless its
\* name was cut, no check of its size turns it away any more.
THEOREM PageIsServedCorrect == Spec => []PageIsServed
<1>1. Init => AdmissionInv /\ AgreementInv /\ ServedInv
  BY InitAdmission, InitAgreement, InitServed
<1>2. AdmissionInv /\ AgreementInv /\ ServedInv /\ [Next]_vars
        => (AdmissionInv /\ AgreementInv /\ ServedInv)'
  BY NextAdmission, NextAgreement, NextServed DEF AdmissionInv
<1>3. AgreementInv /\ ServedInv => PageIsServed
  BY DEF AgreementInv, AdmittedIsKept, Kept, ServedInv, BeforeUpload, PageIsServed
<1> QED
  BY <1>1, <1>2, <1>3, PTL DEF Spec
=============================================================================
