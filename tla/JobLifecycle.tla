---------------------------- MODULE JobLifecycle ----------------------------
(***************************************************************************)
(* The life of one minutes job, from the client's upload-complete request  *)
(* to the terminal status the client waits for.                            *)
(*                                                                         *)
(*  - The job record is one Cosmos DB document.  Every writer reads it,    *)
(*    changes some fields of the copy it read and upserts the whole copy,  *)
(*    without an etag; a get and a save are separate steps here.           *)
(*  - The orchestration (Durable Functions) runs its activities one after  *)
(*    the other.  An activity may raise at any of its calls, and the       *)
(*    worker that runs it may die, after which the framework delivers the  *)
(*    activity again from its beginning.                                   *)
(*  - Each member of Callers is one upload-complete request; they are      *)
(*    numbered in the order in which they arrive.  A request starts        *)
(*    the orchestration BEFORE it reads, checks and saves the record, so   *)
(*    it runs concurrently with the activities.                            *)
(*                                                                         *)
(* transcriptReady and minutesReady are always written together with the   *)
(* URIs of the transcript and of the minutes: "normalized" \in record.uris *)
(* stands for transcriptReady, "minutesJson" \in record.uris for           *)
(* minutesReady.  Times, messages and percentages are left out.            *)
(***************************************************************************)
EXTENDS Naturals

CONSTANTS
    MaxRequests,                  \* bound of the model: upload-complete requests
    ContentUnderstandingMaxPolls, \* CONTENT_UNDERSTANDING_MAX_POLLS (240)
    BatchTranscriptionMaxPolls,   \* BATCH_TRANSCRIPTION_MAX_POLLS (1440)
    MaxRedeliveries               \* bound of the model: worker deaths

ASSUME RequestsAssumption == MaxRequests \in Nat
ASSUME ContentPollsAssumption == ContentUnderstandingMaxPolls \in Nat \ {0}
ASSUME BatchPollsAssumption == BatchTranscriptionMaxPolls \in Nat \ {0}
ASSUME RedeliveriesAssumption == MaxRedeliveries \in Nat

Callers == 1..MaxRequests

VARIABLES
    media,          \* what was uploaded: its route and how it is transcribed
    record,         \* the job document in Cosmos DB
    blobs,          \* blobs[a]: the run whose recording a derives from, 0: none
    orchestration,  \* runtime status of the Durable instance named jobId
    runs,           \* how often that instance was started
    activity,       \* the activity the orchestrator is waiting for
    step,           \* the next call inside that activity
    copy,           \* the record the activity read
    result,         \* "status" in the dict the activity returns
    polls,          \* attempt of the poll loop
    redeliveries,   \* how often a worker died so far
    caller,         \* caller[c]: how far the upload-complete request is
    callerCopy      \* callerCopy[c]: the record the request read

orchestratorVars == <<orchestration, runs, activity, step, copy, result,
                      polls, redeliveries>>
callerVars == <<caller, callerCopy>>
vars == <<media, record, blobs, orchestratorVars, callerVars>>

-----------------------------------------------------------------------------
(* Types *)

Status == {"CREATED", "UPLOADED", "VALIDATING", "PREPROCESSING",
           "TRANSCRIBING", "TRANSCRIPT_READY", "GENERATING_FINAL_MINUTES",
           "DONE", "FAILED"}
Terminal == {"DONE", "FAILED"}

Artifacts == {"raw", "visualContext", "normalized", "minutesJson",
              "minutesMarkdown"}

\* instance: orchestrationInstanceId is set (it is always the jobId).
\* uris: the outputs of the record that hold a blob URI.
Record == [status : Status, instance : BOOLEAN, uris : SUBSET Artifacts]

\* engine: what prepare_transcription_input selects for this file.
Media == [route : {"stable"}, engine : {"fast", "batch"}]
         \cup {[route |-> "contentUnderstanding", engine |-> "contentUnderstanding"]}

Activities == {"LoadJob", "ValidateInput", "CreateReadSas",
               "AnalyzeContentUnderstanding", "PollContentUnderstanding",
               "NormalizeContentUnderstanding",
               "StartBatchTranscription", "PollBatchTranscription",
               "FetchBatchTranscriptionResult", "NormalizeBatchTranscript",
               "TranscribeAudio", "NormalizeTranscript",
               "GenerateFinalMinutes", "RenderMarkdown", "CompleteJob",
               "FailJob"}

\* get, save: the record.  prepare: the audio conversion.  resave: the second
\* save of create_read_sas.  call: an external service or the artifact store.
\* visual: the second blob of a Content Understanding result.
Steps == {"get", "save", "prepare", "resave", "call", "visual", "return"}

\* saved: it wrote UPLOADED.  ended: it wrote nothing, because it found an
\* instance id, the body was refused (400), a call raised (500) or the host died.
CallerStates == {"idle", "start", "confirm", "save", "saved", "ended"}

Blank == [status |-> "CREATED", instance |-> FALSE, uris |-> {}]

TypeOK ==
    /\ media \in Media
    /\ record \in Record
    /\ blobs \in [Artifacts -> Nat]
    /\ orchestration \in {"none", "running", "completed", "failed"}
    /\ runs \in Nat
    /\ activity \in Activities \cup {"none"}
    /\ step \in Steps
    /\ copy \in Record
    /\ result \in {"ok", "running", "failed"}
    /\ polls \in Nat
    /\ redeliveries \in 0..MaxRedeliveries
    /\ caller \in [Callers -> CallerStates]
    /\ callerCopy \in [Callers -> Record]

Written == {a \in Artifacts : blobs[a] # 0}

-----------------------------------------------------------------------------
(* create_job has stored the record; nothing was started yet. *)
Init ==
    /\ media \in Media
    /\ record = Blank
    /\ blobs = [a \in Artifacts |-> 0]
    /\ orchestration = "none"
    /\ runs = 0
    /\ activity = "none"
    /\ step = "return"
    /\ copy = Blank
    /\ result = "ok"
    /\ polls = 0
    /\ redeliveries = 0
    /\ caller = [c \in Callers |-> "idle"]
    /\ callerCopy = [c \in Callers |-> Blank]

-----------------------------------------------------------------------------
(* The calls activities are made of *)

\* The call an activity begins with.
FirstStep(a) ==
    IF a \in {"PollContentUnderstanding", "PollBatchTranscription",
              "FetchBatchTranscriptionResult", "NormalizeContentUnderstanding",
              "NormalizeBatchTranscript", "NormalizeTranscript",
              "RenderMarkdown"}
      THEN "call" ELSE "get"

\* repository.get: the activity holds a copy from here on.
Get(next) ==
    /\ step = "get"
    /\ copy' = record
    /\ step' = next
    /\ UNCHANGED <<record, blobs, result>>

\* repository.save(record.model_copy(update=...)): the copy that was read,
\* with the new fields, replaces the document.
Save(at, document, next) ==
    /\ step = at
    /\ record' = document
    /\ step' = next
    /\ UNCHANGED <<blobs, copy, result>>

WithStatus(s) == [copy EXCEPT !.status = s]
WithOutputs(s, uris) == [copy EXCEPT !.status = s, !.uris = @ \cup uris]

\* store.write_json / write_text: blob a is overwritten with what was
\* computed from the recording as run r transcribed it.
Publish(at, a, r, next) ==
    /\ step = at
    /\ blobs' = [blobs EXCEPT ![a] = r]
    /\ step' = next
    /\ UNCHANGED <<record, copy, result>>

\* An external call whose outcome the activity reports in the dict it returns.
Report(outcome, next) ==
    /\ step = "call"
    /\ result' = outcome
    /\ step' = next
    /\ UNCHANGED <<record, blobs, copy>>

\* prepare_transcription_input: download, probe, convert, upload.
Prepare ==
    /\ step = "prepare"
    /\ step' = "resave"
    /\ UNCHANGED <<record, blobs, copy, result>>

-----------------------------------------------------------------------------
(* The activities *)

LoadJob ==
    /\ activity = "LoadJob"
    /\ Get("return")

ValidateInput ==
    /\ activity = "ValidateInput"
    /\ \/ Get("save")
       \/ Save("save", WithStatus("VALIDATING"), "return")

\* PREPROCESSING is saved only when the source is to be converted
\* (should_preprocess_audio, left open here); the second save (of
\* transcriptionEngine) writes the copy read before the conversion again.
CreateReadSas ==
    /\ activity = "CreateReadSas"
    /\ \/ /\ media.route = "contentUnderstanding"
          /\ Get("return")
       \/ /\ media.route = "stable"
          /\ \E next \in {"save", "prepare"} : Get(next)
       \/ Save("save", WithStatus("PREPROCESSING"), "prepare")
       \/ Prepare
       \/ Save("resave", copy, "return")

AnalyzeContentUnderstanding ==
    /\ activity = "AnalyzeContentUnderstanding"
    /\ \/ Get("save")
       \/ Save("save", WithStatus("TRANSCRIBING"), "call")
       \/ \E outcome \in {"ok", "failed"} : Report(outcome, "return")

\* A succeeded analysis writes the raw response, then the visual context; a
\* running one writes the progress of the poll.
PollContentUnderstanding ==
    /\ activity = "PollContentUnderstanding"
    /\ \/ Report("failed", "return")
       \/ Report("running", "get")
       \/ Get("save")
       \/ Save("save", WithStatus("TRANSCRIBING"), "return")
       \/ Publish("call", "raw", runs, "visual")
       \/ Publish("visual", "visualContext", runs, "return")

NormalizeContentUnderstanding ==
    /\ activity = "NormalizeContentUnderstanding"
    /\ \/ Publish("call", "normalized", blobs["raw"], "get")
       \/ Get("save")
       \/ Save("save", WithOutputs("TRANSCRIPT_READY",
                                   {"raw", "normalized", "visualContext"}),
               "return")

StartBatchTranscription ==
    /\ activity = "StartBatchTranscription"
    /\ \/ Get("save")
       \/ Save("save", WithStatus("TRANSCRIBING"), "call")
       \/ \E outcome \in {"ok", "failed"} : Report(outcome, "return")

PollBatchTranscription ==
    /\ activity = "PollBatchTranscription"
    /\ \/ \E outcome \in {"ok", "failed"} : Report(outcome, "return")
       \/ Report("running", "get")
       \/ Get("save")
       \/ Save("save", WithStatus("TRANSCRIBING"), "return")

FetchBatchTranscriptionResult ==
    /\ activity = "FetchBatchTranscriptionResult"
    /\ \/ Report("failed", "return")
       \/ Publish("call", "raw", runs, "return")

NormalizeBatchTranscript ==
    /\ activity = "NormalizeBatchTranscript"
    /\ \/ Publish("call", "normalized", blobs["raw"], "get")
       \/ Get("save")
       \/ Save("save", WithOutputs("TRANSCRIPT_READY", {"raw", "normalized"}),
               "return")

TranscribeAudio ==
    /\ activity = "TranscribeAudio"
    /\ \/ Get("save")
       \/ Save("save", WithStatus("TRANSCRIBING"), "call")
       \/ Publish("call", "raw", runs, "return")

\* Mutant: the record refers to the transcript before it is written.
NormalizeTranscriptSavesFirst ==
    /\ activity = "NormalizeTranscript"
    /\ \/ step = "call" /\ copy' = record /\ step' = "save"
          /\ UNCHANGED <<record, blobs, result>>
       \/ Save("save", WithOutputs("TRANSCRIPT_READY", {"raw", "normalized"}),
               "visual")
       \/ Publish("visual", "normalized", blobs["raw"], "return")

NormalizeTranscript ==
    /\ activity = "NormalizeTranscript"
    /\ \/ Publish("call", "normalized", blobs["raw"], "get")
       \/ Get("save")
       \/ Save("save", WithOutputs("TRANSCRIPT_READY", {"raw", "normalized"}),
               "return")

\* Mutant: minutes that are already stored are kept.
GenerateFinalMinutesOnce ==
    /\ activity = "GenerateFinalMinutes"
    /\ \/ Get("save")
       \/ Save("save", WithStatus("GENERATING_FINAL_MINUTES"), "call")
       \/ Publish("call", "minutesJson",
                  IF blobs["minutesJson"] # 0 THEN blobs["minutesJson"]
                                              ELSE blobs["normalized"], "return")

GenerateFinalMinutes ==
    /\ activity = "GenerateFinalMinutes"
    /\ \/ Get("save")
       \/ Save("save", WithStatus("GENERATING_FINAL_MINUTES"), "call")
       \/ Publish("call", "minutesJson", blobs["normalized"], "return")

RenderMarkdown ==
    /\ activity = "RenderMarkdown"
    /\ Publish("call", "minutesMarkdown", blobs["minutesJson"], "return")

\* Mutant: the outputs are replaced, not updated.
CompleteJobReplacesOutputs ==
    /\ activity = "CompleteJob"
    /\ \/ Get("save")
       \/ Save("save", [copy EXCEPT !.status = "DONE",
                                    !.uris = {"minutesJson", "minutesMarkdown"}],
               "return")

CompleteJob ==
    /\ activity = "CompleteJob"
    /\ \/ Get("save")
       \/ Save("save", WithOutputs("DONE", {"minutesJson", "minutesMarkdown"}),
               "return")

FailJob ==
    /\ activity = "FailJob"
    /\ \/ Get("save")
       \/ Save("save", WithStatus("FAILED"), "return")

RunActivity ==
    /\ \/ LoadJob \/ ValidateInput \/ CreateReadSas
       \/ AnalyzeContentUnderstanding \/ PollContentUnderstanding
       \/ NormalizeContentUnderstanding
       \/ StartBatchTranscription \/ PollBatchTranscription
       \/ FetchBatchTranscriptionResult \/ NormalizeBatchTranscript
       \/ TranscribeAudio \/ NormalizeTranscript
       \/ GenerateFinalMinutes \/ RenderMarkdown \/ CompleteJob \/ FailJob
    /\ UNCHANGED <<media, orchestration, runs, activity, polls,
                   redeliveries, callerVars>>

-----------------------------------------------------------------------------
(* The orchestrator: what follows when an activity returns or raises *)

\* The activity that turns the recording into a raw transcript.
Transcriber ==
    IF media.route = "contentUnderstanding" THEN "AnalyzeContentUnderstanding"
    ELSE IF media.engine = "batch" THEN "StartBatchTranscription"
    ELSE "TranscribeAudio"

\* Mutant: the name of an activity that is not registered.
WorkflowMisnamed ==
    { <<"LoadJob", "ValidateInput">>, <<"ValidateInput", "CreateReadUrl">> }

\* Mutant: the job completes before the Markdown is rendered.
WorkflowCompletesEarly ==
    { <<"LoadJob", "ValidateInput">>,
      <<"ValidateInput", "CreateReadSas">>,
      <<"CreateReadSas", Transcriber>>,
      <<"TranscribeAudio", "NormalizeTranscript">>,
      <<"NormalizeTranscript", "GenerateFinalMinutes">>,
      <<"GenerateFinalMinutes", "CompleteJob">> }

\* <<a, b>>: b is called when a returned without a failure.
Workflow ==
    { <<"LoadJob", "ValidateInput">>,
      <<"ValidateInput", "CreateReadSas">>,
      <<"CreateReadSas", Transcriber>>,
      <<"AnalyzeContentUnderstanding", "PollContentUnderstanding">>,
      <<"PollContentUnderstanding", "NormalizeContentUnderstanding">>,
      <<"NormalizeContentUnderstanding", "GenerateFinalMinutes">>,
      <<"StartBatchTranscription", "PollBatchTranscription">>,
      <<"PollBatchTranscription", "FetchBatchTranscriptionResult">>,
      <<"FetchBatchTranscriptionResult", "NormalizeBatchTranscript">>,
      <<"NormalizeBatchTranscript", "GenerateFinalMinutes">>,
      <<"TranscribeAudio", "NormalizeTranscript">>,
      <<"NormalizeTranscript", "GenerateFinalMinutes">>,
      <<"GenerateFinalMinutes", "RenderMarkdown">>,
      <<"RenderMarkdown", "CompleteJob">> }

Pollers == {"PollContentUnderstanding", "PollBatchTranscription"}

\* The activities that return a failure instead of raising it.
Reporters == Pollers \cup {"AnalyzeContentUnderstanding", "StartBatchTranscription",
                           "FetchBatchTranscriptionResult"}

MaxPolls == IF activity = "PollContentUnderstanding"
              THEN ContentUnderstandingMaxPolls ELSE BatchTranscriptionMaxPolls

\* The worker that ran an activity keeps nothing of it.
Begin(a) ==
    /\ activity' = a
    /\ step' = FirstStep(a)
    /\ copy' = Blank
    /\ result' = "ok"

Call(a) ==
    /\ Begin(a)
    /\ UNCHANGED <<media, record, blobs, orchestration, runs,
                   redeliveries, callerVars>>

End(outcome) ==
    /\ orchestration' = outcome
    /\ activity' = "none"
    /\ step' = "return"
    /\ copy' = Blank
    /\ result' = "ok"
    /\ polls' = 0
    /\ UNCHANGED <<media, record, blobs, runs, redeliveries, callerVars>>

Continue ==
    /\ step = "return"
    /\ result = "ok"
    /\ polls' = 0
    /\ \E edge \in Workflow : edge[1] = activity /\ Call(edge[2])

\* Mutant: the attempt is not counted.
PollAgainForever ==
    /\ activity \in Pollers
    /\ step = "return"
    /\ result = "running"
    /\ polls' = polls
    /\ Call(activity)

\* Still running: poll again after the timer, within the range of the loop.
PollAgain ==
    /\ activity \in Pollers
    /\ step = "return"
    /\ result = "running"
    /\ polls + 1 < MaxPolls
    /\ polls' = polls + 1
    /\ Call(activity)

\* Mutant: the orchestrator returns when the loop ran out.
PollsExhaustedReturns ==
    /\ activity \in Pollers
    /\ step = "return"
    /\ result = "running"
    /\ polls + 1 >= MaxPolls
    /\ End("completed")

\* The loop ran out: TimeoutError.
PollsExhausted ==
    /\ activity \in Pollers
    /\ step = "return"
    /\ result = "running"
    /\ polls + 1 >= MaxPolls
    /\ polls' = 0
    /\ Call("FailJob")

\* _raise_content_understanding_failure, _raise_batch_transcription_failure.
ReportedFailure ==
    /\ activity \in Reporters
    /\ step = "return"
    /\ result = "failed"
    /\ polls' = 0
    /\ Call("FailJob")

\* An activity raises at any of its calls; the call may have taken effect.
ActivityRaises ==
    /\ activity \notin {"FailJob", "none"}
    /\ polls' = 0
    /\ Call("FailJob")

\* The orchestrator returns the result of complete_job or fail_job.
Finish ==
    /\ activity \in {"CompleteJob", "FailJob"}
    /\ step = "return"
    /\ End("completed")

\* Nothing catches what FailJobActivity raises.
FailJobRaises ==
    /\ activity = "FailJob"
    /\ End("failed")

\* Mutant: the whole orchestration runs again.
RedeliverFromTheStart ==
    /\ activity # "none"
    /\ redeliveries < MaxRedeliveries
    /\ redeliveries' = redeliveries + 1
    /\ Begin("LoadJob")
    /\ polls' = 0
    /\ UNCHANGED <<media, record, blobs, orchestration, runs, callerVars>>

\* The worker died before the result was recorded: the activity runs again.
Redeliver ==
    /\ activity # "none"
    /\ redeliveries < MaxRedeliveries
    /\ redeliveries' = redeliveries + 1
    /\ Begin(activity)
    /\ UNCHANGED <<media, record, blobs, orchestration, runs, polls,
                   callerVars>>

Orchestrate == Continue \/ PollAgain \/ PollsExhausted \/ ReportedFailure \/ Finish

-----------------------------------------------------------------------------
(* The upload-complete request *)

\* The requests with a smaller number have arrived.
Arrived(c) == \A d \in Callers : d < c => caller[d] # "idle"

\* Mutant: the record is saved first, as JobService.complete_upload's order of
\* validation would suggest; start_new would follow.
ReadInstanceSavesFirst(c) ==
    /\ caller[c] = "idle"
    /\ Arrived(c)
    /\ caller' = [caller EXCEPT ![c] = "confirm"]
    /\ UNCHANGED <<media, record, blobs, orchestratorVars, callerCopy>>

\* get_orchestration_instance_id: what it raises (the job of another user, a
\* failed read) is outside the error boundary of the handler.
ReadInstance(c) ==
    /\ caller[c] = "idle"
    /\ Arrived(c)
    /\ \/ caller' = [caller EXCEPT ![c] = "ended"]
       \/ /\ record.instance
          /\ caller' = [caller EXCEPT ![c] = "confirm"]
       \/ /\ ~record.instance
          /\ caller' = [caller EXCEPT ![c] = "start"]
    /\ UNCHANGED <<media, record, blobs, orchestratorVars, callerCopy>>

\* client.start_new(instance_id=jobid): a terminal instance of that id is
\* replaced by a new run, a running one makes the call raise.
StartNew(c) ==
    /\ caller[c] = "start"
    /\ orchestration # "running"
    /\ orchestration' = "running"
    /\ runs' = runs + 1
    /\ Begin("LoadJob")
    /\ caller' = [caller EXCEPT ![c] = "confirm"]
    /\ UNCHANGED <<media, record, blobs, polls, redeliveries, callerCopy>>

\* complete_upload_with_instance_id, up to the decision to save; the body is
\* refused when it is malformed or its uploadedSizeBytes is at the limit.
Confirm(c) ==
    /\ caller[c] = "confirm"
    /\ \/ /\ caller' = [caller EXCEPT ![c] = "ended"]
          /\ UNCHANGED callerCopy
       \/ /\ record.instance
          /\ caller' = [caller EXCEPT ![c] = "ended"]
          /\ UNCHANGED callerCopy
       \/ /\ ~record.instance
          /\ caller' = [caller EXCEPT ![c] = "save"]
          /\ callerCopy' = [callerCopy EXCEPT ![c] = record]
    /\ UNCHANGED <<media, record, blobs, orchestratorVars>>

SaveUploaded(c) ==
    /\ caller[c] = "save"
    /\ record' = [callerCopy[c] EXCEPT !.status = "UPLOADED", !.instance = TRUE]
    /\ caller' = [caller EXCEPT ![c] = "saved"]
    /\ callerCopy' = [callerCopy EXCEPT ![c] = Blank]
    /\ UNCHANGED <<media, blobs, orchestratorVars>>

\* A call of the request raises (start_new on a running instance always does),
\* or its host dies.
CallerFails(c) ==
    /\ caller[c] \in {"start", "confirm", "save"}
    /\ caller' = [caller EXCEPT ![c] = "ended"]
    /\ callerCopy' = [callerCopy EXCEPT ![c] = Blank]
    /\ UNCHANGED <<media, record, blobs, orchestratorVars>>

-----------------------------------------------------------------------------
Next ==
    \/ RunActivity
    \/ Orchestrate
    \/ ActivityRaises
    \/ FailJobRaises
    \/ Redeliver
    \/ \E c \in Callers : \/ ReadInstance(c) \/ StartNew(c) \/ Confirm(c)
                          \/ SaveUploaded(c) \/ CallerFails(c)

Spec == Init /\ [][Next]_vars

\* The Durable task hub keeps delivering the work of a started instance; no
\* request is obliged to go on.
FairSpec == Spec /\ WF_vars(RunActivity \/ Orchestrate)

-----------------------------------------------------------------------------
(* The handlers that read *)

\* What get_transcript, get_visual_context and get_minutes answer who asks for
\* artifact a: 404 without its URI, else the blob of that name.  They look at
\* the outputs of the record only, not at its status.
Answer(a) ==
    IF a \notin record.uris THEN "notReady"
    ELSE IF a \in Written THEN "found" ELSE "missing"

-----------------------------------------------------------------------------
(* Properties *)

\* The handlers that read never fail to find the blob the record refers to,
\* whatever was raised, redelivered or overwritten by a stale save.
ReferencesAreBacked == \A a \in Artifacts : Answer(a) # "missing"

\* A DONE job offers both minutes artifacts, and the Markdown was rendered from
\* the stored JSON, which was generated from the stored transcript, which was
\* normalized from the stored transcription: no artifact of an earlier run is
\* left among them.
DoneIsCoherent ==
    record.status = "DONE" =>
        /\ {"minutesJson", "minutesMarkdown"} \subseteq record.uris
        /\ blobs["raw"] # 0
        /\ \A a \in {"normalized", "minutesJson", "minutesMarkdown"} :
              blobs[a] = blobs["raw"]

\* The outputs the transcript view needs.
TranscriptOutputs ==
    {"raw", "normalized"} \cup
        (IF media.route = "contentUnderstanding" THEN {"visualContext"} ELSE {})

\* A DONE job offers its transcript too, unless an upload-complete request
\* saved the record in the meantime: the activities' own stale copies, raised
\* errors and redeliveries never drop it.
OnlyUploadCompleteDropsTranscript ==
    record.status = "DONE" /\ (\A c \in Callers : caller[c] # "saved")
        => TranscriptOutputs \subseteq record.uris

\* When the orchestration has returned, the job is DONE or FAILED, or the
\* UPLOADED of an upload-complete request was written over it; no other status
\* is left behind.
CompletedIsTerminalOrUploaded ==
    orchestration = "completed" =>
        \/ record.status \in Terminal
        \/ /\ record.status = "UPLOADED"
           /\ record.instance
           /\ \E c \in Callers : caller[c] = "saved"

\* A job that says it was uploaded, or that holds an instance id, has an
\* orchestration: a host that dies inside upload-complete never leaves a job
\* that waits for an orchestration nobody started.
MarkedIsStarted ==
    record.instance \/ record.status # "CREATED" => runs > 0

\* A terminal status is changed only by fail_job (complete_job raised after its
\* save took effect), by an upload-complete request that saves a copy read
\* earlier, or in a run started again.
TerminalIsLeftOnlyBy ==
    [][ (record.status \in Terminal /\ record'.status # record.status) =>
          \/ activity = "FailJob"
          \/ \E c \in Callers : caller[c] = "save" /\ caller'[c] = "saved"
          \/ runs > 1 ]_vars

\* Every started orchestration ends: the poll loops are bounded, and whatever
\* the services answer, the orchestrator returns or fails.
StartedEnds == orchestration = "running" ~> orchestration \in {"completed", "failed"}

\* The job, seen as its artifacts and whether it is DONE, keeps the promise of
\* MinutesPublication: in particular no artifact of a DONE job is rewritten, and
\* a job becomes DONE only when its Markdown derives from its transcription.
Publication == INSTANCE MinutesPublication WITH
    made <- blobs, run <- runs, offered <- record.status = "DONE"

PublicationKept == Publication!PSpec

\* The stage of the transcription, seen from the orchestrator: the activity it
\* waits for.
Stage ==
    IF activity \in Pollers THEN "polling"
    ELSE IF activity = "FetchBatchTranscriptionResult" THEN "fetching"
    ELSE IF activity \in {"NormalizeContentUnderstanding", "NormalizeBatchTranscript",
                          "NormalizeTranscript", "GenerateFinalMinutes",
                          "RenderMarkdown", "CompleteJob"} THEN "transcribed"
    ELSE IF activity = "FailJob" \/ (activity = "none" /\ runs > 0) THEN "over"
    ELSE "asking"

\* The orchestration keeps the promise of Transcription, as the requests of its
\* activities do (see TranscriptionRequests): one transcription a run, however often
\* activities raise or are delivered again, and no run is started before the last
\* one is over.
Transcription == INSTANCE Transcription WITH
    Polls <- [r \in {"fast", "batch", "contentUnderstanding"} |->
                IF r = "contentUnderstanding" THEN ContentUnderstandingMaxPolls
                                              ELSE BatchTranscriptionMaxPolls],
    route <- media.engine,
    stage <- Stage,
    polled <- IF activity \in Pollers THEN polls ELSE 0

TranscriptionKept == Transcription!TSpec

-----------------------------------------------------------------------------
(* What the documents say and the code does not do: each is refuted *)

\* docs/04-data-model.md calls DONE and FAILED final.
TerminalIsFinal ==
    [][record.status \in Terminal => record'.status \in Terminal]_vars

\* docs/02-architecture.md: a job that is DONE is not processed again.
DoneIsNotRestarted ==
    [][record.status = "DONE" => runs' = runs]_vars
=============================================================================
