------------------------- MODULE JobLifecycleProofs -------------------------
(***************************************************************************)
(* Theorems about JobLifecycle, for every set of callers, every length of  *)
(* the poll loops and every number of worker deaths: what each status and  *)
(* each reference of the record means, who may change them, and that the   *)
(* orchestration goes on, keeps to one transcription and ends.             *)
(***************************************************************************)
EXTENDS JobLifecycle, Descent

Normalizers == {"NormalizeContentUnderstanding", "NormalizeBatchTranscript",
                "NormalizeTranscript"}
MinutesMakers == {"GenerateFinalMinutes", "RenderMarkdown", "CompleteJob"}

CallerStep(c) ==
    ReadInstance(c) \/ StartNew(c) \/ Confirm(c) \/ SaveUploaded(c) \/ CallerFails(c)

-----------------------------------------------------------------------------
(* Types *)

\* Every activity begins with one of its steps.
LEMMA FirstStepType == \A a : FirstStep(a) \in Steps
  BY DEF FirstStep, Steps

\* What follows an activity is an activity.
LEMMA WorkflowType == \A e \in Workflow : e[1] \in Activities /\ e[2] \in Activities
  BY DEF Workflow, Transcriber, Activities

\* Changing the status or adding outputs gives a record again.
LEMMA RecordUpdates ==
  ASSUME copy \in Record
  PROVE  /\ \A s \in Status : WithStatus(s) \in Record
         /\ \A s \in Status, u \in SUBSET Artifacts : WithOutputs(s, u) \in Record
  BY DEF WithStatus, WithOutputs, Record

\* An activity's step keeps the variables it may change in their types.
LEMMA ActivityType ==
  ASSUME TypeOK, RunActivity
  PROVE  /\ record' \in Record
         /\ blobs' \in [Artifacts -> Nat]
         /\ step' \in Steps
         /\ copy' \in Record
         /\ result' \in {"ok", "running", "failed"}
<1>0. /\ copy \in Record /\ record \in Record /\ runs \in Nat
      /\ blobs \in [Artifacts -> Nat] /\ result \in {"ok", "running", "failed"}
  BY DEF TypeOK
<1>a. \A next \in Steps : Get(next) =>
         record' \in Record /\ blobs' \in [Artifacts -> Nat] /\ step' \in Steps
         /\ copy' \in Record /\ result' \in {"ok", "running", "failed"}
  BY <1>0 DEF Get
<1>b. \A at, doc : \A next \in Steps : Save(at, doc, next) /\ doc \in Record =>
         record' \in Record /\ blobs' \in [Artifacts -> Nat] /\ step' \in Steps
         /\ copy' \in Record /\ result' \in {"ok", "running", "failed"}
  BY <1>0 DEF Save
<1>c. \A at : \A a \in Artifacts, r \in Nat, next \in Steps : Publish(at, a, r, next) =>
         record' \in Record /\ blobs' \in [Artifacts -> Nat] /\ step' \in Steps
         /\ copy' \in Record /\ result' \in {"ok", "running", "failed"}
  BY <1>0 DEF Publish
<1>d. \A outcome \in {"ok", "running", "failed"}, next \in Steps : Report(outcome, next) =>
         record' \in Record /\ blobs' \in [Artifacts -> Nat] /\ step' \in Steps
         /\ copy' \in Record /\ result' \in {"ok", "running", "failed"}
  BY <1>0 DEF Report
<1>e. Prepare =>
         record' \in Record /\ blobs' \in [Artifacts -> Nat] /\ step' \in Steps
         /\ copy' \in Record /\ result' \in {"ok", "running", "failed"}
  BY <1>0 DEF Prepare, Steps
<1>f. /\ {"get", "save", "prepare", "resave", "call", "visual", "return"} = Steps
      /\ Artifacts = {"raw", "visualContext", "normalized", "minutesJson", "minutesMarkdown"}
      /\ \A a \in Artifacts : blobs[a] \in Nat
  BY <1>0 DEF Steps, Artifacts
<1>g. /\ \A s \in Status : WithStatus(s) \in Record
      /\ \A s \in Status, u \in SUBSET Artifacts : WithOutputs(s, u) \in Record
  BY <1>0, RecordUpdates
<1>1. CASE LoadJob \/ ValidateInput \/ CreateReadSas
  BY <1>1, <1>0, <1>a, <1>b, <1>e, <1>f, <1>g DEF LoadJob, ValidateInput, CreateReadSas, Status
<1>2. CASE AnalyzeContentUnderstanding \/ PollContentUnderstanding \/ NormalizeContentUnderstanding
  BY <1>2, <1>0, <1>a, <1>b, <1>c, <1>d, <1>f, <1>g
     DEF AnalyzeContentUnderstanding, PollContentUnderstanding,
         NormalizeContentUnderstanding, Status
<1>3. CASE StartBatchTranscription \/ PollBatchTranscription
           \/ FetchBatchTranscriptionResult \/ NormalizeBatchTranscript
  BY <1>3, <1>0, <1>a, <1>b, <1>c, <1>d, <1>f, <1>g
     DEF StartBatchTranscription, PollBatchTranscription,
         FetchBatchTranscriptionResult, NormalizeBatchTranscript, Status
<1>4. CASE TranscribeAudio \/ NormalizeTranscript
  BY <1>4, <1>0, <1>a, <1>b, <1>c, <1>f, <1>g DEF TranscribeAudio, NormalizeTranscript, Status
<1>5. CASE GenerateFinalMinutes \/ RenderMarkdown \/ CompleteJob \/ FailJob
  BY <1>5, <1>0, <1>a, <1>b, <1>c, <1>f, <1>g
     DEF GenerateFinalMinutes, RenderMarkdown, CompleteJob, FailJob, Status
<1>6. QED BY <1>1, <1>2, <1>3, <1>4, <1>5 DEF RunActivity

\* The steps of the orchestrator and of the worker keep the types.
LEMMA OrchestratorType ==
  ASSUME TypeOK, Orchestrate \/ ActivityRaises \/ FailJobRaises \/ Redeliver
  PROVE  TypeOK'
<1>0. /\ Blank \in Record
      /\ \A a : FirstStep(a) \in Steps
      /\ \A e \in Workflow : e[2] \in Activities
      /\ {"FailJob", "LoadJob"} \subseteq Activities
      /\ "return" \in Steps
  BY FirstStepType, WorkflowType DEF Blank, Record, Status, Artifacts, Activities, Steps
<1>1. \A a \in Activities : Call(a) /\ polls' \in Nat => TypeOK'
  BY <1>0 DEF TypeOK, Call, Begin, callerVars
<1>2. \A o \in {"completed", "failed"} : End(o) => TypeOK'
  BY <1>0 DEF TypeOK, End, callerVars
<1>3. CASE Continue
  BY <1>3, <1>0, <1>1 DEF Continue
<1>4. CASE PollAgain
  <2>1. polls' \in Nat
    BY <1>4 DEF PollAgain, TypeOK
  <2>2. activity \in Activities
    BY <1>4 DEF PollAgain, Pollers, Activities
  <2>3. QED BY <2>1, <2>2, <1>4, <1>1 DEF PollAgain
<1>5. CASE PollsExhausted \/ ReportedFailure \/ ActivityRaises
  BY <1>5, <1>0, <1>1 DEF PollsExhausted, ReportedFailure, ActivityRaises
<1>6. CASE Finish \/ FailJobRaises
  BY <1>6, <1>2 DEF Finish, FailJobRaises
<1>7. CASE Redeliver
  <2>1. redeliveries' \in 0..MaxRedeliveries
    BY <1>7, RedeliveriesAssumption DEF Redeliver, TypeOK
  <2>2. QED BY <2>1, <1>7, <1>0 DEF Redeliver, Begin, TypeOK, callerVars
<1>8. QED BY <1>3, <1>4, <1>5, <1>6, <1>7 DEF Orchestrate

\* The steps of an upload-complete request keep the types.
LEMMA CallerType ==
  ASSUME TypeOK, NEW c \in Callers, CallerStep(c)
  PROVE  TypeOK'
<1>0. Blank \in Record /\ "LoadJob" \in Activities /\ FirstStep("LoadJob") \in Steps
  BY FirstStepType DEF Blank, Record, Status, Artifacts, Activities
<1>1. CASE ReadInstance(c)
  BY <1>1 DEF ReadInstance, TypeOK, CallerStates, orchestratorVars
<1>2. CASE StartNew(c)
  BY <1>2, <1>0 DEF StartNew, Begin, TypeOK, CallerStates
<1>3. CASE Confirm(c)
  BY <1>3 DEF Confirm, TypeOK, CallerStates, orchestratorVars
<1>4. CASE SaveUploaded(c)
  <2>1. [callerCopy[c] EXCEPT !.status = "UPLOADED", !.instance = TRUE] \in Record
    BY DEF TypeOK, Record, Status
  <2>2. QED BY <2>1, <1>4, <1>0 DEF SaveUploaded, TypeOK, CallerStates, orchestratorVars
<1>5. CASE CallerFails(c)
  BY <1>5, <1>0 DEF CallerFails, TypeOK, CallerStates, orchestratorVars
<1>6. QED BY <1>1, <1>2, <1>3, <1>4, <1>5 DEF CallerStep

LEMMA NextType == TypeOK /\ [Next]_vars => TypeOK'
<1> SUFFICES ASSUME TypeOK, [Next]_vars PROVE TypeOK'
  OBVIOUS
<1>1. CASE RunActivity
  BY <1>1, ActivityType DEF RunActivity, TypeOK, callerVars
<1>2. CASE Orchestrate \/ ActivityRaises \/ FailJobRaises \/ Redeliver
  BY <1>2, OrchestratorType
<1>3. CASE \E c \in Callers : CallerStep(c)
  BY <1>3, CallerType
<1>4. CASE UNCHANGED vars
  BY <1>4 DEF TypeOK, vars, orchestratorVars, callerVars
<1>5. QED BY <1>1, <1>2, <1>3, <1>4 DEF Next, CallerStep

\* Every variable keeps its type.
THEOREM TypeCorrect == Spec => []TypeOK
<1>1. Init => TypeOK
  BY RedeliveriesAssumption
     DEF Init, TypeOK, Blank, Record, Status, Artifacts, Steps, CallerStates
<1>2. QED BY <1>1, NextType, PTL DEF Spec

-----------------------------------------------------------------------------
(* Facts about single steps *)

\* Only a running activity takes an activity's step, and it stays that one.
LEMMA ActivityRunning ==
  RunActivity => /\ activity # "none"
                 /\ UNCHANGED <<media, orchestration, runs, activity, caller, callerCopy>>
  BY DEF RunActivity, LoadJob, ValidateInput, CreateReadSas,
       AnalyzeContentUnderstanding, PollContentUnderstanding,
       NormalizeContentUnderstanding, StartBatchTranscription,
       PollBatchTranscription, FetchBatchTranscriptionResult,
       NormalizeBatchTranscript, TranscribeAudio, NormalizeTranscript,
       GenerateFinalMinutes, RenderMarkdown, CompleteJob, FailJob, callerVars

\* The orchestrator acts only while an activity runs, and touches neither the
\* record nor the blobs.
LEMMA OrchestratorFrame ==
  Orchestrate \/ ActivityRaises \/ FailJobRaises \/ Redeliver =>
    /\ activity # "none"
    /\ UNCHANGED <<media, record, blobs, runs, caller, callerCopy>>
    /\ copy' = Blank
    /\ result' = "ok"
  BY DEF Orchestrate, Continue, PollAgain, PollsExhausted, ReportedFailure,
       Finish, ActivityRaises, FailJobRaises, Redeliver, Call, Begin, End,
       callerVars, Reporters, Pollers, Workflow, Transcriber

\* Where the orchestrator goes: to the start of the successor of an activity
\* that returned, to a further poll, to the failure handler, to the end, or
\* back to the start of the same activity.
LEMMA OrchestratorTarget ==
  Orchestrate \/ ActivityRaises \/ FailJobRaises \/ Redeliver =>
    \/ /\ activity \notin {"CompleteJob", "FailJob", "none"}
       /\ step = "return" /\ result = "ok"
       /\ \E e \in Workflow : e[1] = activity /\ activity' = e[2] /\ step' = FirstStep(e[2])
       /\ orchestration' = orchestration
    \/ /\ activity' = activity /\ step' = FirstStep(activity)
       /\ orchestration' = orchestration
    \/ /\ activity # "none"
       /\ activity' = "FailJob" /\ step' = FirstStep("FailJob")
       /\ orchestration' = orchestration
    \/ /\ activity' = "none" /\ step' = "return" /\ orchestration' = "failed"
    \/ /\ activity' = "none" /\ step' = "return" /\ orchestration' = "completed"
       /\ activity \in {"CompleteJob", "FailJob"} /\ step = "return"
  BY DEF Orchestrate, Continue, PollAgain, PollsExhausted, ReportedFailure,
       Finish, ActivityRaises, FailJobRaises, Redeliver, Call, Begin, End,
       Reporters, Pollers, Workflow, Transcriber

\* What the workflow says of an activity and the one called after it.
LEMMA WorkflowEdges ==
  \A e \in Workflow :
    /\ e[1] \notin {"CompleteJob", "FailJob", "none"}
    /\ e[2] \notin {"LoadJob", "FailJob", "none"}
    /\ e[2] \in Activities
    /\ e[2] = "ValidateInput" <=> e[1] = "LoadJob"
    /\ e[2] = "CreateReadSas" <=> e[1] = "ValidateInput"
    /\ e[2] = "AnalyzeContentUnderstanding" => media.route = "contentUnderstanding"
    /\ e[2] \in {"StartBatchTranscription", "TranscribeAudio"} =>
          media.route # "contentUnderstanding"
    /\ e[2] = "PollContentUnderstanding" <=> e[1] = "AnalyzeContentUnderstanding"
    /\ e[2] = "NormalizeContentUnderstanding" <=> e[1] = "PollContentUnderstanding"
    /\ e[2] = "PollBatchTranscription" <=> e[1] = "StartBatchTranscription"
    /\ e[2] = "FetchBatchTranscriptionResult" <=> e[1] = "PollBatchTranscription"
    /\ e[2] = "NormalizeBatchTranscript" <=> e[1] = "FetchBatchTranscriptionResult"
    /\ e[2] = "NormalizeTranscript" <=> e[1] = "TranscribeAudio"
    /\ e[2] = "GenerateFinalMinutes" <=> e[1] \in Normalizers
    /\ e[2] = "RenderMarkdown" <=> e[1] = "GenerateFinalMinutes"
    /\ e[2] = "CompleteJob" <=> e[1] = "RenderMarkdown"
  BY DEF Workflow, Transcriber, Activities, Normalizers

\* What the updates of a copy keep and change.
LEMMA RecordFields ==
  ASSUME NEW r \in Record
  PROVE  /\ \A s : /\ [r EXCEPT !.status = s].status = s
                   /\ [r EXCEPT !.status = s].uris = r.uris
                   /\ [r EXCEPT !.status = s].instance = r.instance
         /\ \A s, u : /\ [r EXCEPT !.status = s, !.uris = @ \cup u].status = s
                      /\ [r EXCEPT !.status = s, !.uris = @ \cup u].uris = r.uris \cup u
                      /\ [r EXCEPT !.status = s, !.uris = @ \cup u].instance = r.instance
         /\ [r EXCEPT !.status = "UPLOADED", !.instance = TRUE].status = "UPLOADED"
         /\ [r EXCEPT !.status = "UPLOADED", !.instance = TRUE].uris = r.uris
         /\ [r EXCEPT !.status = "UPLOADED", !.instance = TRUE].instance = TRUE
  BY DEF Record

\* The same of the copy an activity holds.
LEMMA CopyFields ==
  ASSUME TypeOK
  PROVE  /\ \A s : WithStatus(s).status = s /\ WithStatus(s).uris = copy.uris
         /\ \A s, u : WithOutputs(s, u).status = s
                      /\ WithOutputs(s, u).uris = copy.uris \cup u
  <1>1. copy \in Record
    BY DEF TypeOK
  <1>2. QED BY <1>1, RecordFields DEF WithStatus, WithOutputs

\* What a request's save makes of the record.
LEMMA UploadedFields ==
  ASSUME TypeOK, NEW c \in Callers, SaveUploaded(c)
  PROVE  /\ record'.status = "UPLOADED"
         /\ record'.instance = TRUE
         /\ record'.uris = callerCopy[c].uris
  <1>1. callerCopy[c] \in Record
    BY DEF TypeOK
  <1>2. QED BY <1>1, RecordFields DEF SaveUploaded

-----------------------------------------------------------------------------
(* A job that says it was uploaded has an orchestration *)

\* MarkedIsStarted, also of the copies in flight; an activity runs, and a
\* request goes past start_new, only when the orchestration was started.
StartedInv ==
    /\ MarkedIsStarted
    /\ activity # "none" => runs > 0
    /\ \A c \in Callers : caller[c] \in {"confirm", "save"} => runs > 0

LEMMA StartedStep == TypeOK /\ StartedInv /\ [Next]_vars => StartedInv'
<1> SUFFICES ASSUME TypeOK, StartedInv, [Next]_vars PROVE StartedInv'
  OBVIOUS
<1> USE DEF StartedInv, MarkedIsStarted
<1>1. CASE RunActivity
  BY <1>1, ActivityRunning
<1>2. CASE Orchestrate \/ ActivityRaises \/ FailJobRaises \/ Redeliver
  BY <1>2, OrchestratorFrame
<1>3. ASSUME NEW c \in Callers, CallerStep(c) PROVE StartedInv'
  <2>1. CASE ReadInstance(c)
    BY <2>1 DEF ReadInstance, orchestratorVars, TypeOK
  <2>2. CASE StartNew(c)
    BY <2>2 DEF StartNew, TypeOK
  <2>3. CASE Confirm(c)
    BY <2>3 DEF Confirm, orchestratorVars, TypeOK
  <2>4. CASE SaveUploaded(c)
    BY <2>4 DEF SaveUploaded, orchestratorVars, TypeOK
  <2>5. CASE CallerFails(c)
    BY <2>5 DEF CallerFails, orchestratorVars, TypeOK
  <2>6. QED BY <1>3, <2>1, <2>2, <2>3, <2>4, <2>5 DEF CallerStep
<1>4. CASE UNCHANGED vars
  BY <1>4 DEF vars, orchestratorVars, callerVars
<1>5. QED BY <1>1, <1>2, <1>3, <1>4 DEF Next, CallerStep

\* A record marked UPLOADED (or later), or with an instance id, belongs to a
\* started orchestration.
THEOREM MarkedIsStartedCorrect == Spec => []MarkedIsStarted
<1>1. Init => StartedInv
  BY DEF Init, StartedInv, MarkedIsStarted, Blank
<1>2. StartedInv => MarkedIsStarted
  BY DEF StartedInv
<1>3. QED BY <1>1, <1>2, StartedStep, TypeCorrect, PTL DEF Spec

-----------------------------------------------------------------------------
(* What has been written when an activity runs *)

\* Each activity finds the blobs it reads, and what it leaves behind derives
\* from the recording as it is transcribed now.
ProducedInv ==
    /\ activity \in Pollers /\ step \in {"get", "save"} => result = "running"
    /\ activity \in Normalizers \cup MinutesMakers => blobs["raw"] # 0
    /\ /\ activity \in {"FetchBatchTranscriptionResult", "TranscribeAudio"}
       /\ step = "return"
       /\ result = "ok"
       => blobs["raw"] # 0
    /\ /\ activity = "PollContentUnderstanding"
       /\ step = "visual" \/ (step = "return" /\ result = "ok")
       => blobs["raw"] # 0
    /\ /\ activity = "PollContentUnderstanding"
       /\ step = "return"
       /\ result = "ok"
       => blobs["visualContext"] # 0
    /\ activity = "NormalizeContentUnderstanding" => blobs["visualContext"] # 0
    /\ activity \in Normalizers /\ step # "call" => blobs["normalized"] = blobs["raw"]
    /\ activity \in MinutesMakers => blobs["normalized"] = blobs["raw"]
    /\ activity = "GenerateFinalMinutes" /\ step = "return" =>
         blobs["minutesJson"] = blobs["raw"]
    /\ activity \in {"RenderMarkdown", "CompleteJob"} =>
         blobs["minutesJson"] = blobs["raw"]
    /\ activity = "RenderMarkdown" /\ step = "return" =>
         blobs["minutesMarkdown"] = blobs["raw"]
    /\ activity = "CompleteJob" => blobs["minutesMarkdown"] = blobs["raw"]

LEMMA ProducedActivity ==
  ASSUME TypeOK, StartedInv, ProducedInv, RunActivity
  PROVE  ProducedInv'
<1>0. /\ UNCHANGED <<activity, runs>>
      /\ runs \in Nat /\ runs # 0
      /\ blobs \in [Artifacts -> Nat]
      /\ {"raw", "visualContext", "normalized", "minutesJson", "minutesMarkdown"} = Artifacts
  BY ActivityRunning DEF TypeOK, StartedInv, Artifacts
<1> USE <1>0 DEF ProducedInv, Normalizers, MinutesMakers, Pollers
<1>1. CASE LoadJob \/ ValidateInput \/ CreateReadSas \/ FailJob
  BY <1>1 DEF LoadJob, ValidateInput, CreateReadSas, FailJob
<1>2. CASE AnalyzeContentUnderstanding \/ StartBatchTranscription
  BY <1>2 DEF AnalyzeContentUnderstanding, StartBatchTranscription
<1>3. CASE PollContentUnderstanding
  BY <1>3 DEF PollContentUnderstanding, Get, Save, Publish, Report
<1>4. CASE PollBatchTranscription
  BY <1>4 DEF PollBatchTranscription, Get, Save, Report
<1>5. CASE FetchBatchTranscriptionResult
  BY <1>5 DEF FetchBatchTranscriptionResult, Publish, Report
<1>6. CASE TranscribeAudio
  BY <1>6 DEF TranscribeAudio, Get, Save, Publish
<1>7. CASE NormalizeContentUnderstanding
  BY <1>7 DEF NormalizeContentUnderstanding, Get, Save, Publish
<1>8. CASE NormalizeBatchTranscript
  BY <1>8 DEF NormalizeBatchTranscript, Get, Save, Publish
<1>9. CASE NormalizeTranscript
  BY <1>9 DEF NormalizeTranscript, Get, Save, Publish
<1>10. CASE GenerateFinalMinutes
  BY <1>10 DEF GenerateFinalMinutes, Get, Save, Publish
<1>11. CASE RenderMarkdown
  BY <1>11 DEF RenderMarkdown, Publish
<1>12. CASE CompleteJob
  BY <1>12 DEF CompleteJob, Get, Save
<1>13. QED
  BY <1>1, <1>2, <1>3, <1>4, <1>5, <1>6, <1>7, <1>8, <1>9, <1>10, <1>11, <1>12
     DEF RunActivity

LEMMA ProducedOrchestrator ==
  ASSUME ProducedInv, Orchestrate \/ ActivityRaises \/ FailJobRaises \/ Redeliver
  PROVE  ProducedInv'
<1>0. UNCHANGED blobs /\ result' = "ok"
  BY OrchestratorFrame
<1> USE <1>0 DEF ProducedInv, Normalizers, MinutesMakers, Pollers, FirstStep
<1>1. CASE activity' \in {"none", "FailJob"}
  BY <1>1
<1>2. CASE activity' = activity /\ step' = FirstStep(activity)
  BY <1>2
<1>3. CASE /\ step = "return" /\ result = "ok"
           /\ \E e \in Workflow : e[1] = activity /\ activity' = e[2] /\ step' = FirstStep(e[2])
  <2>1. PICK e \in Workflow : e[1] = activity /\ activity' = e[2] /\ step' = FirstStep(e[2])
    BY <1>3
  <2>2. CASE e[2] \in Normalizers
    BY <1>3, <2>1, <2>2, WorkflowEdges
  <2>3. CASE e[2] \in MinutesMakers
    BY <1>3, <2>1, <2>3, WorkflowEdges
  <2>4. CASE e[2] \notin Normalizers \cup MinutesMakers
    BY <1>3, <2>1, <2>4
  <2>5. QED BY <2>2, <2>3, <2>4
<1>4. QED BY <1>1, <1>2, <1>3, OrchestratorTarget

LEMMA ProducedCaller ==
  ASSUME ProducedInv, NEW c \in Callers, CallerStep(c)
  PROVE  ProducedInv'
<1>1. UNCHANGED blobs
  BY DEF CallerStep, ReadInstance, StartNew, Confirm, SaveUploaded, CallerFails
<1>2. CASE StartNew(c)
  BY <1>1, <1>2 DEF StartNew, Begin, ProducedInv, Normalizers, MinutesMakers, Pollers
<1>3. CASE ReadInstance(c) \/ Confirm(c) \/ SaveUploaded(c) \/ CallerFails(c)
  <2>1. UNCHANGED <<activity, step, result>>
    BY <1>3 DEF ReadInstance, Confirm, SaveUploaded, CallerFails, orchestratorVars
  <2>2. QED BY <1>1, <2>1 DEF ProducedInv
<1>4. QED BY <1>2, <1>3 DEF CallerStep

LEMMA ProducedStep == TypeOK /\ StartedInv /\ ProducedInv /\ [Next]_vars => ProducedInv'
<1>1. ASSUME ProducedInv, UNCHANGED vars PROVE ProducedInv'
  BY <1>1 DEF ProducedInv, vars, orchestratorVars
<1>2. QED
  BY <1>1, ProducedActivity, ProducedOrchestrator, ProducedCaller DEF Next, CallerStep

-----------------------------------------------------------------------------
(* No record, stored or in flight, refers to an artifact that is not there *)

ReferencesInv ==
    /\ record.uris \subseteq Written
    /\ copy.uris \subseteq Written
    /\ \A c \in Callers : callerCopy[c].uris \subseteq Written

LEMMA ReferencesActivity ==
  ASSUME TypeOK, StartedInv, ProducedInv, ReferencesInv, RunActivity
  PROVE  ReferencesInv'
<1>0. /\ UNCHANGED callerCopy
      /\ runs \in Nat /\ runs # 0
      /\ blobs \in [Artifacts -> Nat]
      /\ {"raw", "visualContext", "normalized", "minutesJson", "minutesMarkdown"} = Artifacts
  BY ActivityRunning DEF TypeOK, StartedInv, Artifacts
<1> USE DEF ReferencesInv
<1>a. \A next : Get(next) => ReferencesInv'
  BY <1>0 DEF Get, Written
<1>b. \A at, doc, next : Save(at, doc, next) /\ doc.uris \subseteq Written => ReferencesInv'
  BY <1>0 DEF Save, Written
<1>c. \A at, next : \A a \in Artifacts, r \in Nat \ {0} :
         Publish(at, a, r, next) => ReferencesInv'
  BY <1>0 DEF Publish, Written
<1>d. (\E o, next : Report(o, next)) \/ Prepare => ReferencesInv'
  BY <1>0 DEF Report, Prepare, Written
<1>e. \A s : WithStatus(s).uris \subseteq Written
  BY CopyFields
<1>f. /\ activity \in Normalizers \cup MinutesMakers => blobs["raw"] \in Nat \ {0}
      /\ activity \in MinutesMakers => blobs["normalized"] \in Nat \ {0}
      /\ activity \in {"RenderMarkdown", "CompleteJob"} => blobs["minutesJson"] \in Nat \ {0}
      /\ activity = "CompleteJob" => blobs["minutesMarkdown"] \in Nat \ {0}
      /\ activity \in Normalizers /\ step # "call" => blobs["normalized"] \in Nat \ {0}
      /\ activity = "NormalizeContentUnderstanding" => blobs["visualContext"] \in Nat \ {0}
  BY <1>0 DEF ProducedInv, Normalizers, MinutesMakers
<1>g. \A s : \A u \in SUBSET Written : WithOutputs(s, u).uris \subseteq Written
  BY CopyFields
<1>1. CASE LoadJob \/ ValidateInput \/ CreateReadSas \/ FailJob
  BY <1>1, <1>a, <1>b, <1>d, <1>e DEF LoadJob, ValidateInput, CreateReadSas, FailJob
<1>2. CASE AnalyzeContentUnderstanding \/ StartBatchTranscription \/ PollBatchTranscription
  BY <1>2, <1>a, <1>b, <1>d, <1>e
     DEF AnalyzeContentUnderstanding, StartBatchTranscription, PollBatchTranscription
<1>3. CASE PollContentUnderstanding \/ FetchBatchTranscriptionResult \/ TranscribeAudio
  BY <1>3, <1>0, <1>a, <1>b, <1>c, <1>d, <1>e
     DEF PollContentUnderstanding, FetchBatchTranscriptionResult, TranscribeAudio
<1>4. CASE NormalizeContentUnderstanding \/ NormalizeBatchTranscript \/ NormalizeTranscript
  <2>1. activity \in Normalizers
    BY <1>4 DEF NormalizeContentUnderstanding, NormalizeBatchTranscript,
                NormalizeTranscript, Normalizers
  <2>2. step # "call" =>
          /\ {"raw", "normalized"} \subseteq Written
          /\ activity = "NormalizeContentUnderstanding" =>
               {"raw", "normalized", "visualContext"} \subseteq Written
    BY <1>0, <1>f, <2>1 DEF Written
  <2>3. \A doc, next : Save("save", doc, next) => step # "call"
    BY DEF Save
  <2>4. QED
    BY <1>4, <1>0, <1>a, <1>b, <1>c, <1>f, <1>g, <2>1, <2>2, <2>3
       DEF NormalizeContentUnderstanding, NormalizeBatchTranscript, NormalizeTranscript
<1>5. CASE GenerateFinalMinutes \/ RenderMarkdown
  BY <1>5, <1>0, <1>a, <1>b, <1>c, <1>e, <1>f
     DEF GenerateFinalMinutes, RenderMarkdown, MinutesMakers
<1>6. CASE CompleteJob
  <2>1. activity = "CompleteJob"
    BY <1>6 DEF CompleteJob
  <2>2. {"minutesJson", "minutesMarkdown"} \subseteq Written
    BY <2>1, <1>0, <1>f DEF Written
  <2>3. QED BY <1>6, <2>2, <1>a, <1>b, <1>g DEF CompleteJob
<1>7. QED BY <1>1, <1>2, <1>3, <1>4, <1>5, <1>6 DEF RunActivity

LEMMA ReferencesStep ==
  TypeOK /\ StartedInv /\ ProducedInv /\ ReferencesInv /\ [Next]_vars => ReferencesInv'
<1> SUFFICES ASSUME TypeOK, StartedInv, ProducedInv, ReferencesInv, [Next]_vars
             PROVE  ReferencesInv'
  OBVIOUS
<1>0. Blank.uris = {}
  BY DEF Blank
<1> USE DEF ReferencesInv
<1>1. CASE RunActivity
  BY <1>1, ReferencesActivity
<1>2. CASE Orchestrate \/ ActivityRaises \/ FailJobRaises \/ Redeliver
  BY <1>2, <1>0, OrchestratorFrame DEF Written
<1>3. ASSUME NEW c \in Callers, CallerStep(c) PROVE ReferencesInv'
  <2>0. callerCopy \in [Callers -> Record]
    BY DEF TypeOK
  <2>1. CASE ReadInstance(c) \/ StartNew(c)
    BY <2>1, <1>0 DEF ReadInstance, StartNew, Begin, orchestratorVars, Written
  <2>2. CASE Confirm(c)
    BY <2>2, <2>0 DEF Confirm, orchestratorVars, Written
  <2>3. CASE SaveUploaded(c)
    <3>1. record'.uris \subseteq Written
      BY <2>3, UploadedFields
    <3>2. QED BY <2>3, <3>1, <2>0, <1>0 DEF SaveUploaded, orchestratorVars, Written
  <2>4. CASE CallerFails(c)
    BY <2>4, <2>0, <1>0 DEF CallerFails, orchestratorVars, Written
  <2>5. QED BY <1>3, <2>1, <2>2, <2>3, <2>4 DEF CallerStep
<1>4. CASE UNCHANGED vars
  BY <1>4 DEF vars, orchestratorVars, callerVars, Written
<1>5. QED BY <1>1, <1>2, <1>3, <1>4 DEF Next, CallerStep

LEMMA InitFacts == Init => StartedInv /\ ProducedInv /\ ReferencesInv
<1>1. Init => StartedInv
  BY DEF Init, StartedInv, MarkedIsStarted, Blank
<1>2. Init => ProducedInv
  BY DEF Init, ProducedInv, Normalizers, MinutesMakers, Pollers
<1>3. Init => ReferencesInv
  BY DEF Init, ReferencesInv, Blank
<1>4. QED BY <1>1, <1>2, <1>3

\* Every URI in the job record is the URI of an artifact that was written,
\* whatever raised, was delivered again or saved a stale copy before.
THEOREM ReferencesCorrect == Spec => []ReferencesAreBacked
<1>1. ReferencesInv => ReferencesAreBacked
  BY DEF ReferencesInv, ReferencesAreBacked, Answer
<1>2. QED
  BY <1>1, InitFacts, StartedStep, ProducedStep, ReferencesStep, TypeCorrect, PTL DEF Spec

-----------------------------------------------------------------------------
(* What a step of an activity does to the record and to its copy *)

\* The activities that may find, or leave, a DONE record.
AroundDone == {"none", "LoadJob", "ValidateInput", "CompleteJob", "FailJob"}

\* A step reads the record, writes the copy back with its own changes, or
\* leaves both alone; blobs are written only between validation and complete_job.
LEMMA ActivityEffect ==
  ASSUME TypeOK, RunActivity
  PROVE  \/ /\ step = "get"
            /\ UNCHANGED <<record, blobs>>
            /\ copy' = record
            /\ activity \in Normalizers => step' # "return"
            /\ activity \in {"ValidateInput", "CompleteJob", "FailJob"} => step' # "return"
         \/ /\ step = "save" /\ step' = "return"
            /\ UNCHANGED <<copy, blobs>>
            /\ record'.status = "DONE"
            /\ record'.uris = copy.uris \cup {"minutesJson", "minutesMarkdown"}
            /\ activity = "CompleteJob"
         \/ /\ step = "save" /\ step' = "return"
            /\ UNCHANGED <<copy, blobs>>
            /\ record'.status = "FAILED"
            /\ record'.uris = copy.uris
            /\ activity = "FailJob"
         \/ /\ step = "save" /\ step' = "return"
            /\ UNCHANGED <<copy, blobs>>
            /\ record'.status = "TRANSCRIPT_READY"
            /\ record'.uris = copy.uris \cup {"raw", "normalized"} \cup
                 (IF activity = "NormalizeContentUnderstanding"
                    THEN {"visualContext"} ELSE {})
            /\ activity \in Normalizers
         \/ /\ step = "save"
            /\ UNCHANGED <<copy, blobs>>
            /\ record'.status \notin Terminal
            /\ record'.uris = copy.uris
            /\ activity \notin {"LoadJob", "CompleteJob", "FailJob"} \cup Normalizers
         \/ /\ step = "resave"
            /\ UNCHANGED <<copy, blobs>>
            /\ record' = copy
            /\ activity = "CreateReadSas"
         \/ /\ step \notin {"get", "save", "resave"}
            /\ UNCHANGED <<record, copy>>
            /\ activity \notin AroundDone
            /\ step' \in {"save", "prepare"} => FALSE
            /\ step' = "resave" => step = "prepare"
            /\ activity \in Normalizers => step' # "return"
<1>0. /\ \A s : WithStatus(s).status = s /\ WithStatus(s).uris = copy.uris
      /\ \A s, u : WithOutputs(s, u).status = s
                   /\ WithOutputs(s, u).uris = copy.uris \cup u
  BY CopyFields
<1> USE DEF Normalizers, AroundDone, Terminal, Get, Save, Publish, Report, Prepare
<1>1. CASE LoadJob \/ ValidateInput
  BY <1>0, <1>1 DEF LoadJob, ValidateInput
<1>2. CASE CreateReadSas
  BY <1>0, <1>2 DEF CreateReadSas
<1>3. CASE AnalyzeContentUnderstanding \/ StartBatchTranscription \/ PollBatchTranscription
  BY <1>0, <1>3 DEF AnalyzeContentUnderstanding, StartBatchTranscription, PollBatchTranscription
<1>4. CASE PollContentUnderstanding \/ FetchBatchTranscriptionResult \/ TranscribeAudio
  BY <1>0, <1>4 DEF PollContentUnderstanding, FetchBatchTranscriptionResult, TranscribeAudio
<1>5. CASE NormalizeContentUnderstanding
  BY <1>0, <1>5 DEF NormalizeContentUnderstanding
<1>6. CASE NormalizeBatchTranscript \/ NormalizeTranscript
  BY <1>0, <1>6 DEF NormalizeBatchTranscript, NormalizeTranscript
<1>7. CASE GenerateFinalMinutes \/ RenderMarkdown
  BY <1>0, <1>7 DEF GenerateFinalMinutes, RenderMarkdown
<1>8. CASE CompleteJob \/ FailJob
  BY <1>0, <1>8 DEF CompleteJob, FailJob
<1>9. QED BY <1>1, <1>2, <1>3, <1>4, <1>5, <1>6, <1>7, <1>8 DEF RunActivity

\* A step of a request either saves UPLOADED, starts a run, or leaves the
\* record and the orchestration alone.
LEMMA CallerEffect ==
  ASSUME TypeOK, NEW c \in Callers, CallerStep(c)
  PROVE  /\ UNCHANGED <<media, blobs>>
         /\ \A d \in Callers : caller[d] = "saved" => caller'[d] = "saved"
         /\ \/ /\ UNCHANGED <<orchestratorVars, record>>
            \/ /\ UNCHANGED orchestratorVars
               /\ record'.status = "UPLOADED"
               /\ record'.instance = TRUE
               /\ caller[c] = "save" /\ caller'[c] = "saved"
            \/ /\ UNCHANGED record
               /\ orchestration # "running" /\ orchestration' = "running"
               /\ runs' = runs + 1
               /\ activity' = "LoadJob" /\ step' = "get" /\ copy' = Blank
<1>0. caller \in [Callers -> CallerStates]
  BY DEF TypeOK
<1>1. CASE ReadInstance(c)
  BY <1>0, <1>1 DEF ReadInstance
<1>2. CASE StartNew(c)
  BY <1>0, <1>2 DEF StartNew, Begin, FirstStep
<1>3. CASE Confirm(c)
  BY <1>0, <1>3 DEF Confirm
<1>4. CASE SaveUploaded(c)
  BY <1>0, <1>4, UploadedFields DEF SaveUploaded
<1>5. CASE CallerFails(c)
  BY <1>0, <1>5 DEF CallerFails
<1>6. QED BY <1>1, <1>2, <1>3, <1>4, <1>5 DEF CallerStep

-----------------------------------------------------------------------------
(* The artifacts of a DONE job *)

\* Between validate_input's save and complete_job no record that the
\* activities see is DONE, so no blob of a DONE job is overwritten.
DoneInv ==
    /\ DoneIsCoherent
    /\ activity \notin AroundDone => record.status # "DONE" /\ copy.status # "DONE"
    /\ activity = "ValidateInput" /\ step = "return" => record.status # "DONE"

LEMMA DoneStep ==
  TypeOK /\ ProducedInv /\ DoneInv /\ [Next]_vars => DoneInv'
<1> SUFFICES ASSUME TypeOK, ProducedInv, DoneInv, [Next]_vars PROVE DoneInv'
  OBVIOUS
<1>0. Blank.status # "DONE"
  BY DEF Blank
<1> USE DEF DoneInv, DoneIsCoherent, AroundDone
<1>1. CASE RunActivity
  <2>1. activity' = activity
    BY <1>1, ActivityRunning
  <2>2. activity = "CompleteJob" =>
          /\ blobs["raw"] # 0
          /\ \A a \in {"normalized", "minutesJson", "minutesMarkdown"} :
                blobs[a] = blobs["raw"]
    BY DEF ProducedInv, MinutesMakers
  <2>3. QED
    BY <1>1, <2>1, <2>2, ActivityEffect DEF Terminal, Normalizers
<1>2. CASE Orchestrate \/ ActivityRaises \/ FailJobRaises \/ Redeliver
  <2>1. UNCHANGED <<record, blobs>> /\ copy' = Blank
    BY <1>2, OrchestratorFrame
  <2>2. CASE activity' \in AroundDone \ {"ValidateInput"}
    BY <2>1, <2>2
  <2>3. CASE activity' = activity /\ step' = FirstStep(activity)
    BY <1>0, <2>1, <2>3 DEF FirstStep
  <2>4. CASE /\ step = "return"
             /\ \E e \in Workflow : e[1] = activity /\ activity' = e[2] /\ step' = FirstStep(e[2])
    <3>1. PICK e \in Workflow : e[1] = activity /\ activity' = e[2] /\ step' = FirstStep(e[2])
      BY <2>4
    <3>2. activity' = "ValidateInput" => step' # "return"
      BY <3>1 DEF FirstStep
    <3>3. activity' \notin AroundDone => record.status # "DONE"
      BY <2>4, <3>1, WorkflowEdges
    <3>4. QED BY <1>0, <2>1, <3>2, <3>3
  <2>5. QED BY <1>2, <2>2, <2>3, <2>4, OrchestratorTarget
<1>3. ASSUME NEW c \in Callers, CallerStep(c) PROVE DoneInv'
  BY <1>0, <1>3, CallerEffect DEF orchestratorVars
<1>4. CASE UNCHANGED vars
  BY <1>4 DEF vars, orchestratorVars
<1>5. QED BY <1>1, <1>2, <1>3, <1>4 DEF Next, CallerStep

\* A DONE job's JSON and Markdown minutes are there and derive from the stored
\* transcription, for every interleaving of requests, redeliveries and re-runs.
THEOREM DoneIsCoherentCorrect == Spec => []DoneIsCoherent
<1>1. Init => DoneInv
  BY DEF Init, DoneInv, DoneIsCoherent, Blank, AroundDone
<1>2. DoneInv => DoneIsCoherent
  BY DEF DoneInv
<1>3. QED
  BY <1>1, <1>2, InitFacts, StartedStep, ProducedStep, DoneStep, TypeCorrect, PTL DEF Spec

-----------------------------------------------------------------------------
(* The status an orchestration leaves behind *)

Settled ==
    \/ record.status \in Terminal
    \/ /\ record.status = "UPLOADED"
       /\ record.instance
       /\ \E c \in Callers : caller[c] = "saved"

CompletedInv ==
    /\ activity = "none" <=> orchestration # "running"
    /\ activity \in {"CompleteJob", "FailJob"} /\ step = "return" => Settled
    /\ orchestration = "completed" => Settled

LEMMA CompletedStep ==
  TypeOK /\ CompletedInv /\ [Next]_vars => CompletedInv'
<1> SUFFICES ASSUME TypeOK, CompletedInv, [Next]_vars PROVE CompletedInv'
  OBVIOUS
<1> USE DEF CompletedInv, Settled
<1>1. CASE RunActivity
  <2>1. activity # "none" /\ UNCHANGED <<activity, orchestration, caller>>
    BY <1>1, ActivityRunning
  <2>2. QED
    BY <1>1, <2>1, ActivityEffect DEF Terminal, Normalizers, AroundDone
<1>2. CASE Orchestrate \/ ActivityRaises \/ FailJobRaises \/ Redeliver
  <2>1. activity # "none" /\ UNCHANGED <<record, caller>>
    BY <1>2, OrchestratorFrame
  <2>2. FirstStep("CompleteJob") # "return" /\ FirstStep("FailJob") # "return"
    BY DEF FirstStep
  <2>3. QED
    BY <1>2, <2>1, <2>2, OrchestratorTarget, WorkflowEdges
<1>3. ASSUME NEW c \in Callers, CallerStep(c) PROVE CompletedInv'
  BY <1>3, CallerEffect DEF orchestratorVars, Terminal
<1>4. CASE UNCHANGED vars
  BY <1>4 DEF vars, orchestratorVars, callerVars
<1>5. QED BY <1>1, <1>2, <1>3, <1>4 DEF Next, CallerStep

\* An orchestration that returned leaves DONE or FAILED, or the UPLOADED that
\* an upload-complete request wrote over it.
THEOREM CompletedCorrect == Spec => []CompletedIsTerminalOrUploaded
<1>1. Init => CompletedInv
  BY DEF Init, CompletedInv, Settled
<1>2. CompletedInv => CompletedIsTerminalOrUploaded
  BY DEF CompletedInv, Settled, CompletedIsTerminalOrUploaded
<1>3. QED
  BY <1>1, <1>2, CompletedStep, TypeCorrect, PTL DEF Spec

-----------------------------------------------------------------------------
(* Who leaves a terminal status *)

FirstRunInv ==
    runs <= 1 =>
      /\ record.status = "DONE" => activity \in {"CompleteJob", "FailJob", "none"}
      /\ record.status = "FAILED" => activity \in {"FailJob", "none"}
      /\ activity \notin {"CompleteJob", "FailJob"} => copy.status \notin Terminal

LEMMA FirstRunStep ==
  TypeOK /\ StartedInv /\ FirstRunInv /\ [Next]_vars => FirstRunInv'
<1> SUFFICES ASSUME TypeOK, StartedInv, FirstRunInv, [Next]_vars PROVE FirstRunInv'
  OBVIOUS
<1>0. Blank.status \notin Terminal
  BY DEF Blank, Terminal
<1> USE DEF FirstRunInv, Terminal
<1>1. CASE RunActivity
  <2>1. activity # "none" /\ UNCHANGED <<activity, runs>>
    BY <1>1, ActivityRunning
  <2>2. QED
    BY <1>1, <2>1, ActivityEffect DEF Normalizers, AroundDone
<1>2. CASE Orchestrate \/ ActivityRaises \/ FailJobRaises \/ Redeliver
  <2>1. UNCHANGED <<record, runs>> /\ copy' = Blank
    BY <1>2, OrchestratorFrame
  <2>2. QED
    BY <1>0, <1>2, <2>1, OrchestratorTarget
<1>3. ASSUME NEW c \in Callers, CallerStep(c) PROVE FirstRunInv'
  <2>1. runs = 0 => record.status = "CREATED"
    BY DEF StartedInv, MarkedIsStarted, TypeOK
  <2>2. CASE UNCHANGED <<orchestratorVars, record>>
    BY <2>2 DEF orchestratorVars
  <2>3. CASE UNCHANGED orchestratorVars /\ record'.status = "UPLOADED"
    BY <2>3 DEF orchestratorVars
  <2>4. CASE /\ UNCHANGED record
             /\ runs' = runs + 1 /\ activity' = "LoadJob" /\ copy' = Blank
    <3>1. runs' <= 1 => record.status = "CREATED"
      BY <2>1, <2>4 DEF TypeOK
    <3>2. QED BY <1>0, <2>4, <3>1
  <2>5. QED BY <1>3, <2>2, <2>3, <2>4, CallerEffect
<1>4. CASE UNCHANGED vars
  BY <1>4 DEF vars, orchestratorVars
<1>5. QED BY <1>1, <1>2, <1>3, <1>4 DEF Next, CallerStep

\* DONE and FAILED are left only through fail_job, by a request that saves a
\* copy it read before, or in a run started again.
THEOREM TerminalCorrect == Spec => TerminalIsLeftOnlyBy
<1>1. Init => FirstRunInv
  BY DEF Init, FirstRunInv, Blank, Terminal
<1>2. ASSUME TypeOK, FirstRunInv, [Next]_vars,
             record.status \in Terminal, record'.status # record.status
      PROVE  \/ activity = "FailJob"
             \/ \E c \in Callers : caller[c] = "save" /\ caller'[c] = "saved"
             \/ runs > 1
  <2>0. runs \in Nat
    BY <1>2 DEF TypeOK
  <2>1. CASE RunActivity
    BY <1>2, <2>0, <2>1, ActivityRunning, ActivityEffect
       DEF FirstRunInv, Terminal, Normalizers
  <2>2. CASE Orchestrate \/ ActivityRaises \/ FailJobRaises \/ Redeliver
    BY <1>2, <2>2, OrchestratorFrame
  <2>3. ASSUME NEW c \in Callers, CallerStep(c)
        PROVE  \E d \in Callers : caller[d] = "save" /\ caller'[d] = "saved"
    BY <1>2, <2>3, CallerEffect
  <2>4. CASE UNCHANGED vars
    BY <1>2, <2>4 DEF vars
  <2>5. QED BY <1>2, <2>1, <2>2, <2>3, <2>4 DEF Next, CallerStep
<1>3. TypeOK /\ FirstRunInv /\ [Next]_vars =>
        [ (record.status \in Terminal /\ record'.status # record.status) =>
            \/ activity = "FailJob"
            \/ \E c \in Callers : caller[c] = "save" /\ caller'[c] = "saved"
            \/ runs > 1 ]_vars
  BY <1>2
<1>4. QED
  BY <1>1, <1>3, InitFacts, StartedStep, FirstRunStep, TypeCorrect, PTL
     DEF Spec, TerminalIsLeftOnlyBy

-----------------------------------------------------------------------------
(* The transcript of a DONE job *)

BatchOrFast == {"StartBatchTranscription", "PollBatchTranscription",
                "FetchBatchTranscriptionResult", "NormalizeBatchTranscript",
                "TranscribeAudio", "NormalizeTranscript"}

\* While no request has saved, the copy an activity is about to save has the
\* outputs of the record.
OutputsInv ==
    /\ activity \in BatchOrFast => media.route # "contentUnderstanding"
    /\ (\A c \in Callers : caller[c] # "saved") =>
         /\ step \in {"save", "prepare", "resave"} => copy.uris = record.uris
         /\ \/ activity \in Normalizers /\ step = "return"
            \/ activity \in MinutesMakers
            \/ record.status = "DONE"
            => TranscriptOutputs \subseteq record.uris

LEMMA OutputsStep ==
  TypeOK /\ DoneInv /\ OutputsInv /\ [Next]_vars => OutputsInv'
<1> SUFFICES ASSUME TypeOK, DoneInv, OutputsInv, [Next]_vars PROVE OutputsInv'
  OBVIOUS
<1> USE DEF OutputsInv
<1>1. CASE RunActivity
  <2>1. UNCHANGED <<media, activity, caller>>
    BY <1>1, ActivityRunning
  <2>2. TranscriptOutputs' = TranscriptOutputs
    BY <2>1 DEF TranscriptOutputs
  <2>3. activity \in Normalizers \ {"NormalizeContentUnderstanding"} =>
          media.route # "contentUnderstanding"
    BY DEF Normalizers, BatchOrFast
  <2>4. CASE \A c \in Callers : caller[c] # "saved"
    <3>1. step' \in {"save", "prepare", "resave"} => copy'.uris = record'.uris
      BY <1>1, <2>1, <2>4, ActivityEffect DEF Normalizers
    <3>2. activity \in Normalizers /\ step' = "return" =>
            TranscriptOutputs \subseteq record'.uris
      BY <1>1, <2>1, <2>3, <2>4, ActivityEffect DEF Normalizers, TranscriptOutputs
    <3>3. record.uris \subseteq record'.uris
      BY <1>1, <2>1, <2>4, ActivityEffect
    <3>4. record'.status = "DONE" => record.status = "DONE" \/ activity = "CompleteJob"
      BY <1>1, ActivityEffect DEF DoneInv, AroundDone, Terminal
    <3>5. QED BY <2>1, <2>2, <2>4, <3>1, <3>2, <3>3, <3>4 DEF MinutesMakers
  <2>5. QED BY <2>1, <2>4
<1>2. CASE Orchestrate \/ ActivityRaises \/ FailJobRaises \/ Redeliver
  <2>1. UNCHANGED <<media, record, caller>>
    BY <1>2, OrchestratorFrame
  <2>2. TranscriptOutputs' = TranscriptOutputs
    BY <2>1 DEF TranscriptOutputs
  <2>3. \A a : FirstStep(a) \in {"get", "call"}
    BY DEF FirstStep
  <2>4. activity' \in BatchOrFast => media.route # "contentUnderstanding"
    BY <1>2, OrchestratorTarget, WorkflowEdges DEF BatchOrFast
  <2>5. step' \notin {"save", "prepare", "resave"}
    BY <1>2, <2>3, OrchestratorTarget
  <2>6. ~(activity' \in Normalizers /\ step' = "return")
    BY <1>2, <2>3, OrchestratorTarget DEF Normalizers
  <2>7. activity' \in MinutesMakers =>
          activity \in MinutesMakers \/ (activity \in Normalizers /\ step = "return")
    BY <1>2, OrchestratorTarget, WorkflowEdges DEF MinutesMakers
  <2>8. QED BY <2>1, <2>2, <2>4, <2>5, <2>6, <2>7
<1>3. ASSUME NEW c \in Callers, CallerStep(c) PROVE OutputsInv'
  <2>1. TranscriptOutputs' = TranscriptOutputs
    BY <1>3, CallerEffect DEF TranscriptOutputs
  <2>2. QED
    BY <1>3, <2>1, CallerEffect
       DEF orchestratorVars, BatchOrFast, Normalizers, MinutesMakers
<1>4. CASE UNCHANGED vars
  BY <1>4 DEF vars, orchestratorVars, callerVars, TranscriptOutputs
<1>5. QED BY <1>1, <1>2, <1>3, <1>4 DEF Next, CallerStep

\* Only the save of an upload-complete request takes the transcript from a DONE
\* job: while none has saved, a DONE job offers it.
THEOREM TranscriptCorrect == Spec => []OnlyUploadCompleteDropsTranscript
<1>1. Init => OutputsInv
  BY DEF Init, OutputsInv, Blank, BatchOrFast, Normalizers, MinutesMakers
<1>2. OutputsInv => OnlyUploadCompleteDropsTranscript
  BY DEF OutputsInv, OnlyUploadCompleteDropsTranscript
<1>3. Init => DoneInv
  BY DEF Init, DoneInv, DoneIsCoherent, Blank, AroundDone
<1>4. QED
  BY <1>1, <1>2, <1>3, InitFacts, StartedStep, ProducedStep, DoneStep, OutputsStep,
     TypeCorrect, PTL DEF Spec
-----------------------------------------------------------------------------
(* The promise of MinutesPublication *)

\* A blob is written by an activity that runs between validation and
\* complete_job: a fresh transcription, or what its predecessor holds.
LEMMA ActivityBlobs ==
  ASSUME TypeOK, StartedInv, ProducedInv, RunActivity, blobs' # blobs
  PROVE  /\ activity \notin AroundDone
         /\ UNCHANGED record
         /\ \/ \E a \in {"raw", "visualContext"} : blobs' = [blobs EXCEPT ![a] = runs]
            \/ blobs' = [blobs EXCEPT !["normalized"] = blobs["raw"]] /\ blobs["raw"] # 0
            \/ /\ blobs' = [blobs EXCEPT !["minutesJson"] = blobs["normalized"]]
               /\ blobs["normalized"] # 0
            \/ /\ blobs' = [blobs EXCEPT !["minutesMarkdown"] = blobs["minutesJson"]]
               /\ blobs["minutesJson"] # 0
<1> USE DEF ProducedInv, Normalizers, MinutesMakers, AroundDone,
            Get, Save, Publish, Report, Prepare
<1>1. CASE LoadJob \/ ValidateInput \/ CreateReadSas \/ CompleteJob \/ FailJob
  BY <1>1 DEF LoadJob, ValidateInput, CreateReadSas, CompleteJob, FailJob
<1>2. CASE AnalyzeContentUnderstanding \/ StartBatchTranscription \/ PollBatchTranscription
  BY <1>2 DEF AnalyzeContentUnderstanding, StartBatchTranscription, PollBatchTranscription
<1>3. CASE PollContentUnderstanding \/ FetchBatchTranscriptionResult \/ TranscribeAudio
  BY <1>3 DEF PollContentUnderstanding, FetchBatchTranscriptionResult, TranscribeAudio
<1>4. CASE NormalizeContentUnderstanding \/ NormalizeBatchTranscript \/ NormalizeTranscript
  BY <1>4 DEF NormalizeContentUnderstanding, NormalizeBatchTranscript, NormalizeTranscript
<1>5. CASE GenerateFinalMinutes \/ RenderMarkdown
  BY <1>5 DEF GenerateFinalMinutes, RenderMarkdown
<1>6. QED BY <1>1, <1>2, <1>3, <1>4, <1>5 DEF RunActivity

LEMMA PublicationStep ==
  ASSUME TypeOK, StartedInv, ProducedInv, DoneInv, DoneInv', [Next]_vars
  PROVE  [Publication!PNext]_(Publication!pvars)
<1> USE DEF Publication!PNext, Publication!pvars
<1>0. \/ record'.status = "DONE" /\ (record.status = "DONE") = TRUE
      \/ record'.status = "DONE" /\ record.status # "DONE"
      \/ record'.status # "DONE"
  OBVIOUS
<1>a. ASSUME UNCHANGED <<blobs, runs>> PROVE [Publication!PNext]_(Publication!pvars)
  <2>1. CASE record'.status = "DONE"
    <3>1. Publication!Offer
      BY <1>a, <2>1
         DEF Publication!Offer, Publication!Chain, DoneInv, DoneIsCoherent
    <3>2. QED BY <3>1
  <2>2. CASE record'.status # "DONE"
    BY <1>a, <2>2 DEF Publication!Withdraw
  <2>3. QED BY <2>1, <2>2
<1>1. CASE RunActivity /\ blobs' # blobs
  <2>1. /\ record.status # "DONE" /\ UNCHANGED <<record, runs>> /\ runs > 0
        /\ activity \notin AroundDone
    BY <1>1, ActivityBlobs, ActivityRunning DEF DoneInv, StartedInv
  <2>2. CASE \E a \in {"raw", "visualContext"} : blobs' = [blobs EXCEPT ![a] = runs]
    BY <2>1, <2>2 DEF Publication!Transcribe
  <2>3. CASE \E a \in {"normalized", "minutesJson", "minutesMarkdown"} :
               /\ blobs[Publication!Origin[a]] # 0
               /\ blobs' = [blobs EXCEPT ![a] = blobs[Publication!Origin[a]]]
    BY <2>1, <2>3 DEF Publication!Derive, Publication!Origin
  <2>4. /\ Publication!Origin["normalized"] = "raw"
        /\ Publication!Origin["minutesJson"] = "normalized"
        /\ Publication!Origin["minutesMarkdown"] = "minutesJson"
    BY DEF Publication!Origin
  <2>5. QED BY <1>1, <2>2, <2>3, <2>4, ActivityBlobs
<1>2. CASE RunActivity /\ blobs' = blobs
  BY <1>2, <1>a, ActivityRunning
<1>3. CASE Orchestrate \/ ActivityRaises \/ FailJobRaises \/ Redeliver
  BY <1>3, <1>a, OrchestratorFrame
<1>4. ASSUME NEW c \in Callers, CallerStep(c)
      PROVE  [Publication!PNext]_(Publication!pvars)
  <2>1. CASE UNCHANGED <<blobs, runs>>
    BY <2>1, <1>a
  <2>2. CASE UNCHANGED <<record, blobs>> /\ runs' = runs + 1
    BY <2>2 DEF Publication!Start
  <2>3. QED BY <1>4, <2>1, <2>2, CallerEffect DEF orchestratorVars
<1>5. CASE UNCHANGED vars
  BY <1>5, <1>a DEF vars, orchestratorVars
<1>6. QED BY <1>1, <1>2, <1>3, <1>4, <1>5 DEF Next, CallerStep

\* The job lifecycle implements the publication promise.
THEOREM PublicationCorrect == Spec => PublicationKept
<1>1. Init => Publication!PInit
  BY DEF Init, Blank, Artifacts, Publication!PInit, Publication!Chain
<1>2. Init => DoneInv
  BY DEF Init, DoneInv, DoneIsCoherent, Blank, AroundDone
<1>3. QED
  BY <1>1, <1>2, InitFacts, StartedStep, ProducedStep, DoneStep, PublicationStep,
     TypeCorrect, PTL DEF Spec, PublicationKept, Publication!PSpec

-----------------------------------------------------------------------------
(* Where an orchestration can be *)

\* The calls an activity consists of, as the guards of its disjuncts name them.
StepsOf(a) ==
    CASE a = "LoadJob" -> {"get", "return"}
      [] a \in {"ValidateInput", "CompleteJob", "FailJob"} -> {"get", "save", "return"}
      [] a = "CreateReadSas" -> {"get", "save", "prepare", "resave", "return"}
      [] a = "PollContentUnderstanding" -> {"call", "visual", "get", "save", "return"}
      [] a \in {"FetchBatchTranscriptionResult", "RenderMarkdown"} -> {"call", "return"}
      [] OTHER -> {"get", "save", "call", "return"}

\* An activity waits for the orchestrator only with an outcome it knows how to go
\* on from.
Awaited ==
    \/ result = "ok" /\ \/ \E e \in Workflow : e[1] = activity
                        \/ activity \in {"CompleteJob", "FailJob"}
    \/ result = "running" /\ activity \in Pollers
    \/ result = "failed" /\ activity \in Reporters

\* A running orchestration always has a next step: an activity runs, at one of its
\* own calls, or it has returned what the orchestrator expects of it.
NeverStuck ==
    orchestration = "running" =>
        /\ activity # "none"
        /\ step \in StepsOf(activity)
        /\ step = "return" => Awaited

ContentActivities == {"AnalyzeContentUnderstanding", "PollContentUnderstanding",
                      "NormalizeContentUnderstanding"}
BatchActivities == {"StartBatchTranscription", "PollBatchTranscription",
                    "FetchBatchTranscriptionResult", "NormalizeBatchTranscript"}
FastActivities == {"TranscribeAudio", "NormalizeTranscript"}

\* An instance runs exactly while it waits for an activity, one that fits the
\* recording; attempts are counted for a poll that may still be made.
RunningInv ==
    /\ orchestration = "running" <=> activity # "none"
    /\ activity # "none" => step \in StepsOf(activity)
    /\ result = "running" => activity \in Pollers
    /\ result = "failed" => activity \in Reporters
    /\ activity \in ContentActivities => media.engine = "contentUnderstanding"
    /\ activity \in BatchActivities => media.engine = "batch"
    /\ activity \in FastActivities => media.engine = "fast"
    /\ IF activity \in Pollers THEN polls < MaxPolls ELSE polls = 0

LEMMA MaxPollsType == MaxPolls \in Nat \ {0}
BY ContentPollsAssumption, BatchPollsAssumption DEF MaxPolls

LEMMA FirstStepOf == \A a : FirstStep(a) \in StepsOf(a)
BY DEF FirstStep, StepsOf

\* An activity goes on to another of its calls; what it reports, the orchestrator
\* can take.
LEMMA ActivityBody ==
  ASSUME RunActivity
  PROVE  /\ step' \in StepsOf(activity)
         /\ \/ result' = result
            \/ result' = "ok"
            \/ result' = "running" /\ activity \in Pollers
            \/ result' = "failed" /\ activity \in Reporters
         /\ UNCHANGED <<polls, redeliveries>>
<1> USE DEF Get, Save, Publish, Report, Prepare, StepsOf, Reporters, Pollers
<1>1. CASE LoadJob \/ ValidateInput \/ CreateReadSas
  BY <1>1 DEF RunActivity, LoadJob, ValidateInput, CreateReadSas
<1>2. CASE AnalyzeContentUnderstanding \/ NormalizeContentUnderstanding
           \/ StartBatchTranscription \/ NormalizeBatchTranscript
  BY <1>2 DEF RunActivity, AnalyzeContentUnderstanding, NormalizeContentUnderstanding,
              StartBatchTranscription, NormalizeBatchTranscript
<1>3. CASE PollContentUnderstanding
  BY <1>3 DEF RunActivity, PollContentUnderstanding
<1>7. CASE PollBatchTranscription \/ FetchBatchTranscriptionResult
  BY <1>7 DEF RunActivity, PollBatchTranscription, FetchBatchTranscriptionResult
<1>4. CASE TranscribeAudio \/ NormalizeTranscript
  BY <1>4 DEF RunActivity, TranscribeAudio, NormalizeTranscript
<1>5. CASE GenerateFinalMinutes \/ RenderMarkdown \/ CompleteJob \/ FailJob
  BY <1>5 DEF RunActivity, GenerateFinalMinutes, RenderMarkdown, CompleteJob, FailJob
<1>6. QED BY <1>1, <1>2, <1>3, <1>4, <1>5, <1>7 DEF RunActivity

\* What is called next fits the recording, if what returned does.
LEMMA WorkflowFits ==
  ASSUME TypeOK, NEW e \in Workflow
  PROVE  /\ e[2] \in ContentActivities =>
              e[1] \in ContentActivities \/ media.engine = "contentUnderstanding"
         /\ e[2] \in BatchActivities => e[1] \in BatchActivities \/ media.engine = "batch"
         /\ e[2] \in FastActivities => e[1] \in FastActivities \/ media.engine = "fast"
         /\ e[1] # e[2] /\ e[2] \notin {"FailJob", "none"}
  BY DEF TypeOK, Media, Workflow, Transcriber, ContentActivities, BatchActivities, FastActivities

LEMMA RunningStep == TypeOK /\ RunningInv /\ [Next]_vars => RunningInv'
<1> SUFFICES ASSUME TypeOK, RunningInv, [Next]_vars PROVE RunningInv'
  OBVIOUS
<1>0. /\ MaxPolls \in Nat \ {0} /\ MaxPolls' \in Nat \ {0} /\ polls \in Nat
      /\ \A a : FirstStep(a) \in StepsOf(a)
  BY MaxPollsType, FirstStepOf, ContentPollsAssumption, BatchPollsAssumption DEF TypeOK, MaxPolls
<1> USE DEF RunningInv
<1>1. CASE RunActivity
  BY <1>1, ActivityRunning, ActivityBody DEF MaxPolls
<1>2. CASE Continue
  <2>1. PICK e \in Workflow : e[1] = activity /\ Call(e[2])
    BY <1>2 DEF Continue
  <2>2. polls' = 0 /\ UNCHANGED <<media, orchestration>> /\ Begin(e[2]) /\ activity # "none"
    BY <1>2, <2>1, WorkflowEdges DEF Continue, Call
  <2> QED
    BY <1>0, <2>1, <2>2, WorkflowFits DEF Begin
<1>3. CASE PollAgain
  BY <1>0, <1>3 DEF PollAgain, Call, Begin, MaxPolls, Pollers
<1>4. CASE PollsExhausted \/ ReportedFailure \/ ActivityRaises
  <2>1. activity # "none" /\ polls' = 0 /\ Call("FailJob")
    BY <1>4 DEF PollsExhausted, ReportedFailure, ActivityRaises, Pollers, Reporters
  <2> QED
    BY <1>0, <2>1 DEF Call, Begin, ContentActivities, BatchActivities, FastActivities, Pollers
<1>5. CASE Finish \/ FailJobRaises
  <2>1. End("completed") \/ End("failed")
    BY <1>5 DEF Finish, FailJobRaises
  <2> QED
    BY <2>1 DEF End, ContentActivities, BatchActivities, FastActivities, Pollers
<1>6. CASE Redeliver
  BY <1>0, <1>6 DEF Redeliver, Begin, MaxPolls
<1>7. ASSUME NEW c \in Callers, CallerStep(c) PROVE RunningInv'
  <2>1. CASE StartNew(c)
    BY <1>0, <2>1 DEF StartNew, Begin, ContentActivities, BatchActivities, FastActivities, Pollers
  <2>2. CASE UNCHANGED <<media, orchestratorVars>>
    BY <2>2 DEF orchestratorVars, MaxPolls
  <2> QED
    BY <1>7, <2>1, <2>2 DEF CallerStep, ReadInstance, Confirm, SaveUploaded, CallerFails
<1>8. CASE UNCHANGED vars
  BY <1>8 DEF vars, orchestratorVars, MaxPolls
<1> QED
  BY <1>1, <1>2, <1>3, <1>4, <1>5, <1>6, <1>7, <1>8 DEF Next, Orchestrate, CallerStep

LEMMA InitRunning == Init => RunningInv
BY DEF Init, RunningInv, ContentActivities, BatchActivities, FastActivities, Pollers, Reporters

\* Whatever is raised, reported or delivered again, no orchestration is left
\* waiting: an activity called by name exists, has a next call, and what it returns
\* is handled (workflow_orchestrator, the poll loops, _raise_..._failure).
THEOREM NeverStuckCorrect == Spec => []NeverStuck
<1>1. TypeOK /\ RunningInv => NeverStuck
  <2> SUFFICES ASSUME TypeOK, RunningInv, orchestration = "running", step = "return",
                      result = "ok", activity \notin {"CompleteJob", "FailJob"}
               PROVE  \E e \in Workflow : e[1] = activity
    BY DEF RunningInv, NeverStuck, Awaited, TypeOK
  <2>1. activity \in Activities
    BY DEF TypeOK, RunningInv
  <2> QED
    BY <2>1 DEF Activities, Workflow
<1> QED
  BY <1>1, InitRunning, RunningStep, TypeCorrect, PTL DEF Spec

-----------------------------------------------------------------------------
(* A started orchestration ends *)

\* The weight of what the orchestrator still has to wait for.
ActivityRank ==
    CASE activity = "none" -> 0
      [] activity = "FailJob" -> 1
      [] activity = "CompleteJob" -> 2
      [] activity = "RenderMarkdown" -> 3
      [] activity = "GenerateFinalMinutes" -> 4
      [] activity \in Normalizers -> 5
      [] activity = "FetchBatchTranscriptionResult" -> 6
      [] activity \in Pollers -> 7
      [] activity \in {"AnalyzeContentUnderstanding", "StartBatchTranscription",
                       "TranscribeAudio"} -> 8
      [] activity = "CreateReadSas" -> 9
      [] activity = "ValidateInput" -> 10
      [] OTHER -> 11

PollsLeft == IF activity \in Pollers THEN MaxPolls - polls ELSE 0

StepRank ==
    CASE step = "get" -> 5 [] step = "save" -> 4 [] step = "prepare" -> 3
      [] step = "resave" -> 2 [] step = "visual" -> 1 [] step = "return" -> 0
      [] OTHER -> IF FirstStep(activity) = "call" THEN 6 ELSE 1

Rank == <<MaxRedeliveries - redeliveries, ActivityRank, PollsLeft, StepRank>>

\* While an orchestration runs, every step lowers its rank, but for those of the
\* upload-complete requests, which leave it alone: no loop of the orchestrator, and
\* no order of failures and deliveries, goes round for ever.  With NeverStuck and
\* DescentEnds it is the safety half of StartedEnds.
EveryStepDescends ==
    [][orchestration = "running" =>
          <<Rank', Rank>> \in Descent(4) \/ UNCHANGED orchestratorVars]_vars

LEMMA WorkflowDescends ==
  ASSUME NEW e \in Workflow, e[1] = activity, activity' = e[2]
  PROVE  ActivityRank' < ActivityRank
  BY DEF Workflow, Transcriber, ActivityRank, Normalizers, Pollers

LEMMA ActivityDescends ==
  ASSUME RunActivity
  PROVE  StepRank' < StepRank
<1> USE ActivityRunning DEF Get, Save, Publish, Report, Prepare, StepRank, FirstStep
<1>1. CASE LoadJob \/ ValidateInput \/ CreateReadSas
  BY <1>1 DEF LoadJob, ValidateInput, CreateReadSas
<1>2. CASE AnalyzeContentUnderstanding \/ PollContentUnderstanding \/ NormalizeContentUnderstanding
  BY <1>2 DEF AnalyzeContentUnderstanding, PollContentUnderstanding,
              NormalizeContentUnderstanding
<1>3. CASE StartBatchTranscription \/ PollBatchTranscription
           \/ FetchBatchTranscriptionResult \/ NormalizeBatchTranscript
  BY <1>3 DEF StartBatchTranscription, PollBatchTranscription,
              FetchBatchTranscriptionResult, NormalizeBatchTranscript
<1>4. CASE TranscribeAudio \/ NormalizeTranscript
  BY <1>4 DEF TranscribeAudio, NormalizeTranscript
<1>5. CASE GenerateFinalMinutes \/ RenderMarkdown \/ CompleteJob \/ FailJob
  BY <1>5 DEF GenerateFinalMinutes, RenderMarkdown, CompleteJob, FailJob
<1>6. QED BY <1>1, <1>2, <1>3, <1>4, <1>5, ActivityRunning DEF RunActivity

LEMMA RankType ==
  ASSUME TypeOK, RunningInv
  PROVE  /\ MaxRedeliveries - redeliveries \in Nat /\ ActivityRank \in Nat
         /\ PollsLeft \in Nat /\ StepRank \in Nat
         /\ MaxRedeliveries \in Nat /\ redeliveries \in Nat /\ polls \in Nat /\ MaxPolls \in Nat
<1>1. /\ redeliveries \in 0..MaxRedeliveries /\ polls \in Nat /\ MaxPolls \in Nat
      /\ activity \in Pollers => polls < MaxPolls
  BY MaxPollsType DEF TypeOK, RunningInv
<1>2. MaxRedeliveries - redeliveries \in Nat /\ redeliveries \in Nat /\ PollsLeft \in Nat
  BY <1>1, RedeliveriesAssumption DEF PollsLeft
<1>3. ActivityRank \in Nat /\ StepRank \in Nat
  BY DEF ActivityRank, StepRank
<1> QED
  BY <1>1, <1>2, <1>3, RedeliveriesAssumption

LEMMA StepDescends ==
  ASSUME TypeOK, RunningInv, TypeOK', RunningInv', orchestration = "running", Next
  PROVE  <<Rank', Rank>> \in Descent(4) \/ UNCHANGED orchestratorVars
<1> DEFINE left == MaxRedeliveries - redeliveries
<1>a. /\ left \in Nat /\ ActivityRank \in Nat /\ PollsLeft \in Nat /\ StepRank \in Nat
      /\ MaxRedeliveries \in Nat /\ redeliveries \in Nat /\ polls \in Nat /\ MaxPolls \in Nat
  BY RankType
<1>b. (left \in Nat /\ ActivityRank \in Nat /\ PollsLeft \in Nat /\ StepRank \in Nat)'
  BY RankType, PTL
<1>c. ASSUME \/ left' < left
             \/ left' = left /\ ActivityRank' < ActivityRank
             \/ left' = left /\ ActivityRank' = ActivityRank /\ PollsLeft' < PollsLeft
             \/ /\ left' = left /\ ActivityRank' = ActivityRank /\ PollsLeft' = PollsLeft
                /\ StepRank' < StepRank
      PROVE  <<Rank', Rank>> \in Descent(4)
  <2>1. left' \in Nat /\ ActivityRank' \in Nat /\ PollsLeft' \in Nat /\ StepRank' \in Nat
    BY <1>b
  <2>2. /\ Rank = <<left, ActivityRank, PollsLeft, StepRank>>
        /\ Rank' = <<left', ActivityRank', PollsLeft', StepRank'>>
    BY DEF Rank
  <2> HIDE DEF left
  <2> QED
    BY <1>a, <1>c, <2>1, <2>2, Lower4
<1>1. CASE RunActivity
  <2>1. UNCHANGED <<redeliveries, activity, polls>>
    BY <1>1, ActivityRunning, ActivityBody
  <2>2. left' = left /\ ActivityRank' = ActivityRank /\ PollsLeft' = PollsLeft
    BY <2>1 DEF ActivityRank, PollsLeft, MaxPolls
  <2> QED
    BY <1>1, <1>c, <2>2, ActivityDescends
<1>2. CASE Continue
  <2>1. PICK e \in Workflow : e[1] = activity /\ Call(e[2])
    BY <1>2 DEF Continue
  <2>2. activity' = e[2] /\ left' = left
    BY <2>1 DEF Call, Begin
  <2> QED
    BY <1>c, <2>1, <2>2, WorkflowDescends
<1>3. CASE PollAgain
  <2>1. activity \in Pollers /\ activity' = activity /\ polls' = polls + 1 /\ redeliveries' = redeliveries
    BY <1>3 DEF PollAgain, Call, Begin
  <2>2. left' = left /\ ActivityRank' = ActivityRank /\ PollsLeft' < PollsLeft
    BY <1>a, <2>1 DEF ActivityRank, PollsLeft, MaxPolls
  <2> QED
    BY <1>c, <2>2
<1>4. CASE PollsExhausted \/ ReportedFailure \/ ActivityRaises
  <2>1. activity \notin {"FailJob", "none"} /\ activity' = "FailJob" /\ redeliveries' = redeliveries
    BY <1>4 DEF PollsExhausted, ReportedFailure, ActivityRaises, Call, Begin, Pollers, Reporters
  <2>2. left' = left /\ ActivityRank' < ActivityRank
    BY <2>1 DEF ActivityRank, Normalizers, Pollers
  <2> QED
    BY <1>c, <2>2
<1>5. CASE Finish \/ FailJobRaises
  <2>1. activity \in {"CompleteJob", "FailJob"} /\ activity' = "none" /\ redeliveries' = redeliveries
    BY <1>5 DEF Finish, FailJobRaises, End
  <2>2. left' = left /\ ActivityRank' < ActivityRank
    BY <2>1 DEF ActivityRank, Normalizers, Pollers
  <2> QED
    BY <1>c, <2>2
<1>6. CASE Redeliver
  <2>1. left' < left
    BY <1>a, <1>6 DEF Redeliver
  <2> QED
    BY <1>c, <2>1
<1>7. CASE \E c \in Callers : CallerStep(c)
  BY <1>7 DEF CallerStep, ReadInstance, StartNew, Confirm, SaveUploaded, CallerFails
<1> QED
  BY <1>1, <1>2, <1>3, <1>4, <1>5, <1>6, <1>7 DEF Next, Orchestrate, CallerStep

\* Polls, activities, calls and deliveries are used up while an orchestration runs
\* (workflow_orchestrator, the poll loops, the activities).
THEOREM EveryStepDescendsCorrect == Spec => EveryStepDescends
<1>1. TypeOK /\ RunningInv /\ TypeOK' /\ RunningInv' /\ [Next]_vars
        => [orchestration = "running" =>
              <<Rank', Rank>> \in Descent(4) \/ UNCHANGED orchestratorVars]_vars
  BY StepDescends
<1> QED
  BY <1>1, InitRunning, RunningStep, TypeCorrect, PTL DEF Spec, EveryStepDescends

-----------------------------------------------------------------------------
(* The promise of Transcription *)

PollsOf == [r \in {"fast", "batch", "contentUnderstanding"} |->
              IF r = "contentUnderstanding" THEN ContentUnderstandingMaxPolls
                                            ELSE BatchTranscriptionMaxPolls]

Polled == IF activity \in Pollers THEN polls ELSE 0

\* As long as the activity stays, so does the stage.
LEMMA SameActivity ==
  ASSUME UNCHANGED <<media, activity, runs, polls>>
  PROVE  UNCHANGED Transcription!tvars
  BY DEF Transcription!tvars, Stage

\* What a step between two stages is, seen from Transcription.
LEMMA StageMoves ==
  ASSUME media' = media, Polled' = 0,
         \/ /\ Stage \in {"asking", "polling", "fetching", "transcribed"} /\ Stage' = "over"
         \/ Stage = "over" /\ Stage' = "asking"
         \/ Stage = "asking" /\ Stage' = "polling" /\ media.engine # "fast"
         \/ Stage = "polling" /\ Stage' = "fetching" /\ media.engine = "batch"
         \/ Stage = "asking" /\ Stage' = "transcribed" /\ media.engine = "fast"
         \/ Stage = "fetching" /\ Stage' = "transcribed" /\ media.engine = "batch"
         \/ /\ Stage = "polling" /\ Stage' = "transcribed"
            /\ media.engine = "contentUnderstanding"
  PROVE  Transcription!TNext
  BY DEF Polled, Transcription!TNext, Transcription!Hold, Transcription!Fetch,
         Transcription!Deliver, Transcription!Leave, Transcription!StartAgain,
         Transcription!Move, Transcription!Stages

LEMMA StepKeepsTranscription ==
  ASSUME TypeOK, StartedInv, RunningInv, Next
  PROVE  Transcription!TNext \/ UNCHANGED Transcription!tvars
<1>0. activity # "none" => runs > 0
  BY DEF StartedInv
<1>1. CASE RunActivity
  BY <1>1, ActivityRunning, ActivityBody, SameActivity
<1>2. CASE Continue
  <2>1. PICK e \in Workflow : e[1] = activity /\ Call(e[2])
    BY <1>2 DEF Continue
  <2>2. polls' = 0 /\ media' = media /\ runs' = runs /\ activity' = e[2]
    BY <1>2, <2>1 DEF Continue, Call, Begin
  <2>3. Polled' = 0
    BY <2>2 DEF Polled
  <2>4. CASE e[2] \in {"ValidateInput", "CreateReadSas", Transcriber}
    <3>1. Stage = "asking" /\ Stage' = "asking" /\ activity \notin Pollers /\ activity' \notin Pollers
      BY <2>1, <2>2, <2>4 DEF Workflow, Transcriber, Stage, Pollers
    <3> QED
      BY <2>2, <3>1 DEF Transcription!tvars
  <2>5. CASE e[2] \in Pollers
    <3>1. /\ Stage = "asking" /\ Stage' = "polling"
          /\ activity \in {"AnalyzeContentUnderstanding", "StartBatchTranscription"}
      BY <2>1, <2>2, <2>5 DEF Workflow, Transcriber, Stage, Pollers
    <3>2. media.engine # "fast"
      BY <3>1 DEF RunningInv, ContentActivities, BatchActivities
    <3> QED
      BY <2>2, <2>3, <3>1, <3>2, StageMoves
  <2>6. CASE e[2] = "FetchBatchTranscriptionResult"
    <3>1. Stage = "polling" /\ Stage' = "fetching" /\ activity = "PollBatchTranscription"
      BY <2>1, <2>2, <2>6 DEF Workflow, Transcriber, Stage, Pollers
    <3>2. media.engine = "batch"
      BY <3>1 DEF RunningInv, BatchActivities
    <3> QED
      BY <2>2, <2>3, <3>1, <3>2, StageMoves
  <2>7. CASE e[2] \in Normalizers
    <3>1. /\ Stage' = "transcribed"
          /\ \/ Stage = "asking" /\ activity = "TranscribeAudio"
             \/ Stage = "fetching" /\ activity = "FetchBatchTranscriptionResult"
             \/ Stage = "polling" /\ activity = "PollContentUnderstanding"
      BY <2>1, <2>2, <2>7 DEF Workflow, Transcriber, Stage, Pollers, Normalizers
    <3>2. /\ activity = "TranscribeAudio" => media.engine = "fast"
          /\ activity = "FetchBatchTranscriptionResult" => media.engine = "batch"
          /\ activity = "PollContentUnderstanding" => media.engine = "contentUnderstanding"
      BY DEF RunningInv, BatchActivities, ContentActivities, FastActivities
    <3> QED
      BY <2>2, <2>3, <3>1, <3>2, StageMoves
  <2>8. CASE e[2] \in MinutesMakers
    <3>1. Stage = "transcribed" /\ Stage' = "transcribed" /\ activity \notin Pollers
          /\ activity' \notin Pollers
      BY <2>1, <2>2, <2>8 DEF Workflow, Transcriber, Stage, Pollers, MinutesMakers
    <3> QED
      BY <2>2, <3>1 DEF Transcription!tvars
  <2> QED
    BY <2>4, <2>5, <2>6, <2>7, <2>8 DEF Workflow, Transcriber, Normalizers, MinutesMakers, Pollers
<1>3. CASE PollAgain
  <2>1. /\ activity \in Pollers /\ activity' = activity /\ media' = media
        /\ polls' = polls + 1 /\ polls + 1 < MaxPolls
    BY <1>3 DEF PollAgain, Call, Begin
  <2>2. Stage = "polling" /\ Stage' = "polling"
    BY <2>1 DEF Stage
  <2>3. MaxPolls = PollsOf[media.engine]
    <3>1. /\ activity = "PollContentUnderstanding" => media.engine = "contentUnderstanding"
          /\ activity = "PollBatchTranscription" => media.engine = "batch"
      BY DEF RunningInv, BatchActivities, ContentActivities
    <3> QED
      BY <2>1, <3>1 DEF MaxPolls, PollsOf, Pollers
  <2> QED
    BY <2>1, <2>2, <2>3 DEF Transcription!TNext, Transcription!PollAgain, PollsOf
<1>4. CASE PollsExhausted \/ ReportedFailure \/ ActivityRaises
  <2>1. activity \notin {"FailJob", "none"} /\ activity' = "FailJob" /\ media' = media
    BY <1>4 DEF PollsExhausted, ReportedFailure, ActivityRaises, Call, Begin, Pollers, Reporters
  <2>2. Stage \in {"asking", "polling", "fetching", "transcribed"} /\ Stage' = "over" /\ Polled' = 0
    BY <2>1 DEF Stage, Polled, Pollers
  <2> QED
    BY <2>1, <2>2, StageMoves
<1>5. CASE Finish \/ FailJobRaises
  <2>1. /\ activity \in {"CompleteJob", "FailJob"} /\ activity' = "none"
        /\ media' = media /\ runs' = runs
    BY <1>5 DEF Finish, FailJobRaises, End
  <2>2. Stage' = "over" /\ activity \notin Pollers /\ activity' \notin Pollers
    BY <1>0, <2>1 DEF Stage, Pollers
  <2>3. CASE activity = "CompleteJob"
    <3>1. Stage = "transcribed" /\ Polled' = 0
      BY <2>2, <2>3 DEF Stage, Polled, Pollers
    <3> QED
      BY <2>1, <2>2, <3>1, StageMoves
  <2>4. CASE activity = "FailJob"
    <3>1. Stage = "over"
      BY <2>4 DEF Stage, Pollers
    <3> QED
      BY <2>1, <2>2, <3>1 DEF Transcription!tvars
  <2> QED
    BY <2>1, <2>3, <2>4
<1>6. CASE Redeliver
  BY <1>6, SameActivity DEF Redeliver, Begin
<1>7. ASSUME NEW c \in Callers, CallerStep(c)
      PROVE  Transcription!TNext \/ UNCHANGED Transcription!tvars
  <2>1. CASE StartNew(c)
    <3>1. activity = "none" /\ activity' = "LoadJob" /\ media' = media
      BY <2>1 DEF StartNew, Begin, RunningInv
    <3>2. Stage' = "asking" /\ Polled' = 0 /\ activity \notin Pollers /\ activity' \notin Pollers
      BY <3>1 DEF Stage, Polled, Pollers
    <3>3. CASE runs > 0
      BY <3>1, <3>2, <3>3, StageMoves DEF Stage, Pollers
    <3>4. CASE ~(runs > 0)
      BY <3>1, <3>2, <3>4 DEF Stage, Pollers, Transcription!tvars
    <3> QED
      BY <3>3, <3>4
  <2>2. CASE UNCHANGED <<media, orchestratorVars>>
    BY <2>2, SameActivity DEF orchestratorVars
  <2> QED
    BY <1>7, <2>1, <2>2 DEF CallerStep, ReadInstance, Confirm, SaveUploaded, CallerFails
<1> QED
  BY <1>1, <1>2, <1>3, <1>4, <1>5, <1>6, <1>7 DEF Next, Orchestrate, CallerStep

\* Seen from the orchestrator, a run asks for one transcription, polls it within the
\* range of the loop, and makes minutes only of a transcript that this run got;
\* deliveries never repeat an activity the orchestrator is past, and no two runs
\* overlap (workflow_orchestrator, start_new).
THEOREM TranscriptionCorrect == Spec => TranscriptionKept
<1>1. Init => Transcription!TInit
  BY DEF Init, Transcription!TInit, Stage, Pollers, Media
<1>2. TypeOK /\ StartedInv /\ RunningInv /\ [Next]_vars => [Transcription!TNext]_Transcription!tvars
  <2>1. UNCHANGED vars => UNCHANGED Transcription!tvars
    BY SameActivity DEF vars, orchestratorVars
  <2> QED
    BY <2>1, StepKeepsTranscription
<1> QED
  BY <1>1, <1>2, InitFacts, StartedStep, InitRunning, RunningStep, TypeCorrect, PTL
     DEF Spec, TranscriptionKept, Transcription!TSpec
=============================================================================
