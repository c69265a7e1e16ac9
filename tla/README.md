# Minutes Studio: TLA+ models, checks and proofs

Minutes Studio turns an uploaded recording into a transcript and minutes. A
browser creates a job, uploads the recording straight to Blob Storage and asks
the API to start; a Durable Functions orchestration transcribes, generates and
stores; the browser polls until the job is terminal and loads the results.
These modules model that program as its source has it, check it with TLC on
small instances, and prove the main invariants with TLAPS for every size.

## 1. The system

| part | source | state it keeps | operations |
|---|---|---|---|
| job document | `cosmos_repository.py`, `models.py` | one Cosmos DB item per job: status, instance id, outputs | `get`, `save` (upsert of the whole item, no etag) |
| upload-complete | `complete_upload/__init__.py`, `service.py` | the record it read | read instance id, `start_new`, check the body, save `UPLOADED` |
| orchestrator | `MeetingMinutesOrchestrator/__init__.py` | the activity it waits for, the poll attempt | call activities in order, poll with timers, `FailJobActivity` on any error |
| activities | `workflow_activities.py` | the record they read; artifacts in Blob Storage (`blob_artifacts.py`) | sixteen handlers |
| admission | `fileValidation.ts`, `apiClient.ts`, `service.py`, `file_names.py`, `workflow_activities.py`, `audio_preprocessing.py` | limits | five checks of one recording (page, create, upload-complete, blob, converted audio), choice of the engine |
| minutes generation | `minutes_generation.py`, `openai_client.py` | none beyond one activity | direct generation, repair, fallback to chunk summaries, retries |
| SAS issuer | `blob_storage.py` | cached user delegation key, lock | sign upload and read URLs |
| browser flow | `frontend/src/App.tsx`, `jobPolling.ts` | React state, refs, closures of running flows | select, submit, upload, poll, load results, unmount |
| upload | `frontend/src/apiClient.ts` | blocks staged so far | one request, or blocks and the commit of their list |
| service clients | `speech_client.py`, `batch_transcription_client.py`, `content_understanding_client.py` | attempt, backoff | retried HTTP requests |
| front-end server | `frontend/server.js`, `serverAuth.js` | failed logins of each address, requests under way; the session is a signed cookie | login, logout, gate, proxy with a timer |
| authentication of the API | `auth.py` | none | the proxy's secret, the user's identity |

How they interact. The browser calls the API over HTTP (create, upload-complete,
get), on Azure through the front-end server, which lets in who has a session and
adds the secret by which the API knows it. upload-complete starts the
orchestration *before* it reads, checks and saves the record, so that request
and the activities write the same document concurrently. The orchestrator and the activities pass only small dicts; the
data travels through blobs at fixed names, which a second run overwrites. The
browser learns everything by polling.

What is hard here: read-then-upsert without an etag; a start that comes before
the check and the save; activities that run at least once; errors raised after
the effect took place; poll loops with a budget; decisions repeated on
different descriptions of one recording; requests repeated although the first
was taken; answers given up while the request goes on; late answers in the
browser. Each is a hazard in `PROJECT.json`, at its line, with the properties
that would notice it go wrong.

What makes each part correct:

| part | it is correct if |
|---|---|
| job document and its writers | no reference to a blob that is not there; a terminal status is left only in the ways the code intends; a stale copy drops nothing |
| upload-complete | a job that says it was uploaded has an orchestration; a finished job is not started again (*it can be*) |
| orchestrator and activities | every job that was started ends; what a DONE job offers derives from one transcription |
| admission | no engine is given more than it takes, as far as that was measured (*a client may upload again after*); what one check admits, the next does not refuse for another reason |
| minutes generation | only validated minutes are stored, made of all of the transcript, with a bounded number of requests; what the service refused is not repeated (*a blocked prompt is, in chunks*) |
| service clients | what the service transcribes in vain is explained by lost answers; a held transcription is kept; the recording's URL outlives the attempts (*it need not*) |
| SAS issuer | no URL outlives its key, no key displaces a longer one, whoever gets the lock gives it back |
| browser flow | only results of the active job are shown; a flow that ends has loaded what was ready; the page is busy only while the job goes on (*or while results fail to load*) |
| upload | what the page uploads is the whole file or nothing, and the API serves it |
| front-end server, authentication | what a client is told is true, whatever goes on behind the proxy; on Azure nobody without a session makes the API act, whichever settings are missing; failed logins are limited for each address (*which the client names*), and who is locked out is let in again; every request is answered |

## 2. Modules

| module | models | proofs |
|---|---|---|
| `JobLifecycle` | job document, upload-complete, orchestrator, sixteen activities, read handlers | `JobLifecycleProofs` |
| `MinutesPublication` | what the backend promises about a job's artifacts (abstract) | refinement proved in `JobLifecycleProofs` |
| `Transcription` | what orchestration and service clients agree on about a transcription (abstract) | refinements proved in `JobLifecycleProofs` and `TranscriptionRequestsProofs` |
| `InputAdmission` | limits, upload and conversion, from the page to the engine | `InputAdmissionProofs` |
| `MinutesGeneration` | one `generate_final_minutes` | `MinutesGenerationProofs` |
| `TranscriptionRequests` | the three service clients under their activities | `TranscriptionRequestsProofs` |
| `DelegationKeyCache` | `AzureBlobSasIssuer` | in the module itself |
| `SubmissionFlow` | `handleSubmit` and `pollJobUntilTerminal` | `SubmissionFlowProofs` |
| `FrontDoor` | front-end server, authentication of the API | `FrontDoorProofs` |
| `Descent` | no code: ranks that go down with every step, for the proofs | in the module itself |

`MC*.tla` give the constants of a run that are not numbers; `MC*.cfg` are the
runs. Operators marked "Mutant" in a module are not part of the model: each is
an action or helper with a plausible bug, and with it in place of the original
the property named in `PROJECT.json` is violated.

**JobLifecycle.** `record` is the Cosmos item, `blobs[a]` the run of the
orchestration whose recording artifact `a` derives from (0: not written), which
is what tells an artifact of this run from a left-over of an earlier one.
`transcriptReady` and `minutesReady` are always saved together with the URIs, so
the set `uris` stands for them; percentages, messages, times and the error
fields are left out. Each activity is one operator over `step`, whose steps are
its calls that may raise (`Get`, `Save`, `Publish`, ...); `copy` is the record
it read, which its `Save` upserts whole. `ActivityRaises` stands for any call
that raises, before or after its effect; `Redeliver` starts the activity again.
`Workflow` is what the orchestrator does when an activity returns. An
upload-complete request is `ReadInstance`, `StartNew`, `Confirm` (get and
check), `SaveUploaded`, and may fail or lose its host between any two
(`CallerFails`); a body that is refused, or a record that is missing or another
user's, ends it too. Requests are numbered in the order in which they arrive
(`Arrived`): they differ in nothing else, so the numbering loses no behaviour.
`Answer` is what the three read handlers find.

**MinutesPublication.** Four steps (`Transcribe`, `Derive`, `Offer`,
`Withdraw`) and `Start`; `JobLifecycle` implements it with
`made <- blobs, run <- runs, offered <- record.status = "DONE"`.

**Transcription.** `Hold`, `PollAgain`, `Fetch`, `Deliver`, `Leave`,
`StartAgain`: a run asks once, polls what it holds a limited number of times,
fetches when it is ready and uses the transcript only then. Two modules that
look at the same calls from opposite sides implement it, each with a `stage` and
a `polled` of its own (`TranscriptionKept` in both): `JobLifecycle`, where a call
of the service is one step, through the activity it waits for, and
`TranscriptionRequests`, where there is no orchestrator, through the call under
way. That is how the second may be read as a part of the first.

**InputAdmission.** One recording, described up to five times: `file` (the page,
or the caller's own idea of it), `request` (create), `completion`
(upload-complete), `blob` (what is there) and `input` (what the engine gets).
Sizes and durations are numbers around the limits; an extension or a type is one
member of the class the code tells apart. `Submit` is the page, which is one
possible client; others start at `CreateJob`. The page uploads in one request
(`PutFile`) or, above 256 MB, in blocks of 8 MB (`PutBlock`, which moves `staged`,
and `CommitBlockList`); after a failed request it gives up (`UploadFails`).
Another client uploads what it likes, and again (`Upload`): its URL lets it create
and write for 30 or 120 minutes, and nothing in the code keeps it from writing
after the size was checked or the duration probed and before the engine, or
ffmpeg, reads (`ReadInput`, `PrepareConverted`). `measured` is what
`create_read_sas` found and `stale` what of it an upload came after: the engine
is within its limits in what was measured and is not stale, and in no more than
that. The blob name cut at 128 characters is the flag `cut`. Names such as `.mp3`, which the page takes and the
API refuses, are left out.

**MinutesGeneration.** One activity execution. A request is answered with an
object (conforming, not conforming, unreadable) or one of the error classes
`_openai_error` tells apart. The filter appears twice: as an answer it cut off
(`filtered`), which ends the activity, and as a prompt it blocked with status 400
(`promptBlocked`), which the code takes for one that is too long and sends again
in chunks.
`CutChunk` is one turn of `build_transcript_chunks`, `CutEnds` what follows the
loop; a phrase is its start and end. The OpenAI client's own `max_retries` are
inside one request.

**TranscriptionRequests.** One request at a time: `Send` (it may reach the
service or not), `Answered`, `Throttled`, `Refused`, `Lost`, `Late` (the service
takes a request whose client has given it up), and the activity around it:
`Fetch`, `Poll`, `Started`, `Transcribed`, `Failed`, `Redeliver`. 429 and 503
mean not taken; another 5xx or no answer may mean either. There is no clock,
because no handler looks at one: how long a request takes has no bound in the
code (the timeout of `httpx` counts for each read or write, and `Retry-After` is
honoured as it is), and a host that ends an activity after `functionTimeout` is
one more `Redeliver`. Only the age of the recording's URL is kept (`urlAge`), from
the time it is issued for, over its preparation and the requests and pauses that
follow; token, Cosmos and blob calls are left out of it, so that it is a lower
bound, which is what a refutation needs.

**DelegationKeyCache.** Threads take the time (`CreateSas`), wait for the lock
(`Acquire`), and then use the cached key (`Reuse`), obtain a new one (`Obtain`)
or fail and release the lock (`RequestFails`); `Sign` comes after the lock.

**SubmissionFlow.** Each submission is a flow with what its closure saw
(`carried`) and its own local variables (`loaded`, `failures`); React state and
refs are shared. Steps lie between two awaits; selection, clearing, a further
submission and unmounting come in between. The server answers anything that
`JobLifecycle` lets it answer.

**FrontDoor.** Failed logins, sessions and requests to the API that have been
forwarded, in one state. Instead of a clock there are ages (`attempts.age`,
`elapsed`) and remaining lifetimes (`session`), which `Tick` moves, so that the
model never runs out of time. The visitors share one address, since
`loginAttempts` keeps a separate entry for each. A request is turned away or let
in, its body is read while its timer runs (the timer does not end the reading,
only the `fetch` after it), it waits for the API, and is answered, times out or
breaks off; `upstream` is what the API makes of it meanwhile, and `effects` how
often it acted. A client may also send it straight to the API (`GoesDirect`).
`Restart` empties the server's memory and breaks its connections. `Deployments`
are the settings of the two hosts, incomplete ones included. `stretch` is a
history variable: how many wrong keys were compared in a stretch of time as long
as the window, which may begin with any tick.

How they compose: `JobLifecycle` uses a transcription or a generation as a call
that succeeds, reports a failure or raises; `TranscriptionRequests` and
`MinutesGeneration` say how it comes to that, and that it comes to an end.
`InputAdmission` justifies the media `JobLifecycle` starts from, and
`SubmissionFlow.Answers` lists what its record may look like from outside (a
DONE job that lost its transcript included). `FrontDoor` says how a client comes
to repeat a request that was taken: after "unknown" (a 504, say) the API may have
acted or may still act; a second upload-complete request of `JobLifecycle` is
that repetition.

## 3. Runs

`tlc -config X.cfg M`; every passing run visits all states of its instance.

| run | module, config | instance | distinct states | shows |
|---|---|---|---|---|
| `job_lifecycle` | `JobLifecycle`, `MCJobLifecycle.cfg` | 2 requests, 2 polls on each route, 1 worker death | 743,582 | record and artifacts stay coherent; refinement of `MinutesPublication`; a started orchestration ends |
| `input_admission` | `MCInputAdmission`, `MCInputAdmission.cfg` | sizes 1..5, durations 1..4 and unknown, limits 2, 3, 5 and 2, 4, blocks of 2 above 2 | 438,928 | engines get what they take; the checks agree with each other; the page uploads a file whole |
| `minutes_generation` | `MCMinutesGeneration`, `MCMinutesGeneration.cfg` | 3 attempts, all transcripts of up to 3 phrases of 4 kinds, target 2 | 237,975 | what is stored, what it is made of, the budget, the end |
| `transcription_requests` | `MCTranscriptionRequests`, `MCTranscriptionRequests.cfg` | 4 attempts, 3 polls, 2 worker deaths | 672,204 | repeated requests, what is held, refinement of `Transcription`, the end |
| `delegation_key_cache` | `DelegationKeyCache`, `MCDelegationKeyCache.cfg` | 3 threads, two lifetimes, clock 0..2 | 934,255 | keys; no deadlock, and the lock is given back |
| `submission_flow` | `SubmissionFlow`, `MCSubmissionFlow.cfg` | 2 submissions, polling ends with the 2nd failure | 726,176 | whose results are shown, what is loaded, what the page stays busy for |
| `front_door` | `MCFrontDoor`, `MCFrontDoor.cfg` | window 1, 2 attempts, session 2, timeout 1, 2 failed logins paused, 2 requests, 1 restart; every deployment on Azure in demo mode, two off it | 462,482 | answers are true, the API is shut to others, the limit on logins, every request ends |
| `terminal_is_final` | `JobLifecycle`, `MCJobLifecycleFinal.cfg` | 1 request | violated | finding 1 |
| `done_is_not_restarted` | `JobLifecycle`, `MCJobLifecycleRestart.cfg` | 2 requests | violated | finding 2 |
| `admitted_under_any_name` | `MCInputAdmission`, `MCInputAdmissionName.cfg` | as `input_admission` | violated | finding 3 |
| `submission_flow_again` | `SubmissionFlow`, `MCSubmissionFlowAgain.cfg` | 2 submissions | violated | finding 4 |
| `read_url_outlives_retries` | `MCTranscriptionRequests`, `MCTranscriptionUrl.cfg` | 6 attempts with the code's own pauses, `Retry-After` of 11 minutes, no deaths | violated | finding 5 |

**Why the bounds are enough.** Two requests are what the hazard takes (one that
saves late while another, or a repetition after a 504, starts the instance
again). Two polls make "again" and "exhausted" happen, and a second attempt is
like every later one. One worker death at any step is every place where a
redelivery can do harm; a second starts from the states the first one leads to.
Each limit has sizes below, at and above it. Three phrases make a chunk that is
closed, one that is continued and a last one. Three attempts have a first, a
middle and a last one. Two
submissions are one flow that is late and one that is active. Two failures in
a row (three in the code) are one that is forgiven and one that ends the polling. A file of 5 in
blocks of 2 has a first, a middle and a last, shorter block. In `front_door` a
window of one tick has wrong keys that are compared at its start, in it and just
after it, and a stretch that overlaps two windows; a second request finds the
door in every state the first one leaves it in, and of two visitors behind one
address the model tells apart only their sessions, which do not interact. One
restart is one in each state; the second starts from an empty memory too. The
proofs (below) remove these bounds for the invariants; they stay for liveness and for the
violations, which need no bound.

**No symmetry** is declared: every run of it would exclude a liveness property.
Where clients differ only in their names they are numbered in the order in which
they arrive instead.

**Fairness.**

- `JobLifecycle`: weak fairness of the running activity and of the
  orchestrator, because the Durable task hub keeps delivering work. Clients are
  obliged to nothing: a request may stop anywhere.
- `MinutesGeneration`: weak fairness of the next step; each HTTP request has a
  timeout, so the loop goes on.
- `TranscriptionRequests`: weak fairness of the activity's steps, for the same
  reason; the service taking a late request and worker deaths are not fair.
- `DelegationKeyCache`: weak fairness of what a thread does while it holds the
  lock; the request for a key is answered or runs into the client library's time
  limit. Nobody is obliged to call, and nothing is said of the order in which
  the lock goes to those who wait.
- `FrontDoor`: time passes, a due timer fires (the event loop goes on), and a
  body ends or its connection is closed (Node's own `requestTimeout`). Neither
  the API nor a visitor is obliged to anything, and so `RequestEnds` shows that
  the proxy's timer is enough.
- `SubmissionFlow`: weak fairness of each flow's steps (timers and promises
  settle), and nothing of what the answers say. `BusyEnds` therefore names what may
  keep the page busy for ever: answers that the job goes on, which a record left
  `UPLOADED` by finding 1 gives without end although its orchestration is over;
  and results that fail to load again and again, since every answer of `getJob`
  resets `failureCount` (`App.tsx:599`). It says that nothing else does.

**Deadlock** is checked for `delegation_key_cache`, where a lock is involved.
Elsewhere an execution has an end (the orchestration has returned and the
requests are answered, the activity is over, the page is closed), so TLC's check
is switched off, and progress is a liveness property instead, except for
`input_admission`, a sequence of checks that ends by its shape.

## 4. Findings

1. `terminal_is_final`. `docs/04-data-model.md:165-166` lists DONE and FAILED
   as final. `complete_upload_with_instance_id` (`service.py:138`) saves a copy
   it read earlier; an orchestration that ended in between loses its status.
   `TerminalIsLeftOnlyBy` says who else may change a terminal status: nobody but
   `fail_job` after a `complete_job` that raised, and a run started again.
2. `done_is_not_restarted`. `docs/02-architecture.md:274` promises that a DONE
   job is not processed again; `complete_upload/__init__.py:17` decides by an
   instance id it read before.
3. `admitted_under_any_name`. `docs/02-architecture.md:139` admits sources to
   be converted below 4 GB; `file_names.py:64` may cut the extension by which
   the later checks know such a source.
4. `submission_flow_again`. `docs/09-test-plan.md:196` and
   `docs/02-architecture.md:159-160`: results are shown once they are ready. A
   file that is submitted again while its previous results are on screen never
   gets the new ones (`App.tsx:593`).
5. `read_url_outlives_retries`. `docs/05-workflow-spec.md:161` (and
   `docs/09-test-plan.md:90`) want the read URL to outlive fetch and retries.
   `create_read_sas` takes the time its 90 minutes count from
   (`workflow_activities.py:121`) *before* it downloads and converts the recording,
   and `Retry-After` is honoured without a bound. After 36 minutes of preparation
   and five pauses of 11 minutes the sixth attempt sends a URL that has ended,
   inside the activity's own hour and without a worker death. A delivery after a
   death gets no other URL.

Divergences between documents and code that were met while modelling and that
no run is about (the model follows the code):

- `docs/15-azure-engineer-processing-guide.md:83` lets upload-complete check the
  real size of the blob before the orchestration starts. It checks the declared
  size, after the start; the blob is checked by an activity. Likewise a request
  whose body is refused has already started the orchestration
  (`docs/02-architecture.md:133-134`, `docs/03-api-spec.md:105-109`).
- `docs/05-workflow-spec.md:42-43` gives the Content Understanding activities a
  retry; neither client nor orchestrator has one, and one failed poll fails the
  job.
- `docs/07-security-and-operations.md:253` gives uploads of the stable route 30
  minutes; sources to be converted, large files and long recordings get 120
  (`service.py:251`). Line 248 refuses Content Understanding recordings longer
  than 120 minutes; the code refuses those of 120 minutes too
  (`service.py:176`).
- `docs/01-requirements.md:88` lets the page poll every 2 to 5 seconds; it polls
  every 4, and every 15 while hidden (`jobPolling.ts`).
- `docs/06-ai-and-prompts.md:137-141`, `docs/05-workflow-spec.md:191` and
  `docs/adr/007-direct-minutes-generation-with-chunk-fallback.md:41` let only
  recoverable limits lead to the fallback (a cut answer, broken JSON, tokens), and
  `test_workflow_activities_generation.py` tests that a content filter does not.
  `_should_fallback_to_chunk_minutes` decides by the status: a prompt the filter
  blocked with 400 is sent again in chunks, whose requests are blocked or not.
  `RefusedIsNotRepeated` covers the answer that the filter cut off, and says of
  this case what the code does.

## 5. Proofs

Eight modules, checked by `tlapm`. Every theorem holds for all values of the
constants, under the assumptions declared with the constants. They are as weak as
"a natural number" (no time is bounded or related to another) except this one:

- `InputAdmission!LimitsAssumption`: the limits are ordered as in
  `models.py` (Fast, Batch, source).

| module | theorem | inductive invariant and argument |
|---|---|---|
| `JobLifecycleProofs` | `TypeCorrect` | `TypeOK` with the types of the copies |
| | `MarkedIsStartedCorrect` | `StartedInv`: an activity runs, and a request gets past `start_new`, only when there is a run |
| | `ReferencesCorrect` | `ReferencesInv`: every URI in the record *and in every copy held by an activity or a request* names a written blob; blobs are never removed |
| | `DoneIsCoherentCorrect`, `PublicationCorrect` | `ProducedInv` (each activity finds the blobs it reads, derived from the recording as it is transcribed now) and `DoneInv` (from `ValidateInput`'s save to `CompleteJob` neither the record nor the activity's copy is DONE, so no blob of a DONE job is overwritten) |
| | `CompletedCorrect`, `TerminalCorrect` | `CompletedInv`, `FirstRunInv`: an orchestration that is ending has settled the record; in a first run a terminal status is only there at the end |
| | `TranscriptCorrect` | `OutputsInv`: while no request has saved, the copy an activity is about to save has the outputs of the record |
| | `NeverStuckCorrect` | `RunningInv`: an instance runs exactly while it waits for an activity, one that fits the recording, at one of that activity's calls; only polls report "running", and attempts are counted only for them |
| | `EveryStepDescendsCorrect` | `Rank`: deliveries left, place in the workflow, polls left, calls left in the activity |
| | `TranscriptionCorrect` | `RunningInv` (no activity is awaited once a run is over, so that a new run starts from there) and `StartedInv` |
| `MinutesGenerationProofs` | `TypeCorrect`, `StoredConformsCorrect` | `SafeInv`: what waits to be stored was accepted |
| | `MergeIsCompleteCorrect`, `ChunksFitCorrect` | `CutInv`: the chunks so far cover the phrases before `first`, in order, and `current` fits |
| | `RequestsBoundedCorrect` | `BudgetInv`: requests made are at most the calls behind this one times `MaxAttempts`, plus the attempts of this one; chunks are at most as many as phrases (`CutInv`) |
| | `RefusedIsNotRepeatedCorrect` | `RefusedInv`: an error that smaller requests do not cure leaves the pipeline in the stage `failed`, where nothing is enabled, and after any error it has left the stage `full` |
| | `EveryStepDescendsCorrect` | `Rank`: ways left with their repairs, phrases or chunks left, attempts left, answer to come |
| `TranscriptionRequestsProofs` | `TypeCorrect` | types |
| | `HeldIsKeptCorrect` | `HeldInv`: a held URL excludes the creating calls |
| | `OrphansAreExplainedCorrect` | `OrphanInv`: each transcription is the current one, or is charged to one lost answer or one death; `AskedInv`: what was created or may still be is at most the attempts of the deliveries so far, and of this one those already made |
| | `TranscriptionCorrect` | `RouteInv`, `RunningInv`: each call belongs to the route, polls are counted from the first one on, and only a status request finds a transcription running |
| | `EveryStepDescendsCorrect` | `Rank`: deliveries, calls, polls, attempts, the phase of the request, requests the service may still take |
| `InputAdmissionProofs` | `TypeCorrect` | types |
| | `EngineIsWithinItsLimitsCorrect` | `AdmissionInv` with `CheckedInv` and `PreparedInv`: what was measured is below the limits of the engine, and what will be read is what was measured unless an upload came after |
| | `OfferedIsAdmittedCorrect`, `AdmittedIsKeptCorrect` | `AgreementInv`: the limit applied to the file is the one applied to the request, and a created job is below it |
| | `PageIsServedCorrect` | `ServedInv`: the page declares the size of its file each time, stages no more than the file, and the blob has the file's size from the upload on |
| `DelegationKeyCache` | `TypeCorrect` | types |
| | `SasWithinKeyCorrect`, `KeyLivesLongerCorrect`, `LockIsInUseCorrect` | `CacheInv`: who examines the cache holds the lock, and who holds it examines the cache; a key that was not usable expires before the new one |
| `SubmissionFlowProofs` | `TypeCorrect` | part of `FlowInv` |
| | `ShownIsOfActiveJobCorrect`, `DoneIsLoadedCorrect` | `FlowInv`: only the latest flow runs, only while the controls are disabled; the page is about its job; what it loaded is shown |
| | `BusyIsLatestFlowCorrect` | itself, inductive relative to `FlowInv` |
| | `MissingWasLoadedBeforeCorrect` | `CarriedInv`: what is shown was loaded by the flow it belongs to, and what a closure carries was loaded by an earlier one. This is what `DoneIsLoaded` leaves open, and all that finding 4 can be |
| `FrontDoorProofs` | `TypeCorrect` | types |
| | `LimitIsKeptCorrect` | `StretchInv`: a stretch that began before the entry's first attempt has seen the entry's attempts and, before them, fewer than the limit; one that began after it has seen fewer than the entry counts |
| | `LockoutRunsOutCorrect` | from the types: no action touches the entry of a refused address but a tick and a restart |
| | `AnswersAreTrueCorrect` | `DoorInv`, part `AnswerInv`: what the API made of a request, what was told and how often it acted go together; once settled, it acts no more |
| | `FailsClosedCorrect` | `DoorInv`, part `ClosedInv`: on Azure what passed the proxy was let in with a session, and a request sent straight to the API, which carries no secret, is never acted on |
| | `RequestsOnlyGoOnCorrect` | `DoorInv` and `GoesOn`, what one step may do to a request |
| `Descent` | `DescentEnds` | the lexicographic order on tuples of natural numbers is well founded, from the theorems of the library |

Each proof has the same layout: `Init` establishes the invariant, `[Next]_vars`
preserves it (one step per action), the invariant implies the property, and a
temporal step puts the three together. The properties alone are not inductive:
`ReferencesAreBacked`, for instance, says nothing of the stale copies that will
be saved, and `RequestsAreBounded` nothing of the calls still to come.

**What is proved of liveness.** A liveness property has a part that is not
temporal: no step leads back, and nothing gets stuck. That part is proved, and
what it leaves to fairness is only that steps go on being taken.

| checked by TLC | its safety half, proved |
|---|---|
| `StartedEnds` | `NeverStuck`, `EveryStepDescends` of `JobLifecycleProofs` |
| `GenerationEnds`, `TranscriptionEnds` | `EveryStepDescends` of their modules' proofs |
| `LockIsGivenBack` | `LockIsInUse`: the thread that holds the lock is where its next step, which is always enabled, gives it back |
| `BusyEnds` | `BusyIsLatestFlow`: it is one flow that has to end |
| `LockoutEnds` | `LockoutRunsOut`: every tick brings the end nearer, and no try puts it off |
| `RequestEnds` | `RequestsOnlyGoOn`: every tick uses up the request's time |

The ranks of `EveryStepDescends` are bounded tuples of natural numbers, for which
`DescentEnds` excludes an infinite descent. The conclusion from there to `<>` is
not a step the prover has (fairness and ENABLED are out of its reach).

**Proved and not a property of a run.** `TranscriptionKept` of `JobLifecycle` (that
of `TranscriptionRequests` is one) and the safety halves above hold by `tlapm` for
every value of the constants; the runs are kept to the questions of the whole
system.

**Only model-checked.** The liveness properties themselves: `StartedEnds`,
`GenerationEnds`, `TranscriptionEnds`, `BusyEnds`, `LockIsGivenBack`,
`LockoutEnds`, `RequestEnds`. Every invariant and action property of a passing
run is a theorem. The violations are TLC's.

## 6. Not modelled, and why

- Normalizers and renderer: pure conversions; `JobLifecycle` follows what they
  derive from. `build_transcript_chunks_artifact` and
  `generate_chunk_summary_artifact` are registered but never called, and neither
  is `JobService.complete_upload` or `ContentUnderstandingClient.analyze_url`.
- Of the front-end server: the signature of the session token (taken to be
  unforgeable), static files, the login page's layout and `/healthz`. Of the
  upload: its progress.
- The service's own limit on a batch job (24 hours,
  `docs/adr/010-batch-transcription-fallback.md:29`) against the 1500 minutes of
  its input and 1440 polls: a property of the service.
- Settings, telemetry, health, speaker mapping and evaluation, styles,
  infrastructure: no state of the program's own logic, or not part of the running
  program.

## 7. Plan

The modules of section 2 were written in the order of their weight for the
system: job and artifacts, admission, generation, keys, page, service clients,
and then the front door. What would come next, in this order:

1. The ordering and speaker rules of the normalizers as checked functions.
2. More proofs: the generation as seen by `JobLifecycle` against an abstract
   specification, as `Transcription` is for the speech services; theorems about
   `Transcription` and `MinutesPublication` themselves, which their
   implementations then inherit.
3. What a page, or a running job, owes where no document says it: a result that
   can never be loaded (`App.tsx:599`), a record that stays `UPLOADED`, an instance
   id that a second save undoes (`workflow_activities.py:163`). The hazards in
   `PROJECT.json` say what the properties leave open there.
