------------------------ MODULE TranscriptionRequests ------------------------
(***************************************************************************)
(* How the activities of one job ask the speech services for a transcript: *)
(* FastTranscriptionClient, BatchTranscriptionClient and                   *)
(* ContentUnderstandingClient with the activities that call them.          *)
(*                                                                         *)
(*  - A request that gets no answer, or a transient one, is sent again by  *)
(*    the two speech clients.  The service may have taken it all the same, *)
(*    and may still take one the client has given up on.                   *)
(*  - The worker may die between any two steps; the activity is delivered  *)
(*    again from its beginning, with the same URL of the recording.        *)
(*                                                                         *)
(* Names, bodies and the transcript are left out; a transcription is the   *)
(* number of the creating request the service took.  Time decides nothing  *)
(* here: no handler looks at a clock, and a request whose URL has ended is *)
(* one more that is refused.  The age of the URL is kept to see when that  *)
(* may be; it counts the requests and pauses that have to be waited for,   *)
(* not what lies between them.                                             *)
(***************************************************************************)
EXTENDS Integers

CONSTANTS
    MaxAttempts,      \* 6: DEFAULT_BACKOFF_SECONDS and the last attempt
    Backoff,          \* Backoff[n]: pause after attempt n, in seconds
    RetryAfter,       \* what a Retry-After header may say, in seconds
    RequestTimes,     \* how long a request may take until it is settled
    Preparation,      \* Preparation[r]: from the time CreateReadSasActivity issues
                      \* the URL for until it returns
    ReadTtl,          \* ReadTtl[r]: how long the URL of the recording lives
    MaxPolls,         \* polls of the orchestrator
    MaxRedeliveries   \* bound of the model: worker deaths

Routes == {"fast", "batch", "contentUnderstanding"}

ASSUME AttemptsAssumption == MaxAttempts \in Nat \ {0}
ASSUME TimesAssumption ==
    /\ Backoff \in [1..(MaxAttempts - 1) -> Nat]
    /\ RetryAfter \subseteq Nat
    /\ RequestTimes \subseteq Nat
    /\ Preparation \in [Routes -> Nat]
    /\ ReadTtl \in [Routes -> Nat]
ASSUME BoundsAssumption == MaxPolls \in Nat \ {0} /\ MaxRedeliveries \in Nat

VARIABLES
    route,         \* how the recording is transcribed
    call,          \* the request the running activity makes
    phase,         \* ready to send it, sent, answered; or the job has ended
    attempt,       \* attempt_count of this request
    answer,        \* what the client made of it, once it is answered
    created,       \* transcriptions the service has taken for this job
    outstanding,   \* creating requests given up on that it may still take
    held,          \* the transcription whose URL the orchestrator holds, or 0
    taken,         \* the transcription the last usable answer was about, or 0
    lost,          \* answers to creating requests the client did not get
    redeliveries,  \* worker deaths so far
    urlAge,        \* how old the URL of the recording is, while it is passed on
    polls          \* polls that found the transcription running

serviceVars == <<created, outstanding, lost>>
vars == <<route, call, phase, attempt, answer, serviceVars, held, taken,
          redeliveries, urlAge, polls>>

-----------------------------------------------------------------------------
(* Requests *)

FirstCall == [fast |-> "transcribe", batch |-> "submit",
              contentUnderstanding |-> "analyze"]
Creating == {FirstCall[r] : r \in Routes}
Calls == Creating \cup {"status", "files", "content"}

\* The client of Content Understanding sends everything once.
Attempts == IF route = "contentUnderstanding" THEN 1 ELSE MaxAttempts

\* usable: of a status request, the transcription has succeeded.
Answers == {"none", "usable", "running", "failed", "error"}

TypeOK ==
    /\ route \in Routes
    /\ call \in Calls
    /\ phase \in {"ready", "sent", "answered", "transcribed", "failed"}
    /\ attempt \in 1..MaxAttempts
    /\ answer \in Answers
    /\ created \in Nat
    /\ outstanding \in Nat
    /\ held \in 0..created
    /\ taken \in 0..created
    /\ lost \in Nat
    /\ redeliveries \in 0..MaxRedeliveries
    /\ urlAge \in Nat
    /\ polls \in 0..MaxPolls

Init ==
    /\ route \in Routes
    /\ call = FirstCall[route]
    /\ phase = "ready"
    /\ attempt = 1
    /\ answer = "none"
    /\ created = 0
    /\ outstanding = 0
    /\ held = 0
    /\ taken = 0
    /\ lost = 0
    /\ redeliveries = 0
    /\ urlAge = Preparation[route]
    /\ polls = 0

Send ==
    /\ phase = "ready"
    /\ phase' = "sent"
    /\ UNCHANGED <<route, call, attempt, answer, serviceVars, held, taken,
                   redeliveries, urlAge, polls>>

-----------------------------------------------------------------------------
(* One attempt *)

\* The creating request is waited for, and the pause after it.
Passes(pauses) ==
    urlAge' \in IF call \in Creating
                  THEN {urlAge + t + p : t \in RequestTimes, p \in pauses}
                  ELSE {urlAge}

\* The client leaves its loop: it returns, or it raises ("error").
Conclude(a) ==
    /\ phase' = "answered"
    /\ answer' = a
    /\ Passes({0})
    /\ UNCHANGED <<route, call, attempt, held, redeliveries, polls>>

\* It sleeps and tries again.
SendAgain(pauses) ==
    /\ attempt < Attempts
    /\ attempt' = attempt + 1
    /\ phase' = "ready"
    /\ Passes(pauses)
    /\ UNCHANGED <<route, call, answer, held, redeliveries, polls>>

\* The usual pause, or the one the response asks for, however long it is; a
\* Retry-After of 0 counts as none for the batch client.
Pauses == {Backoff[attempt]} \cup
          (IF route = "fast" THEN RetryAfter ELSE RetryAfter \ {0})

\* The service takes the request, and the answer is of use.
Answered ==
    /\ phase = "sent"
    /\ IF call \in Creating THEN created' = created + 1 /\ taken' = created + 1
                            ELSE UNCHANGED <<created, taken>>
    /\ \E a \in IF call = "status" THEN {"usable", "running", "failed"}
                                   ELSE {"usable"} : Conclude(a)
    /\ UNCHANGED <<outstanding, lost>>

\* Mutant: an answer without a location is taken for a transient failure.
UnusableSentAgain ==
    /\ phase = "sent"
    /\ created' = created + (IF call \in Creating THEN 1 ELSE 0)
    /\ SendAgain({0})
    /\ UNCHANGED <<outstanding, taken, lost>>

\* It takes the request, but the answer lacks the location, or is no object.
Unusable ==
    /\ phase = "sent"
    /\ created' = created + (IF call \in Creating THEN 1 ELSE 0)
    /\ Conclude("error")
    /\ UNCHANGED <<outstanding, taken, lost>>

\* 400, 401, 422 or another status that is not transient.
Refused ==
    /\ phase = "sent"
    /\ Conclude("error")
    /\ UNCHANGED <<serviceVars, taken>>

\* 429 or 503: the service did not take it.
Throttled ==
    /\ phase = "sent"
    /\ \/ SendAgain(Pauses)
       \/ attempt = Attempts /\ Conclude("error")
    /\ UNCHANGED <<serviceVars, taken>>

\* 500, 502, 504: nobody knows.  A request without an answer (httpx.HTTPError)
\* is the same with the usual pause.
Lost ==
    /\ phase = "sent"
    /\ \/ SendAgain(Pauses)
       \/ attempt = Attempts /\ Conclude("error")
    /\ outstanding' = outstanding + (IF call \in Creating THEN 1 ELSE 0)
    /\ lost' = lost + (IF call \in Creating THEN 1 ELSE 0)
    /\ UNCHANGED <<created, taken>>

\* The service takes, or never gets, a request the client has given up on.
Late ==
    /\ outstanding > 0
    /\ outstanding' = outstanding - 1
    /\ created' \in {created, created + 1}
    /\ UNCHANGED <<route, call, phase, attempt, answer, held, taken, lost,
                   redeliveries, urlAge, polls>>

-----------------------------------------------------------------------------
(* Activities and the orchestrator *)

\* The next request begins, of an activity of its own or of the same one.
Begin(c) ==
    /\ call' = c
    /\ phase' = "ready"
    /\ attempt' = 1
    /\ answer' = "none"

End(how) ==
    /\ phase' = how
    /\ UNCHANGED <<call, attempt, answer>>

\* The URL of the transcription reaches the orchestrator's history.
Started ==
    /\ phase = "answered" /\ answer = "usable" /\ call \in {"submit", "analyze"}
    /\ held' = taken
    /\ Begin("status")
    /\ UNCHANGED <<route, serviceVars, taken, redeliveries, urlAge, polls>>

\* Mutant: a poll that finds the transcription running is not counted.
PollUncounted ==
    /\ phase = "answered" /\ answer = "running"
    /\ Begin("status")
    /\ UNCHANGED <<route, serviceVars, held, taken, redeliveries, urlAge, polls>>

\* Mutant: the last poll is missed by one.
PollOnceMore ==
    /\ phase = "answered" /\ answer = "running"
    /\ polls' = polls + 1
    /\ IF polls < MaxPolls THEN Begin("status") ELSE End("failed")
    /\ UNCHANGED <<route, serviceVars, held, taken, redeliveries, urlAge>>

\* It is still running: wait and poll again, but not for ever.
Poll ==
    /\ phase = "answered" /\ answer = "running"
    /\ polls' = polls + 1
    /\ IF polls + 1 < MaxPolls THEN Begin("status") ELSE End("failed")
    /\ UNCHANGED <<route, serviceVars, held, taken, redeliveries, urlAge>>

\* fetch_batch_transcription_result asks for the list of files, then for one.
Fetch ==
    /\ phase = "answered" /\ answer = "usable" /\ route = "batch"
    /\ \/ call = "status" /\ Begin("files")
       \/ call = "files" /\ Begin("content")
    /\ UNCHANGED <<route, serviceVars, held, taken, redeliveries, urlAge, polls>>

\* Mutant: what says that a batch has succeeded is taken for its result.
TranscribedBeforeFetch ==
    /\ phase = "answered" /\ answer = "usable"
    /\ call \in {"transcribe", "content", "status"}
    /\ End("transcribed")
    /\ UNCHANGED <<route, serviceVars, held, taken, redeliveries, urlAge, polls>>

\* The answer holds the transcript.
Transcribed ==
    /\ phase = "answered" /\ answer = "usable"
    /\ \/ call \in {"transcribe", "content"}
       \/ call = "status" /\ route = "contentUnderstanding"
    /\ End("transcribed")
    /\ UNCHANGED <<route, serviceVars, held, taken, redeliveries, urlAge, polls>>

\* Mutant: a poll that fails makes the orchestrator start again.
FailedStartsAgain ==
    /\ phase = "answered" /\ answer \in {"error", "failed"}
    /\ IF call = "status" /\ polls < MaxPolls THEN Begin(FirstCall[route])
                                             ELSE End("failed")
    /\ UNCHANGED <<route, serviceVars, held, taken, redeliveries, urlAge, polls>>

Failed ==
    /\ phase = "answered" /\ answer \in {"error", "failed"}
    /\ End("failed")
    /\ UNCHANGED <<route, serviceVars, held, taken, redeliveries, urlAge, polls>>

\* The worker dies before the activity has returned, or the host ends it; what it
\* learned is lost, and the request it waited for may still be taken.
Redeliver ==
    /\ phase \in {"ready", "sent", "answered"}
    /\ redeliveries < MaxRedeliveries
    /\ redeliveries' = redeliveries + 1
    /\ outstanding' = outstanding +
                      (IF phase = "sent" /\ call \in Creating THEN 1 ELSE 0)
    /\ IF phase = "sent" THEN Passes({0}) ELSE UNCHANGED urlAge
    /\ Begin(IF call = "content" THEN "files" ELSE call)
    /\ UNCHANGED <<route, created, lost, held, taken, polls>>

Work ==
    \/ Send
    \/ Answered \/ Unusable \/ Refused \/ Throttled \/ Lost
    \/ Started \/ Poll \/ Fetch \/ Transcribed \/ Failed

Next == Work \/ Late \/ Redeliver

Spec == Init /\ [][Next]_vars

\* Every request ends by the client's timeout, and the framework delivers an
\* activity until it has ended.
FairSpec == Spec /\ WF_vars(Work)

-----------------------------------------------------------------------------
(* Properties *)

\* What the service transcribes for a job, but for the one transcription whose
\* answer was understood (or could not be), is explained by answers that were
\* lost and workers that died: a request that was refused or throttled, a poll
\* or a fetch never makes another.  (start_transcription repeats its POST, which
\* has no idempotency key.)
\* And each delivery asks for no more than it has attempts.
OrphansAreExplained ==
    /\ created + outstanding <= lost + redeliveries + 1
    /\ created + outstanding <= (redeliveries + 1) * Attempts

\* Once the orchestrator holds a URL it asks for no further transcription, also
\* when activities run again, and polls that same one to the end.
HeldIsKept ==
    [][held # 0 => held' = held /\ call' \notin Creating /\ lost' = lost]_vars

\* The requests of one job, seen as the stages of its transcription, keep what is
\* promised to the orchestration: in particular repetitions and deliveries never
\* lead back to the creating request.
Stage ==
    CASE phase = "transcribed" -> "transcribed"
      [] phase = "failed" -> "over"
      [] phase \notin {"transcribed", "failed"} ->
            IF call \in Creating THEN "asking"
            ELSE IF call = "status" THEN "polling" ELSE "fetching"

Polled == IF Stage = "polling" THEN polls ELSE 0

Transcription == INSTANCE Transcription WITH
    Polls <- [r \in Routes |-> MaxPolls], stage <- Stage, polled <- Polled

TranscriptionKept == Transcription!TSpec

\* Requests, repetitions, polls and deliveries are bounded, so that every job
\* leaves the transcription one way or the other.
TranscriptionEnds == <>(phase \in {"transcribed", "failed"})

-----------------------------------------------------------------------------
(* What the documents say and the code does not do: refuted *)

\* docs/05-workflow-spec.md: the URL of the recording lives long enough for the
\* service to read it, the time of the retries included.
UrlOutlivesRetries ==
    phase = "sent" /\ call \in Creating => urlAge <= ReadTtl[route]
=============================================================================
