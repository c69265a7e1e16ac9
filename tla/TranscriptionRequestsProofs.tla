--------------------- MODULE TranscriptionRequestsProofs ---------------------
(***************************************************************************)
(* Proofs about TranscriptionRequests for every number of attempts, polls  *)
(* and deliveries, however long requests, pauses and URLs last.            *)
(***************************************************************************)
EXTENDS TranscriptionRequests, Descent

-----------------------------------------------------------------------------
(* Types and what the orchestrator holds *)

\* While the job goes on another poll is allowed; whoever holds a URL is past
\* the creating request.
HeldInv ==
    /\ TypeOK
    /\ phase \in {"ready", "sent", "answered"} => polls < MaxPolls
    /\ held # 0 => call \notin Creating

\* The URL's age is a number, whatever is waited for.
LEMMA AgeType ==
    ASSUME TypeOK, NEW pauses, pauses \subseteq Nat, Passes(pauses)
    PROVE  urlAge' \in Nat
<1>1. RequestTimes \subseteq Nat /\ urlAge \in Nat
  BY TimesAssumption DEF TypeOK
<1>2. CASE call \in Creating
  <2>1. PICK t \in RequestTimes, q \in pauses : urlAge' = urlAge + t + q
    BY <1>2 DEF Passes
  <2>2. t \in Nat /\ q \in Nat
    BY <1>1
  <2> QED
    BY <1>1, <2>1, <2>2
<1>3. CASE call \notin Creating
  BY <1>1, <1>3 DEF Passes
<1> QED
  BY <1>2, <1>3

LEMMA ConcludeAge ==
    ASSUME TypeOK, NEW a, Conclude(a)
    PROVE  urlAge' \in Nat
<1>1. {0} \subseteq Nat /\ Passes({0})
  BY DEF Conclude
<1> QED
  BY <1>1, AgeType

LEMMA CallTypes ==
    /\ \A r \in Routes : FirstCall[r] \in Creating /\ FirstCall[r] \in Calls
    /\ Creating = {"transcribe", "submit", "analyze"}
    /\ {"status", "files", "content"} \subseteq Calls
BY DEF FirstCall, Creating, Calls, Routes

LEMMA InitHeld == Init => HeldInv
<1> SUFFICES ASSUME Init PROVE HeldInv
  OBVIOUS
<1>1. 1 \in 1..MaxAttempts /\ 0 < MaxPolls /\ 0 \in 0..MaxRedeliveries /\ 0 \in 0..MaxPolls
  BY AttemptsAssumption, BoundsAssumption
<1> QED
  BY <1>1, CallTypes, TimesAssumption DEF Init, HeldInv, TypeOK, Answers

\* SendAgain keeps the types of what it changes.
LEMMA SendAgainTypes ==
    ASSUME TypeOK, SendAgain(Pauses)
    PROVE  attempt' \in 1..MaxAttempts /\ urlAge' \in Nat
<1>1. attempt \in 1..(MaxAttempts - 1)
  BY AttemptsAssumption DEF TypeOK, Attempts, SendAgain
<1>2. Backoff[attempt] \in Nat
  BY <1>1, TimesAssumption
<1>3. Pauses \subseteq Nat
  BY <1>2, TimesAssumption DEF Pauses
<1>4. urlAge' \in Nat
  BY <1>3, AgeType DEF SendAgain
<1>5. attempt' \in 1..MaxAttempts
  BY <1>1, AttemptsAssumption DEF SendAgain
<1> QED
  BY <1>4, <1>5

LEMMA NextHeld == HeldInv /\ [Next]_vars => HeldInv'
<1> SUFFICES ASSUME HeldInv, [Next]_vars PROVE HeldInv'
  OBVIOUS
<1>0. /\ 1 \in 1..MaxAttempts
      /\ MaxPolls \in Nat /\ MaxRedeliveries \in Nat
  BY AttemptsAssumption, BoundsAssumption DEF HeldInv, TypeOK
<1> USE <1>0 DEF HeldInv, TypeOK
<1>1. CASE Send
  BY <1>1 DEF Send, serviceVars
<1>2. CASE Answered
  BY <1>2, ConcludeAge DEF Answered, Conclude, Answers
<1>3. CASE Unusable
  BY <1>3, ConcludeAge DEF Unusable, Conclude, Answers
<1>4. CASE Refused
  BY <1>4, ConcludeAge DEF Refused, Conclude, Answers, serviceVars
<1>5. CASE Throttled
  <2>1. CASE SendAgain(Pauses)
    BY <1>5, <2>1, SendAgainTypes DEF Throttled, SendAgain, serviceVars
  <2>2. CASE Conclude("error")
    BY <1>5, <2>2, ConcludeAge DEF Throttled, Conclude, Answers, serviceVars
  <2> QED
    BY <1>5, <2>1, <2>2 DEF Throttled
<1>6. CASE Lost
  <2>1. CASE SendAgain(Pauses)
    BY <1>6, <2>1, SendAgainTypes DEF Lost, SendAgain
  <2>2. CASE Conclude("error")
    BY <1>6, <2>2, ConcludeAge DEF Lost, Conclude, Answers
  <2> QED
    BY <1>6, <2>1, <2>2 DEF Lost
<1>7. CASE Started
  BY <1>7, CallTypes DEF Started, Begin, Answers, serviceVars
<1>8. CASE Poll
  BY <1>8, CallTypes DEF Poll, Begin, End, Answers, serviceVars
<1>9. CASE Fetch
  BY <1>9, CallTypes DEF Fetch, Begin, Answers, serviceVars
<1>10. CASE Transcribed
  BY <1>10 DEF Transcribed, End, serviceVars
<1>11. CASE Failed
  BY <1>11 DEF Failed, End, serviceVars
<1>12. CASE Late
  BY <1>12 DEF Late
<1>13. CASE Redeliver
  <2>1. urlAge' \in Nat
    <3>1. CASE phase = "sent"
      BY <1>13, <3>1, AgeType, {0} \subseteq Nat DEF Redeliver
    <3>2. CASE phase # "sent"
      BY <1>13, <3>2 DEF Redeliver
    <3> QED
      BY <3>1, <3>2
  <2> QED
    BY <1>13, <2>1, CallTypes DEF Redeliver, Begin, Answers
<1>14. CASE UNCHANGED vars
  BY <1>14 DEF vars, serviceVars
<1> QED
  BY <1>1, <1>2, <1>3, <1>4, <1>5, <1>6, <1>7, <1>8, <1>9, <1>10, <1>11, <1>12,
     <1>13, <1>14 DEF Next, Work

\* The variables of TranscriptionRequests keep their types.
THEOREM TypeCorrect == Spec => []TypeOK
<1>1. HeldInv => TypeOK
  BY DEF HeldInv
<1> QED
  BY <1>1, InitHeld, NextHeld, PTL DEF Spec

\* Once the orchestrator holds a URL no activity asks for another transcription.
THEOREM HeldIsKeptCorrect == Spec => HeldIsKept
<1>1. HeldInv /\ [Next]_vars
        => [held # 0 => held' = held /\ call' \notin Creating /\ lost' = lost]_vars
  <2> SUFFICES ASSUME HeldInv, Next, held # 0
               PROVE  held' = held /\ call' \notin Creating /\ lost' = lost
    OBVIOUS
  <2>1. call \notin Creating
    BY DEF HeldInv
  <2>2. ~Started
    BY <2>1, CallTypes DEF Started
  <2> QED
    BY <2>1, <2>2, CallTypes
       DEF Next, Work, Send, Answered, Unusable, Refused, Throttled, Lost, Poll, Fetch,
           Transcribed, Failed, Late, Redeliver, Begin, End, Conclude, SendAgain,
           serviceVars, HeldInv, TypeOK
<1> QED
  BY <1>1, InitHeld, NextHeld, PTL DEF Spec, HeldIsKept

-----------------------------------------------------------------------------
(* What the service took *)

\* The creating request of this delivery was answered, or one before it.
Understood == call \notin Creating \/ phase \notin {"ready", "sent"}

OrphanInv == created + outstanding <= lost + redeliveries + (IF Understood THEN 1 ELSE 0)

LEMMA NextOrphan == HeldInv /\ OrphanInv /\ [Next]_vars => OrphanInv'
<1> SUFFICES ASSUME HeldInv, OrphanInv, [Next]_vars PROVE OrphanInv'
  OBVIOUS
<1>0. created \in Nat /\ outstanding \in Nat /\ lost \in Nat /\ redeliveries \in Nat
  BY BoundsAssumption DEF HeldInv, TypeOK
<1> USE <1>0, CallTypes DEF OrphanInv, Understood
<1>1. CASE Send
  BY <1>1 DEF Send, serviceVars
<1>2. CASE Answered
  BY <1>2 DEF Answered, Conclude
<1>3. CASE Unusable
  BY <1>3 DEF Unusable, Conclude
<1>4. CASE Refused
  BY <1>4 DEF Refused, Conclude, serviceVars
<1>5. CASE Throttled
  BY <1>5 DEF Throttled, Conclude, SendAgain, serviceVars
<1>6. CASE Lost
  BY <1>6 DEF Lost, Conclude, SendAgain
<1>7. CASE Started \/ Poll \/ Fetch \/ Transcribed \/ Failed
  <2>1. UNCHANGED <<created, outstanding, lost, redeliveries>> /\ Understood
    BY <1>7 DEF Started, Poll, Fetch, Transcribed, Failed, serviceVars
  <2>2. call' \in {"status", "files", "content"} \/ phase' \in {"transcribed", "failed"}
    BY <1>7 DEF Started, Poll, Fetch, Transcribed, Failed, Begin, End
  <2> QED
    BY <2>1, <2>2
<1>8. CASE Late
  <2>1. outstanding' = outstanding - 1 /\ (created' = created \/ created' = created + 1)
    BY <1>8 DEF Late
  <2>2. lost' = lost /\ redeliveries' = redeliveries /\ call' = call /\ phase' = phase
    BY <1>8 DEF Late
  <2>3. Understood' = Understood
    BY <2>2
  <2>4. CASE Understood
    BY <2>1, <2>2, <2>3, <2>4
  <2>5. CASE ~Understood
    BY <2>1, <2>2, <2>3, <2>5
  <2> QED
    BY <2>4, <2>5
<1>9. CASE Redeliver
  <2>1. phase' = "ready" /\ redeliveries' = redeliveries + 1
        /\ (call' \in Creating <=> call \in Creating)
        /\ created' = created /\ lost' = lost
    BY <1>9 DEF Redeliver, Begin
  <2>2. outstanding' = outstanding + (IF phase = "sent" /\ call \in Creating THEN 1 ELSE 0)
    BY <1>9 DEF Redeliver
  <2> QED
    BY <2>1, <2>2
<1>10. CASE UNCHANGED vars
  BY <1>10 DEF vars, serviceVars
<1> QED
  BY <1>1, <1>2, <1>3, <1>4, <1>5, <1>6, <1>7, <1>8, <1>9, <1>10 DEF Next, Work

\* Creating requests of the last delivery that asked for a transcription, each of
\* which the service may have taken.
AskedByLast ==
    IF call \notin Creating THEN Attempts
    ELSE IF phase \in {"ready", "sent"} THEN attempt - 1 ELSE attempt

AskedInv ==
    /\ attempt <= Attempts
    /\ created + outstanding <= redeliveries * Attempts + AskedByLast

LEMMA OneMoreSlot ==
    ASSUME NEW n \in Nat, NEW s \in Nat
    PROVE  n * s + s = (n + 1) * s /\ n * s \in Nat
OBVIOUS

LEMMA AskedTypes ==
    ASSUME TypeOK
    PROVE  /\ created \in Nat /\ outstanding \in Nat /\ redeliveries \in Nat
           /\ attempt \in Nat \ {0} /\ Attempts \in Nat \ {0}
           /\ redeliveries * Attempts \in Nat
           /\ (redeliveries + 1) * Attempts = redeliveries * Attempts + Attempts
<1>1. /\ created \in Nat /\ outstanding \in Nat /\ redeliveries \in Nat
      /\ attempt \in Nat \ {0} /\ Attempts \in Nat \ {0}
  BY AttemptsAssumption, BoundsAssumption DEF TypeOK, Attempts
<1> QED
  BY <1>1, OneMoreSlot

LEMMA InitAsked == Init => AskedInv
<1> SUFFICES ASSUME Init PROVE AskedInv
  OBVIOUS
<1>1. TypeOK
  BY InitHeld DEF HeldInv
<1>2. call \in Creating
  BY CallTypes DEF Init
<1> QED
  BY <1>1, <1>2, AskedTypes DEF Init, AskedInv, AskedByLast

LEMMA NextAsked == TypeOK /\ AskedInv /\ [Next]_vars => AskedInv'
<1> SUFFICES ASSUME TypeOK, AskedInv, [Next]_vars PROVE AskedInv'
  OBVIOUS
<1>a. /\ created \in Nat /\ outstanding \in Nat /\ redeliveries \in Nat
      /\ attempt \in Nat \ {0} /\ Attempts \in Nat \ {0}
      /\ redeliveries * Attempts \in Nat
      /\ (redeliveries + 1) * Attempts = redeliveries * Attempts + Attempts
  BY AskedTypes
<1>b. Attempts' = Attempts
  BY DEF Next, Work, Send, Answered, Unusable, Refused, Throttled, Lost, Started, Poll,
         Fetch, Transcribed, Failed, Late, Redeliver, Conclude, SendAgain, vars, Attempts
<1>1. CASE Send
  BY <1>1, <1>a, <1>b DEF Send, AskedInv, AskedByLast, serviceVars
<1>2. CASE Answered \/ Unusable \/ Refused
  BY <1>2, <1>a, <1>b DEF Answered, Unusable, Refused, Conclude, AskedInv, AskedByLast, serviceVars
<1>3. CASE Throttled \/ Lost
  <2>1. \/ attempt' = attempt + 1 /\ phase' = "ready" /\ attempt < Attempts
        \/ attempt' = attempt /\ phase' = "answered"
    BY <1>3 DEF Throttled, Lost, SendAgain, Conclude
  <2>2. /\ UNCHANGED <<call, created, redeliveries>>
        /\ outstanding' = outstanding
           \/ outstanding' = outstanding + (IF call \in Creating THEN 1 ELSE 0)
        /\ phase = "sent"
    BY <1>3 DEF Throttled, Lost, SendAgain, Conclude, serviceVars
  <2> QED
    BY <2>1, <2>2, <1>a, <1>b DEF AskedInv, AskedByLast
<1>4. CASE Started \/ Poll \/ Fetch \/ Transcribed \/ Failed
  <2>1. UNCHANGED <<created, outstanding, redeliveries>> /\ phase = "answered"
    BY <1>4 DEF Started, Poll, Fetch, Transcribed, Failed, serviceVars
  <2>2. \/ call' \in {"status", "files", "content"} /\ attempt' = 1
        \/ call' = call /\ attempt' = attempt /\ phase' \notin {"ready", "sent"}
    BY <1>4 DEF Started, Poll, Fetch, Transcribed, Failed, Begin, End
  <2> QED
    BY <2>1, <2>2, <1>a, <1>b, CallTypes DEF AskedInv, AskedByLast
<1>5. CASE Late
  <2>1. /\ outstanding' = outstanding - 1 /\ (created' = created \/ created' = created + 1)
        /\ UNCHANGED <<redeliveries, call, phase, attempt>>
    BY <1>5 DEF Late
  <2>2. AskedByLast' = AskedByLast /\ AskedByLast \in Int
    BY <2>1, <1>a, <1>b DEF AskedByLast
  <2>3. redeliveries' * Attempts' = redeliveries * Attempts /\ AskedByLast' = AskedByLast
    BY <2>1, <2>2, <1>b
  <2>4. attempt' <= Attempts'
    BY <2>1, <1>b DEF AskedInv
  <2> DEFINE bound == redeliveries * Attempts
  <2>5. /\ created + outstanding <= bound + AskedByLast
        /\ bound \in Nat /\ created \in Nat /\ outstanding \in Nat
    BY <1>a DEF AskedInv
  <2> HIDE DEF bound
  <2>6. created' + outstanding' <= bound + AskedByLast
    BY <2>1, <2>2, <2>5
  <2> QED
    BY <2>3, <2>4, <2>6 DEF AskedInv, bound
<1>6. CASE Redeliver
  <2>1. /\ redeliveries' = redeliveries + 1 /\ attempt' = 1 /\ phase' = "ready"
        /\ created' = created
        /\ outstanding' = outstanding + (IF phase = "sent" /\ call \in Creating THEN 1 ELSE 0)
        /\ (call' \in Creating <=> call \in Creating)
    BY <1>6, CallTypes DEF Redeliver, Begin
  <2>2. redeliveries' * Attempts' = redeliveries * Attempts + Attempts
    BY <2>1, <1>a, <1>b
  <2>3. created' + outstanding' <= redeliveries * Attempts + Attempts
    BY <2>1, <1>a DEF AskedInv, AskedByLast
  <2> QED
    BY <2>1, <2>2, <2>3, <1>a, <1>b DEF AskedInv, AskedByLast
<1>7. CASE UNCHANGED vars
  BY <1>7 DEF vars, serviceVars, AskedInv, AskedByLast, Attempts
<1> QED
  BY <1>1, <1>2, <1>3, <1>4, <1>5, <1>6, <1>7 DEF Next, Work

\* Every transcription beyond the first is explained by a lost answer or by a
\* worker's death; and however many answers are lost or come late, a job costs at
\* most one transcription for each attempt of each delivery (start_transcription).
THEOREM OrphansAreExplainedCorrect == Spec => []OrphansAreExplained
<1>1. Init => OrphanInv
  BY CallTypes DEF Init, OrphanInv, Understood
<1>2. HeldInv /\ OrphanInv => created + outstanding <= lost + redeliveries + 1
  BY BoundsAssumption DEF HeldInv, TypeOK, OrphanInv
<1>3. TypeOK /\ AskedInv => created + outstanding <= (redeliveries + 1) * Attempts
  BY AskedTypes DEF AskedInv, AskedByLast
<1> QED
  BY <1>1, <1>2, <1>3, InitHeld, NextHeld, NextOrphan, TypeCorrect, InitAsked, NextAsked,
     PTL DEF Spec, OrphansAreExplained

-----------------------------------------------------------------------------
(* The requests implement Transcription *)

\* Only a status request finds a transcription running.
RunningInv == phase = "answered" /\ answer = "running" => call = "status"

LEMMA NextRunning == RunningInv /\ [Next]_vars => RunningInv'
BY DEF RunningInv, Next, Work, Send, Answered, Unusable, Refused, Throttled, Lost, Started,
       Poll, Fetch, Transcribed, Failed, Late, Redeliver, Conclude, SendAgain, Begin, End,
       vars, serviceVars

\* Each route makes its own requests; polls are counted from the first one on.
RouteInv ==
    /\ call \in Creating => call = FirstCall[route] /\ polls = 0
    /\ call \in {"files", "content"} => route = "batch"
    /\ call = "status" => route # "fast"

LEMMA RouteOfCall ==
    ASSUME TypeOK, RouteInv
    PROVE  /\ call = "transcribe" => route = "fast"
           /\ call = "submit" => route = "batch"
           /\ call = "analyze" => route = "contentUnderstanding"
BY CallTypes DEF TypeOK, RouteInv, FirstCall, Routes

LEMMA NextRoute == TypeOK /\ RouteInv /\ RunningInv /\ [Next]_vars => RouteInv'
<1> SUFFICES ASSUME TypeOK, RouteInv, RunningInv, [Next]_vars PROVE RouteInv'
  OBVIOUS
<1>1. CASE Started
  BY <1>1, RouteOfCall, CallTypes DEF Started, Begin, RouteInv
<1>2. CASE Poll
  BY <1>2, CallTypes DEF Poll, Begin, End, RouteInv, RunningInv
<1>3. CASE Fetch
  BY <1>3, CallTypes DEF Fetch, Begin, RouteInv
<1>4. CASE Redeliver
  BY <1>4, CallTypes DEF Redeliver, Begin, RouteInv
<1>5. CASE UNCHANGED <<route, call, polls>>
  BY <1>5 DEF RouteInv
<1> QED
  BY <1>1, <1>2, <1>3, <1>4, <1>5
     DEF Next, Work, Send, Answered, Unusable, Refused, Throttled, Lost, Transcribed, Failed,
         Late, Conclude, SendAgain, End, vars

\* A step that stays with its request, or with the fetching of the result.
LEMMA SameStage ==
    ASSUME UNCHANGED <<route, polls>>,
           phase \in {"ready", "sent", "answered"}, phase' \in {"ready", "sent", "answered"},
           call' = call \/ (call \in {"files", "content"} /\ call' \in {"files", "content"})
    PROVE  UNCHANGED Transcription!tvars
<1>1. Stage' = Stage
  BY CallTypes DEF Stage
<1> QED
  BY <1>1 DEF Transcription!tvars, Polled

LEMMA StepKeepsTranscription ==
    ASSUME HeldInv, RouteInv, RunningInv, Next
    PROVE  Transcription!TNext \/ UNCHANGED Transcription!tvars
<1>0. TypeOK /\ [r \in Routes |-> MaxPolls][route] = MaxPolls
  BY DEF HeldInv, TypeOK
<1> USE DEF Transcription!TNext, Transcription!Move, Stage, Polled
<1>1. CASE Send \/ Answered \/ Unusable \/ Refused \/ Throttled \/ Lost
  <2>1. UNCHANGED <<route, polls, call>>
    BY <1>1 DEF Send, Answered, Unusable, Refused, Throttled, Lost, Conclude, SendAgain
  <2>2. /\ phase \in {"ready", "sent", "answered"}
        /\ phase' \in {"ready", "sent", "answered"}
    BY <1>1 DEF Send, Answered, Unusable, Refused, Throttled, Lost, Conclude, SendAgain
  <2> QED
    BY <2>1, <2>2, SameStage
<1>2. CASE Started
  <2>1. /\ Stage = "asking" /\ Stage' = "polling" /\ polls' = 0 /\ Polled' = 0
        /\ route' = route /\ route # "fast"
    BY <1>0, <1>2, RouteOfCall, CallTypes DEF Started, Begin, RouteInv
  <2> QED
    BY <2>1 DEF Transcription!Hold
<1>3. CASE Poll
  <2>1. call = "status" /\ Stage = "polling" /\ route' = route /\ polls' = polls + 1
    BY <1>3, CallTypes DEF Poll, RunningInv
  <2>2. CASE polls + 1 < MaxPolls
    <3>1. Stage' = "polling" /\ Polled = polls /\ Polled' = polls + 1
      BY <1>3, <2>1, <2>2, CallTypes DEF Poll, Begin
    <3> QED
      BY <1>0, <2>1, <2>2, <3>1 DEF Transcription!PollAgain
  <2>3. CASE ~(polls + 1 < MaxPolls)
    <3>1. Stage' = "over" /\ Polled' = 0
      BY <1>3, <2>3 DEF Poll, End
    <3> QED
      BY <2>1, <3>1 DEF Transcription!Leave, Transcription!Stages
  <2> QED
    BY <2>2, <2>3
<1>4. CASE Fetch
  <2>1. CASE call = "status"
    <3>1. Stage = "polling" /\ Stage' = "fetching" /\ Polled' = 0 /\ route' = route
      BY <1>4, <2>1, CallTypes DEF Fetch, Begin
    <3> QED
      BY <1>4, <3>1 DEF Fetch, Transcription!Fetch
  <2>2. CASE call = "files"
    BY <1>4, <2>2, SameStage DEF Fetch, Begin
  <2> QED
    BY <1>4, <2>1, <2>2 DEF Fetch
<1>5. CASE Transcribed
  <2>1. Stage' = "transcribed" /\ Polled' = 0 /\ route' = route
    BY <1>5 DEF Transcribed, End
  <2>2. CASE call = "transcribe"
    <3>1. route = "fast" /\ Stage = "asking"
      BY <1>0, <1>5, <2>2, RouteOfCall, CallTypes DEF Transcribed
    <3> QED
      BY <2>1, <3>1 DEF Transcription!Deliver
  <2>3. CASE call = "content"
    <3>1. route = "batch" /\ Stage = "fetching"
      BY <1>5, <2>3, CallTypes DEF Transcribed, RouteInv
    <3> QED
      BY <2>1, <3>1 DEF Transcription!Deliver
  <2>4. CASE call = "status" /\ route = "contentUnderstanding"
    <3>1. Stage = "polling"
      BY <1>5, <2>4, CallTypes DEF Transcribed
    <3> QED
      BY <2>1, <2>4, <3>1 DEF Transcription!Deliver
  <2> QED
    BY <1>5, <2>2, <2>3, <2>4 DEF Transcribed
<1>6. CASE Failed
  <2>1. Stage \in {"asking", "polling", "fetching"} /\ Stage' = "over" /\ Polled' = 0
        /\ route' = route
    BY <1>6 DEF Failed, End
  <2> QED
    BY <2>1 DEF Transcription!Leave, Transcription!Stages
<1>7. CASE Late
  BY <1>7 DEF Late, Transcription!tvars
<1>8. CASE Redeliver
  BY <1>8, SameStage DEF Redeliver, Begin
<1> QED
  BY <1>1, <1>2, <1>3, <1>4, <1>5, <1>6, <1>7, <1>8 DEF Next, Work

\* However answers are lost, requests repeated and activities delivered again, the
\* clients and their activities implement Transcription, so that the orchestrator
\* may rely on it: one recording, one URL, polls that end, and a transcript that
\* belongs to them (start_transcription, poll_transcription, the poll loop).
THEOREM TranscriptionCorrect == Spec => TranscriptionKept
<1>1. Init => RouteInv /\ RunningInv
  BY CallTypes DEF Init, RouteInv, RunningInv
<1>2. Init => Transcription!TInit
  BY CallTypes DEF Init, Transcription!TInit, Stage, Polled, Routes
<1>3. HeldInv /\ RouteInv /\ RunningInv /\ [Next]_vars => [Transcription!TNext]_Transcription!tvars
  <2>1. UNCHANGED vars => UNCHANGED Transcription!tvars
    BY DEF vars, Transcription!tvars, Stage, Polled
  <2> QED
    BY <2>1, StepKeepsTranscription
<1>4. HeldInv /\ RouteInv /\ RunningInv /\ [Next]_vars => RouteInv' /\ RunningInv'
  BY NextRoute, NextRunning DEF HeldInv
<1> QED
  BY <1>1, <1>2, <1>3, <1>4, InitHeld, NextHeld, PTL DEF Spec, TranscriptionKept, Transcription!TSpec

-----------------------------------------------------------------------------
(* The job leaves the transcription *)

PhaseRank == CASE phase = "ready" -> 3 [] phase = "sent" -> 2
               [] phase = "answered" -> 1 [] OTHER -> 0

CallRank == CASE call \in Creating -> 3 [] call = "status" -> 2
              [] call = "files" -> 1 [] OTHER -> 0

\* How far the job is from the end of its transcription, the weightiest part first.
Rank == <<MaxRedeliveries - redeliveries, CallRank, MaxPolls - polls,
          MaxAttempts - attempt, PhaseRank, outstanding>>

\* Every step lowers the rank: no order of lost and late answers, polls and worker
\* deaths goes on for ever.  With DescentEnds it is the safety half of
\* TranscriptionEnds.
EveryStepDescends == [][(<<Rank', Rank>> \in Descent(6))]_vars

LEMMA RankType ==
    ASSUME TypeOK
    PROVE  /\ MaxRedeliveries - redeliveries \in Nat /\ CallRank \in Nat
           /\ MaxPolls - polls \in Nat /\ MaxAttempts - attempt \in Nat
           /\ PhaseRank \in Nat /\ outstanding \in Nat
           /\ MaxRedeliveries \in Nat /\ redeliveries \in Nat
           /\ MaxPolls \in Nat /\ polls \in Nat
           /\ MaxAttempts \in Nat /\ attempt \in Nat
BY AttemptsAssumption, BoundsAssumption DEF TypeOK, CallRank, PhaseRank

LEMMA StepDescends == TypeOK /\ TypeOK' /\ RunningInv /\ Next => <<Rank', Rank>> \in Descent(6)
<1> SUFFICES ASSUME TypeOK, TypeOK', RunningInv, Next PROVE <<Rank', Rank>> \in Descent(6)
  OBVIOUS
<1> DEFINE a == MaxRedeliveries - redeliveries
           c == MaxPolls - polls
           d == MaxAttempts - attempt
<1>a. /\ a \in Nat /\ CallRank \in Nat /\ c \in Nat /\ d \in Nat
      /\ PhaseRank \in Nat /\ outstanding \in Nat
      /\ redeliveries \in Nat /\ polls \in Nat /\ attempt \in Nat
      /\ MaxRedeliveries \in Nat /\ MaxPolls \in Nat /\ MaxAttempts \in Nat
  BY RankType
<1>b. (/\ a \in Nat /\ CallRank \in Nat /\ c \in Nat /\ d \in Nat
       /\ PhaseRank \in Nat /\ outstanding \in Nat)'
  BY RankType, PTL
<1>c. ASSUME \/ a' < a
             \/ a' = a /\ CallRank' < CallRank
             \/ a' = a /\ CallRank' = CallRank /\ c' < c
             \/ a' = a /\ CallRank' = CallRank /\ c' = c /\ d' < d
             \/ a' = a /\ CallRank' = CallRank /\ c' = c /\ d' = d /\ PhaseRank' < PhaseRank
             \/ /\ a' = a /\ CallRank' = CallRank /\ c' = c /\ d' = d /\ PhaseRank' = PhaseRank
                /\ outstanding' < outstanding
      PROVE  <<Rank', Rank>> \in Descent(6)
  <2>1. /\ Rank = <<a, CallRank, c, d, PhaseRank, outstanding>>
        /\ Rank' = <<a', CallRank', c', d', PhaseRank', outstanding'>>
    BY DEF Rank
  <2>2. /\ a' \in Nat /\ CallRank' \in Nat /\ c' \in Nat /\ d' \in Nat
        /\ PhaseRank' \in Nat /\ outstanding' \in Nat
    BY <1>b
  <2> HIDE DEF a, c, d
  <2>3. Rank \in Ranks(6) /\ Rank' \in Ranks(6)
    BY <1>a, <2>1, <2>2 DEF Ranks
  <2> QED
    BY <1>c, <2>1, <2>3, Lower6
<1>1. CASE Send \/ Answered \/ Unusable \/ Refused \/ Transcribed \/ Failed
  <2>1. UNCHANGED <<redeliveries, call, polls, attempt>> /\ PhaseRank' < PhaseRank
    BY <1>1 DEF Send, Answered, Unusable, Refused, Transcribed, Failed, Conclude, End, PhaseRank
  <2> QED
    BY <2>1, <1>c DEF CallRank
<1>2. CASE Throttled \/ Lost
  <2>1. /\ UNCHANGED <<redeliveries, call, polls>>
        /\ \/ attempt' = attempt + 1
           \/ attempt' = attempt /\ PhaseRank' < PhaseRank
    BY <1>2 DEF Throttled, Lost, SendAgain, Conclude, PhaseRank
  <2>2. UNCHANGED <<a, CallRank, c>> /\ (d' < d \/ (d' = d /\ PhaseRank' < PhaseRank))
    BY <2>1, <1>a DEF CallRank
  <2> QED
    BY <2>2, <1>c
<1>3. CASE Started \/ Fetch
  <2>1. UNCHANGED redeliveries /\ CallRank' < CallRank
    BY <1>3, CallTypes DEF Started, Fetch, Begin, CallRank
  <2> QED
    BY <2>1, <1>c
<1>4. CASE Poll
  <2>1. call = "status" /\ UNCHANGED <<redeliveries, call>> /\ polls' = polls + 1
    BY <1>4 DEF Poll, Begin, End, RunningInv
  <2>2. UNCHANGED <<a, CallRank>> /\ c' < c
    BY <2>1, <1>a DEF CallRank
  <2> QED
    BY <2>2, <1>c
<1>5. CASE Late
  <2>1. UNCHANGED <<redeliveries, call, polls, attempt, phase>> /\ outstanding' < outstanding
    BY <1>5, <1>a DEF Late
  <2> QED
    BY <2>1, <1>c DEF CallRank, PhaseRank
<1>6. CASE Redeliver
  <2>1. a' < a
    BY <1>6, <1>a DEF Redeliver
  <2> QED
    BY <2>1, <1>c
<1> QED
  BY <1>1, <1>2, <1>3, <1>4, <1>5, <1>6 DEF Next, Work

\* Polls, attempts, deliveries and late answers are used up, whatever the services
\* do (start_transcription, the poll loop of the orchestrator, the activities).
THEOREM EveryStepDescendsCorrect == Spec => EveryStepDescends
<1>1. Init => RunningInv
  BY DEF Init, RunningInv
<1>2. TypeOK /\ TypeOK' /\ RunningInv /\ [Next]_vars => [(<<Rank', Rank>> \in Descent(6))]_vars
  BY StepDescends
<1> QED
  BY <1>1, <1>2, NextRunning, TypeCorrect, PTL DEF Spec, EveryStepDescends
=============================================================================
