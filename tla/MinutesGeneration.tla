-------------------------- MODULE MinutesGeneration --------------------------
(***************************************************************************)
(* One execution of GenerateFinalMinutesActivity: how the minutes are      *)
(* obtained from the language model.                                       *)
(*                                                                         *)
(* The whole transcript is sent first.  If the minutes that come back do   *)
(* not conform to minutes.schema.json, the model is asked once to repair   *)
(* them.  If that way fails with an error that smaller requests may cure,  *)
(* each chunk of the transcript is summarised and the summaries are merged *)
(* into minutes, again with one repair.  Every request of generate_json is *)
(* repeated while the service is busy or out of reach.                     *)
(*                                                                         *)
(* A phrase is the time it starts and ends at, a chunk the indexes of its  *)
(* first and last phrase.                                                  *)
(*                                                                         *)
(* Waiting times, prompts and the minutes themselves are left out.  That   *)
(* a worker may die and the activity run again is in JobLifecycle.         *)
(***************************************************************************)
EXTENDS Naturals, Sequences

CONSTANTS
    MaxAttempts,     \* 6: DEFAULT_BACKOFF_SECONDS and the last attempt
    TargetDuration,  \* target_duration_milliseconds
    Transcripts      \* bound of the model: the normalized transcripts there may be

Phrase == [start : Nat, end : Nat]

ASSUME AttemptsAssumption == MaxAttempts \in Nat \ {0}
ASSUME TargetAssumption == TargetDuration \in Nat
ASSUME TranscriptsAssumption == Transcripts \subseteq Seq(Phrase)

VARIABLES
    phrases,    \* the phrases of the normalized transcript
    next,       \* the phrase build_transcript_chunks looks at
    first,      \* the first one of current; current is first .. next - 1
    chunks,     \* the chunks made so far
    stage,      \* which way is tried, or how it ended
    repairing,  \* the request in progress asks for a repair
    attempt,    \* attempt_count of the generate_json in progress
    summaries,  \* chunk summaries made so far
    error,      \* the last error that left a generate_json, or "none"
    requests,   \* calls of chat.completions.create by this execution
    draft,      \* the object the last request was answered with, or "none"
    minutes     \* what minutes.json holds, or "none"

cutVars == <<next, first, chunks>>
vars == <<phrases, cutVars, stage, repairing, attempt, summaries, error, requests,
          draft, minutes>>

\* What a request is answered with.  busy: 429 or 5xx.  tooLarge: 400 or 413, the
\* prompt is too long.  promptBlocked: 400 as well, the filter blocked the prompt.
\* filtered: the filter cut the answer off (finish_reason).  denied: any other
\* status.
Retryable == {"busy", "network"}
Unusable == {"truncated", "filtered", "empty", "notJson", "notObject", "tooLarge",
             "promptBlocked", "denied"}

\* A JSON object: minutes that conform once they are normalized, that do not,
\* or that normalize_minutes_for_save cannot even read.
Objects == {"conforming", "nonconforming", "unreadable"}

Errors == Retryable \cup Unusable \cup {"schemaViolation", "unreadable", "storage"}

Chunk == [first : Nat, last : Nat]

TypeOK ==
    /\ phrases \in Transcripts
    /\ next \in 1..(Len(phrases) + 1)
    /\ first \in 1..next
    /\ chunks \in Seq(Chunk)
    /\ stage \in {"full", "cut", "chunks", "merge", "store", "stored", "failed"}
    /\ repairing \in BOOLEAN
    /\ attempt \in 1..MaxAttempts
    /\ summaries \in 0..Len(chunks)
    /\ error \in Errors \cup {"none"}
    /\ requests \in Nat
    /\ draft \in Objects \cup {"none"}
    /\ minutes \in Objects \cup {"none"}

Init ==
    /\ phrases \in Transcripts
    /\ next = 1
    /\ first = 1
    /\ chunks = <<>>
    /\ stage = "full"
    /\ repairing = FALSE
    /\ attempt = 1
    /\ summaries = 0
    /\ error = "none"
    /\ requests = 0
    /\ draft = "none"
    /\ minutes = "none"

\* A request is on its way.
Generating == stage \in {"full", "chunks", "merge"} /\ draft = "none"

\* Mutant: every error of the model service is taken for a recoverable one.
ShouldFallbackAlways(e) == e \in Errors \ {"unreadable", "storage"}

\* _should_fallback_to_chunk_minutes, which sees the status 400 and not its cause.
ShouldFallbackToChunkMinutes(e) ==
    e \in {"schemaViolation", "truncated", "notJson", "tooLarge", "promptBlocked"}

-----------------------------------------------------------------------------
(* generate_json *)

\* Mutant: after the last attempt the first one follows.
RetryForever ==
    /\ Generating
    /\ attempt' = IF attempt < MaxAttempts THEN attempt + 1 ELSE 1
    /\ UNCHANGED <<phrases, cutVars, stage, repairing, summaries, error, requests,
                   draft, minutes>>

\* The service is busy or out of reach: try again after a pause.
Retry ==
    /\ Generating
    /\ attempt < MaxAttempts
    /\ attempt' = attempt + 1
    /\ requests' = requests + 1
    /\ UNCHANGED <<phrases, cutVars, stage, repairing, summaries, error, draft,
                   minutes>>

\* An error that leaves the pipeline: the full transcript gives way to its
\* chunks if e is one of those errors; everything else leaves the activity.
Raise(e) ==
    /\ error' = e
    /\ repairing' = FALSE
    /\ attempt' = 1
    /\ draft' = "none"
    /\ stage' = IF stage = "full" /\ ShouldFallbackToChunkMinutes(e)
                  THEN "cut" ELSE "failed"
    /\ UNCHANGED <<phrases, cutVars, summaries, minutes>>

\* The answer is unusable, or this was the last attempt.
GenerateJsonFails ==
    /\ Generating
    /\ \E e \in Unusable \cup Retryable :
          /\ e \in Retryable => attempt = MaxAttempts
          /\ Raise(e)
    /\ requests' = requests + 1

\* generate_json returns an object.
GenerateJson ==
    /\ Generating
    /\ draft' \in Objects
    /\ requests' = requests + 1
    /\ UNCHANGED <<phrases, cutVars, stage, repairing, attempt, summaries, error,
                   minutes>>

-----------------------------------------------------------------------------
(* build_transcript_chunks *)

Current == [first |-> first, last |-> next - 1]

\* Mutant: the limit is compared with where the next phrase starts.
CutChunkByStart ==
    /\ stage = "cut"
    /\ next <= Len(phrases)
    /\ IF first < next /\ phrases[next].start > phrases[first].start + TargetDuration
         THEN chunks' = Append(chunks, Current) /\ first' = next
         ELSE UNCHANGED <<chunks, first>>
    /\ next' = next + 1
    /\ UNCHANGED <<phrases, stage, repairing, attempt, summaries, error, requests,
                   draft, minutes>>

\* One turn of the loop: the next phrase closes current if it would make it too
\* long, and is put into current, which may be empty.
CutChunk ==
    /\ stage = "cut"
    /\ next <= Len(phrases)
    /\ IF first < next /\ phrases[next].end > phrases[first].start + TargetDuration
         THEN chunks' = Append(chunks, Current) /\ first' = next
         ELSE UNCHANGED <<chunks, first>>
    /\ next' = next + 1
    /\ UNCHANGED <<phrases, stage, repairing, attempt, summaries, error, requests,
                   draft, minutes>>

\* Mutant: what is in current after the loop is forgotten.
CutEndsWithoutLast ==
    /\ stage = "cut"
    /\ next > Len(phrases)
    /\ first' = next
    /\ stage' = IF chunks = <<>> THEN "merge" ELSE "chunks"
    /\ UNCHANGED <<phrases, next, chunks, repairing, attempt, summaries, error,
                   requests, draft, minutes>>

\* After the loop current is the last chunk.  A transcript without phrases has
\* no chunks, and its summaries are merged at once.
CutEnds ==
    /\ stage = "cut"
    /\ next > Len(phrases)
    /\ chunks' = IF first < next THEN Append(chunks, Current) ELSE chunks
    /\ first' = next
    /\ stage' = IF chunks' = <<>> THEN "merge" ELSE "chunks"
    /\ UNCHANGED <<phrases, next, repairing, attempt, summaries, error, requests,
                   draft, minutes>>

-----------------------------------------------------------------------------
(* What is done with the object *)

\* Mutant: the index of the last chunk is missed.
SummarizeOneMore ==
    /\ stage = "chunks"
    /\ draft # "none"
    /\ summaries' = summaries + 1
    /\ stage' = IF summaries = Len(chunks) THEN "merge" ELSE "chunks"
    /\ attempt' = 1
    /\ draft' = "none"
    /\ UNCHANGED <<phrases, cutVars, repairing, error, requests, minutes>>

\* generate_chunk_summary takes any object for a summary.
SummarizeChunk ==
    /\ stage = "chunks"
    /\ draft # "none"
    /\ summaries' = summaries + 1
    /\ stage' = IF summaries + 1 = Len(chunks) THEN "merge" ELSE "chunks"
    /\ attempt' = 1
    /\ draft' = "none"
    /\ UNCHANGED <<phrases, cutVars, repairing, error, requests, minutes>>

\* Mutant: repaired minutes are not validated again.
AcceptRepaired ==
    /\ stage \in {"full", "merge"}
    /\ draft = "conforming" \/ (repairing /\ draft # "none")
    /\ stage' = "store"
    /\ UNCHANGED <<phrases, cutVars, repairing, attempt, summaries, error, requests,
                   draft, minutes>>

\* The minutes conform.
Accept ==
    /\ stage \in {"full", "merge"}
    /\ draft = "conforming"
    /\ stage' = "store"
    /\ UNCHANGED <<phrases, cutVars, repairing, attempt, summaries, error, requests,
                   draft, minutes>>

\* Mutant: minutes that do not conform are repaired until they do.
RepairAgain ==
    /\ stage \in {"full", "merge"}
    /\ draft = "nonconforming"
    /\ repairing' = TRUE
    /\ attempt' = 1
    /\ draft' = "none"
    /\ UNCHANGED <<phrases, cutVars, stage, summaries, error, requests, minutes>>

\* The first minutes that do not conform are sent back to be repaired.
Repair ==
    /\ stage \in {"full", "merge"}
    /\ draft = "nonconforming"
    /\ ~repairing
    /\ repairing' = TRUE
    /\ attempt' = 1
    /\ draft' = "none"
    /\ UNCHANGED <<phrases, cutVars, stage, summaries, error, requests, minutes>>

\* Repaired minutes that do not conform raise MINUTES_SCHEMA_VALIDATION_FAILED,
\* unreadable ones a TypeError, which is no AppError.
Reject ==
    /\ stage \in {"full", "merge"}
    /\ \/ draft = "nonconforming" /\ repairing /\ Raise("schemaViolation")
       \/ draft = "unreadable" /\ Raise("unreadable")
    /\ UNCHANGED requests

\* store.write_json
Store ==
    /\ stage = "store"
    /\ \/ /\ stage' = "stored"
          /\ minutes' = draft
          /\ UNCHANGED error
       \/ /\ stage' = "failed"
          /\ error' = "storage"
          /\ UNCHANGED minutes
    /\ UNCHANGED <<phrases, cutVars, repairing, attempt, summaries, requests,
                   draft>>

Next == \/ Retry \/ GenerateJsonFails \/ GenerateJson
        \/ CutChunk \/ CutEnds \/ SummarizeChunk
        \/ Accept \/ Repair \/ Reject \/ Store

Spec == Init /\ [][Next]_vars

\* Every request settles: the OpenAI client has a timeout of its own (and
\* retries of its own, which are not counted here).
FairSpec == Spec /\ WF_vars(Next)

-----------------------------------------------------------------------------
(* Properties *)

\* minutes.json is written only with minutes that were validated in the form in
\* which they are stored, whether they were repaired or merged from summaries.
StoredConforms == minutes \in {"none", "conforming"}

\* The budget of an activity: each of the two ways asks for minutes and at most
\* once for a repair, no phrase costs more than one summary, and each of these
\* requests is repeated a bounded number of times.
RequestsAreBounded == requests <= MaxAttempts * (4 + Len(phrases))

\* Minutes are merged from summaries of the whole transcript: every phrase lies in
\* a chunk that has been summarised, the chunks follow each other as the phrases
\* do, and none is summarised twice.
MergeIsComplete ==
    stage = "merge" =>
        /\ summaries = Len(chunks)
        /\ \A p \in 1..Len(phrases) :
              \E i \in 1..Len(chunks) : chunks[i].first <= p /\ p <= chunks[i].last
        /\ \A i \in 1..Len(chunks), j \in 1..Len(chunks) :
              i < j => chunks[i].last < chunks[j].first

\* No phrase but the first of a chunk ends later than the target after the start
\* of the chunk, in whatever order and however overlapping the phrases come.
ChunksFit ==
    \A i \in 1..Len(chunks) :
        \A p \in (chunks[i].first + 1)..chunks[i].last :
            phrases[p].end <= phrases[chunks[i].first].start + TargetDuration

\* What the service does not want is not repeated.  An answer that the filter cut
\* off, or a status other than 400 and 413, ends the activity.  After a 400 or 413
\* the whole transcript is not sent again, but its chunks are: also when the status
\* says that the filter blocked the prompt, which is then sent in parts.
RefusedIsNotRepeated ==
    [][/\ error \in {"filtered", "denied"} => requests' = requests
       /\ error \in {"tooLarge", "promptBlocked"} /\ requests' # requests =>
             stage \in {"chunks", "merge"}]_vars

\* The activity ends, whatever the model answers.
GenerationEnds == <>(stage \in {"stored", "failed"})
=============================================================================
