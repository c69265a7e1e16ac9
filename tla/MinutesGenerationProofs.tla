----------------------- MODULE MinutesGenerationProofs -----------------------
(***************************************************************************)
(* Proofs about MinutesGeneration for every number of attempts and every   *)
(* transcript: its types, that only validated minutes are stored, that the *)
(* chunks cover the transcript and fit, that the number of requests is     *)
(* bounded, and that what the service refused is not repeated.             *)
(***************************************************************************)
EXTENDS MinutesGeneration, Descent

-----------------------------------------------------------------------------
(* Types and conformity *)

\* The summaries are only begun with chunks to be summarised, and merged when
\* there is one of each; what waits to be stored conforms.
SafeInv ==
    /\ TypeOK
    /\ stage = "full" => chunks = <<>> /\ next = 1 /\ first = 1
    /\ stage \in {"full", "cut"} => summaries = 0
    /\ stage = "cut" => attempt = 1 /\ draft = "none" /\ ~repairing
    /\ stage = "chunks" => summaries < Len(chunks)
    /\ stage = "merge" => summaries = Len(chunks)
    /\ stage \in {"store", "stored"} => draft = "conforming"
    /\ StoredConforms

LEMMA TranscriptType ==
    ASSUME TypeOK
    PROVE  /\ Len(phrases) \in Nat /\ next \in Nat /\ first \in Nat
           /\ Len(chunks) \in Nat
           /\ \A p \in 1..Len(phrases) :
                 phrases[p].start \in Nat /\ phrases[p].end \in Nat
<1>1. phrases \in Seq(Phrase)
  BY TranscriptsAssumption DEF TypeOK
<1>2. Len(phrases) \in Nat /\ \A p \in 1..Len(phrases) : phrases[p] \in Phrase
  BY <1>1
<1>3. next \in 1..(Len(phrases) + 1) /\ first \in 1..next /\ chunks \in Seq(Chunk)
  BY DEF TypeOK
<1>4. next \in Nat
  BY <1>2, <1>3
<1>5. first \in Nat
  BY <1>3, <1>4
<1>6. Len(chunks) \in Nat
  BY <1>3
<1>7. \A p \in 1..Len(phrases) : phrases[p].start \in Nat /\ phrases[p].end \in Nat
  BY <1>2 DEF Phrase
<1> QED
  BY <1>2, <1>4, <1>5, <1>6, <1>7

LEMMA InitSafe == Init => SafeInv
<1> SUFFICES ASSUME Init PROVE SafeInv
  OBVIOUS
<1>1. 1 \in 1..MaxAttempts
  BY AttemptsAssumption
<1>2. phrases \in Seq(Phrase) /\ Len(phrases) \in Nat /\ <<>> \in Seq(Chunk)
  BY TranscriptsAssumption DEF Init
<1>3. 1 \in 1..(Len(phrases) + 1) /\ 1 \in 1..1 /\ Len(<<>>) = 0
  BY <1>2
<1>4. next \in 1..(Len(phrases) + 1) /\ first \in 1..next /\ summaries \in 0..Len(chunks)
  BY <1>3 DEF Init
<1> QED
  BY <1>1, <1>2, <1>4 DEF Init, SafeInv, TypeOK, StoredConforms

\* Raise(e) keeps SafeInv when no minutes are being stored.
LEMMA RaiseSafe ==
    ASSUME SafeInv, stage \in {"full", "chunks", "merge"}, NEW e \in Errors,
           Raise(e), requests' \in Nat
    PROVE  SafeInv'
<1>1. 1 \in 1..MaxAttempts
  BY AttemptsAssumption
<1>2. stage' \in {"cut", "failed"} /\ (stage' = "cut" => summaries' = 0)
  BY DEF SafeInv, TypeOK, Raise
<1> QED
  BY <1>1, <1>2 DEF SafeInv, TypeOK, StoredConforms, Raise, cutVars

\* Current is a chunk, and one more chunk leaves no summary behind.
LEMMA AppendCurrent ==
    ASSUME TypeOK, summaries = 0
    PROVE  /\ Append(chunks, Current) \in Seq(Chunk)
           /\ Len(Append(chunks, Current)) = Len(chunks) + 1
           /\ summaries \in 0..Len(Append(chunks, Current))
<1>1. Current \in Chunk /\ chunks \in Seq(Chunk) /\ Len(chunks) \in Nat
  BY TranscriptType DEF TypeOK, Current, Chunk
<1> QED
  BY <1>1

LEMMA NextSafe == SafeInv /\ [Next]_vars => SafeInv'
<1> SUFFICES ASSUME SafeInv, [Next]_vars PROVE SafeInv'
  OBVIOUS
<1> USE AttemptsAssumption
<1>a. Len(chunks) \in Nat /\ Len(phrases) \in Nat
  BY TranscriptType DEF SafeInv
<1>1. CASE Retry
  BY <1>1 DEF Retry, Generating, SafeInv, TypeOK, StoredConforms, cutVars
<1>2. CASE GenerateJsonFails
  <2>1. PICK e \in Unusable \cup Retryable : Raise(e)
    BY <1>2 DEF GenerateJsonFails
  <2>2. e \in Errors /\ requests' \in Nat /\ stage \in {"full", "chunks", "merge"}
    BY <1>2 DEF GenerateJsonFails, Generating, Errors, SafeInv, TypeOK
  <2> QED
    BY <2>1, <2>2, RaiseSafe
<1>3. CASE GenerateJson
  BY <1>3 DEF GenerateJson, Generating, SafeInv, TypeOK, StoredConforms, cutVars
<1>4. CASE SummarizeChunk
  <2>1. summaries + 1 \in 0..Len(chunks)
    BY <1>4, <1>a DEF SummarizeChunk, SafeInv, TypeOK
  <2> QED
    BY <2>1, <1>a, <1>4 DEF SummarizeChunk, SafeInv, TypeOK, StoredConforms, cutVars
<1>5. CASE Accept
  BY <1>5 DEF Accept, SafeInv, TypeOK, StoredConforms, cutVars
<1>6. CASE Repair
  BY <1>6 DEF Repair, SafeInv, TypeOK, StoredConforms, cutVars
<1>7. CASE Reject
  <2>1. PICK e \in {"schemaViolation", "unreadable"} : Raise(e)
    BY <1>7 DEF Reject
  <2>2. e \in Errors /\ requests' \in Nat /\ stage \in {"full", "chunks", "merge"}
    BY <1>7 DEF Reject, Errors, SafeInv, TypeOK
  <2> QED
    BY <2>1, <2>2, RaiseSafe
<1>8. CASE Store
  BY <1>8 DEF Store, SafeInv, TypeOK, StoredConforms, Errors, Objects, cutVars
<1>9. CASE CutChunk
  <2>1. next' \in 1..(Len(phrases) + 1) /\ first' \in 1..next'
    BY <1>9, <1>a DEF CutChunk, SafeInv, TypeOK
  <2>2. chunks' \in Seq(Chunk) /\ summaries' = 0 /\ summaries' \in 0..Len(chunks')
    BY <1>9, AppendCurrent DEF CutChunk, SafeInv, TypeOK
  <2> QED
    BY <2>1, <2>2, <1>9 DEF CutChunk, SafeInv, TypeOK, StoredConforms
<1>10. CASE CutEnds
  <2>1. first' \in 1..next'
    BY <1>10, <1>a DEF CutEnds, SafeInv, TypeOK
  <2>2. chunks' \in Seq(Chunk) /\ summaries' = 0 /\ summaries' \in 0..Len(chunks')
    BY <1>10, AppendCurrent DEF CutEnds, SafeInv, TypeOK
  <2>3. (chunks' = <<>>) <=> Len(chunks') = 0
    BY <2>2
  <2>4. Len(chunks') \in Nat
    BY <2>2
  <2> QED
    BY <2>1, <2>2, <2>3, <2>4, <1>10 DEF CutEnds, SafeInv, TypeOK, StoredConforms
<1>11. CASE UNCHANGED vars
  BY <1>11 DEF vars, cutVars, SafeInv, TypeOK, StoredConforms
<1> QED
  BY <1>1, <1>2, <1>3, <1>4, <1>5, <1>6, <1>7, <1>8, <1>9, <1>10, <1>11 DEF Next

LEMMA SafeInvariant == Spec => []SafeInv
BY InitSafe, NextSafe, PTL DEF Spec

\* The state stays within its types (every handler of generate_final_minutes).
THEOREM TypeCorrect == Spec => []TypeOK
<1>1. SafeInv => TypeOK
  BY DEF SafeInv
<1> QED
  BY <1>1, SafeInvariant, PTL

\* Whatever the model answers, minutes.json only ever holds minutes that were
\* validated (_generate_and_validate_minutes).
THEOREM StoredConformsCorrect == Spec => []StoredConforms
<1>1. SafeInv => StoredConforms
  BY DEF SafeInv
<1> QED
  BY <1>1, SafeInvariant, PTL

-----------------------------------------------------------------------------
(* The chunks *)

\* Every phrase before current lies in a chunk.
Covered ==
    \A p \in 1..(first - 1) :
        \E i \in 1..Len(chunks) : chunks[i].first <= p /\ p <= chunks[i].last

\* The chunks follow each other, and current follows them.
InOrder ==
    /\ Len(chunks) < first
    /\ \A i \in 1..Len(chunks) : chunks[i].last < first
    /\ \A i \in 1..Len(chunks), j \in 1..Len(chunks) :
          i < j => chunks[i].last < chunks[j].first

\* Current is within the target already.
CurrentFits ==
    \A p \in (first + 1)..(next - 1) :
        phrases[p].end <= phrases[first].start + TargetDuration

CutInv ==
    /\ stage \in {"chunks", "merge"} => first = Len(phrases) + 1
    /\ Covered
    /\ InOrder
    /\ CurrentFits
    /\ ChunksFit

LEMMA InitCut == Init => CutInv
BY DEF Init, CutInv, Covered, InOrder, CurrentFits, ChunksFit

\* Current becomes a chunk, and what follows it the new current.
LEMMA AppendCut ==
    ASSUME SafeInv, CutInv, stage = "cut", first < next, UNCHANGED phrases,
           chunks' = Append(chunks, Current), first' = next
    PROVE  Covered' /\ InOrder' /\ ChunksFit'
<1> DEFINE n == Len(chunks)
<1>1. /\ n \in Nat /\ first \in Nat /\ next \in Nat
      /\ chunks \in Seq(Chunk) /\ Current \in Chunk
  BY TranscriptType DEF SafeInv, TypeOK, Current, Chunk
<1>2. /\ Len(chunks') = n + 1
      /\ chunks'[n + 1] = Current
      /\ \A i \in 1..n : chunks'[i] = chunks[i] /\ chunks[i] \in Chunk
  BY <1>1
<1>3. Current.first = first /\ Current.last = next - 1
  BY DEF Current
<1>4. Covered'
  <2> SUFFICES ASSUME NEW p \in 1..(next - 1)
               PROVE  \E i \in 1..(n + 1) : chunks'[i].first <= p /\ p <= chunks'[i].last
    BY <1>2 DEF Covered
  <2>1. CASE p < first
    <3>1. PICK i \in 1..n : chunks[i].first <= p /\ p <= chunks[i].last
      BY <2>1, <1>1 DEF CutInv, Covered
    <3> QED
      BY <3>1, <1>1, <1>2
  <2>2. CASE ~(p < first)
    <3>1. chunks'[n + 1].first <= p /\ p <= chunks'[n + 1].last
      BY <2>2, <1>1, <1>2, <1>3
    <3> QED
      BY <3>1, <1>1
  <2> QED
    BY <2>1, <2>2
<1>5. InOrder'
  <2>1. n + 1 < next
    BY <1>1 DEF CutInv, InOrder
  <2>2. \A i \in 1..(n + 1) : chunks'[i].last < next
    <3> TAKE i \in 1..(n + 1)
    <3>1. CASE i = n + 1
      BY <3>1, <1>1, <1>2, <1>3
    <3>2. CASE i \in 1..n
      <4>1. chunks[i].last < first /\ chunks[i].last \in Nat
        BY <3>2, <1>2 DEF CutInv, InOrder, Chunk
      <4> QED
        BY <4>1, <3>2, <1>1, <1>2
    <3> QED
      BY <3>1, <3>2, <1>1
  <2>3. \A i \in 1..(n + 1), j \in 1..(n + 1) :
           i < j => chunks'[i].last < chunks'[j].first
    <3> SUFFICES ASSUME NEW i \in 1..(n + 1), NEW j \in 1..(n + 1), i < j
                 PROVE  chunks'[i].last < chunks'[j].first
      OBVIOUS
    <3>1. i \in 1..n /\ chunks'[i].last = chunks[i].last
      BY <1>1, <1>2
    <3>2. CASE j = n + 1
      BY <3>1, <3>2, <1>2, <1>3 DEF CutInv, InOrder
    <3>3. CASE j \in 1..n
      BY <3>1, <3>3, <1>2 DEF CutInv, InOrder
    <3> QED
      BY <3>2, <3>3, <1>1
  <2> QED
    BY <2>1, <2>2, <2>3, <1>2 DEF InOrder
<1>6. ChunksFit'
  <2> SUFFICES ASSUME NEW i \in 1..(n + 1),
                      NEW p \in (chunks'[i].first + 1)..chunks'[i].last
               PROVE  phrases[p].end
                        <= phrases[chunks'[i].first].start + TargetDuration
    BY <1>2 DEF ChunksFit
  <2>1. CASE i = n + 1
    BY <2>1, <1>2, <1>3 DEF CutInv, CurrentFits
  <2>2. CASE i \in 1..n
    BY <2>2, <1>2 DEF CutInv, ChunksFit
  <2> QED
    BY <2>1, <2>2, <1>1
<1> QED
  BY <1>4, <1>5, <1>6

LEMMA NextCut == SafeInv /\ CutInv /\ [Next]_vars => CutInv'
<1> SUFFICES ASSUME SafeInv, CutInv, [Next]_vars PROVE CutInv'
  OBVIOUS
<1>a. /\ Len(phrases) \in Nat /\ next \in Nat /\ first \in Nat
      /\ \A p \in 1..Len(phrases) :
            phrases[p].start \in Nat /\ phrases[p].end \in Nat
      /\ first \in 1..next /\ next \in 1..(Len(phrases) + 1)
  BY TranscriptType DEF SafeInv, TypeOK
<1>1. CASE CutChunk
  <2>1. CASE first < next /\ phrases[next].end > phrases[first].start + TargetDuration
    <3>1. Covered' /\ InOrder' /\ ChunksFit'
      BY <1>1, <2>1, AppendCut DEF CutChunk
    <3>2. CurrentFits'
      BY <1>1, <2>1, <1>a DEF CutChunk, CurrentFits
    <3> QED
      BY <3>1, <3>2, <1>1 DEF CutInv, CutChunk
  <2>2. CASE ~(first < next /\ phrases[next].end > phrases[first].start + TargetDuration)
    <3>1. UNCHANGED <<phrases, chunks, first, stage>> /\ next' = next + 1
      BY <1>1, <2>2 DEF CutChunk
    <3>2. CurrentFits'
      <4> SUFFICES ASSUME NEW p \in (first + 1)..next
                   PROVE  phrases[p].end <= phrases[first].start + TargetDuration
        BY <3>1, <1>a DEF CurrentFits
      <4>1. CASE p = next
        <5>1. first < next /\ next \in 1..Len(phrases) /\ first \in 1..Len(phrases)
          BY <4>1, <1>1, <1>a DEF CutChunk
        <5> QED
          BY <5>1, <4>1, <2>2, <1>a, TargetAssumption
      <4>2. CASE p # next
        BY <4>2, <1>a DEF CutInv, CurrentFits
      <4> QED
        BY <4>1, <4>2
    <3> QED
      BY <3>1, <3>2, <1>1 DEF CutInv, Covered, InOrder, ChunksFit, CutChunk
  <2> QED
    BY <2>1, <2>2
<1>2. CASE CutEnds
  <2>1. next = Len(phrases) + 1
    BY <1>2, <1>a DEF CutEnds
  <2>2. CurrentFits'
    BY <1>2, <1>a DEF CutEnds, CurrentFits
  <2>3. CASE first < next
    <3>1. Covered' /\ InOrder' /\ ChunksFit'
      BY <1>2, <2>3, AppendCut DEF CutEnds
    <3> QED
      BY <2>1, <2>2, <3>1, <1>2 DEF CutInv, CutEnds
  <2>4. CASE ~(first < next)
    <3>1. first' = first /\ UNCHANGED <<phrases, chunks, next>>
      BY <2>4, <1>2, <1>a DEF CutEnds
    <3> QED
      BY <2>1, <2>2, <3>1, <1>2 DEF CutInv, CutEnds, Covered, InOrder, ChunksFit
  <2> QED
    BY <2>3, <2>4
<1>3. CASE UNCHANGED <<phrases, cutVars>> /\ (stage' \in {"chunks", "merge"} => stage' = stage \/ stage = "chunks")
  BY <1>3 DEF CutInv, Covered, InOrder, CurrentFits, ChunksFit, cutVars
<1>4. CASE Retry \/ GenerateJson \/ SummarizeChunk \/ Accept \/ Repair \/ Store \/ UNCHANGED vars
  BY <1>3, <1>4 DEF Retry, GenerateJson, SummarizeChunk, Accept, Repair, Store, vars
<1>5. CASE GenerateJsonFails \/ Reject
  BY <1>3, <1>5 DEF GenerateJsonFails, Reject, Raise
<1> QED
  BY <1>1, <1>2, <1>4, <1>5 DEF Next

LEMMA CutInvariant == Spec => []CutInv
BY InitCut, NextCut, SafeInvariant, PTL DEF Spec

\* The fallback merges summaries of the whole transcript, chunk after chunk
\* (build_transcript_chunks and the loop over it in generate_final_minutes).
THEOREM MergeIsCompleteCorrect == Spec => []MergeIsComplete
<1>1. SafeInv /\ CutInv => MergeIsComplete
  <2> SUFFICES ASSUME SafeInv, CutInv PROVE MergeIsComplete
    OBVIOUS
  <2>1. Len(phrases) \in Nat
    BY TranscriptType DEF SafeInv
  <2> QED
    BY <2>1 DEF SafeInv, CutInv, Covered, InOrder, MergeIsComplete
<1> QED
  BY <1>1, SafeInvariant, CutInvariant, PTL

\* No phrase after the first of a chunk ends later than the target after the start
\* of the chunk.  The first may, and others that end earlier may follow it (the
\* condition on phrase_end in build_transcript_chunks).
THEOREM ChunksFitCorrect == Spec => []ChunksFit
<1>1. CutInv => ChunksFit
  BY DEF CutInv
<1> QED
  BY <1>1, CutInvariant, PTL

-----------------------------------------------------------------------------
(* The budget *)

\* The calls of generate_json that are behind the one in progress.
CallsBefore ==
    CASE stage = "full" -> IF repairing THEN 1 ELSE 0
      [] stage = "cut" -> 2
      [] stage = "chunks" -> 2 + summaries
      [] stage = "merge" -> 2 + summaries + (IF repairing THEN 1 ELSE 0)
      [] OTHER -> 4 + Len(phrases)

\* The attempts made by the one in progress.
AttemptsMade ==
    IF stage \in {"full", "chunks", "merge"}
      THEN IF draft = "none" THEN attempt - 1 ELSE attempt
      ELSE 0

BudgetInv == requests <= MaxAttempts * CallsBefore + AttemptsMade

\* Multiplication, which the solvers are told about once.
LEMMA OneCallMore ==
    ASSUME NEW m \in Nat, NEW a \in Nat, NEW b \in Nat, a + 1 <= b
    PROVE  m * a + m <= m * b /\ m * a \in Nat /\ m * b \in Nat
<1> DEFINE k == b - (a + 1)
<1>1. k \in Nat /\ b = a + 1 + k
  OBVIOUS
<1>2. m * b = m * a + m + m * k /\ m * k \in Nat /\ m * a \in Nat
  BY <1>1
<1> QED
  BY <1>2

\* What is left of a budget when a call ends and another one takes its place.
LEMMA CallEnds ==
    ASSUME NEW m \in Nat, NEW a \in Nat, NEW b \in Nat, a + 1 <= b,
           NEW used \in Nat, NEW r \in Nat, r <= m * a + m
    PROVE  r <= m * b + used
<1>1. m * a + m <= m * b /\ m * a \in Nat /\ m * b \in Nat
  BY OneCallMore
<1> QED
  BY <1>1

LEMMA InitBudget == Init => BudgetInv
BY AttemptsAssumption DEF Init, BudgetInv, CallsBefore, AttemptsMade

LEMMA Counts ==
    ASSUME SafeInv, CutInv
    PROVE  /\ CallsBefore \in Nat
           /\ AttemptsMade \in Nat
           /\ AttemptsMade <= MaxAttempts
           /\ Generating => AttemptsMade + 1 <= MaxAttempts
           /\ stage \in {"full", "cut", "chunks", "merge"} =>
                CallsBefore + 1 <= 4 + Len(phrases)
<1>1. Len(phrases) \in Nat /\ Len(chunks) \in Nat /\ first \in 1..(Len(phrases) + 1)
  BY TranscriptType DEF SafeInv, TypeOK
<1>2. Len(chunks) <= Len(phrases) /\ summaries \in Nat /\ summaries <= Len(chunks)
  BY <1>1 DEF SafeInv, CutInv, InOrder, TypeOK
<1>3. /\ stage \in {"full", "cut", "chunks", "merge", "store", "stored", "failed"}
      /\ repairing \in BOOLEAN
      /\ attempt \in Nat /\ 1 <= attempt /\ attempt <= MaxAttempts
  BY AttemptsAssumption DEF SafeInv, TypeOK
<1>4. stage = "chunks" => summaries + 1 <= Len(chunks)
  BY <1>1, <1>2 DEF SafeInv
<1>5. /\ CallsBefore \in Nat
      /\ stage \in {"full", "cut", "chunks", "merge"} =>
           CallsBefore + 1 <= 4 + Len(phrases)
  <2>1. CASE stage \in {"full", "cut"}
    BY <2>1, <1>1 DEF CallsBefore
  <2>2. CASE stage = "chunks"
    BY <2>2, <1>1, <1>2, <1>4 DEF CallsBefore
  <2>3. CASE stage = "merge"
    BY <2>3, <1>1, <1>2 DEF CallsBefore
  <2>4. CASE stage \in {"store", "stored", "failed"}
    BY <2>4, <1>1 DEF CallsBefore
  <2> QED
    BY <1>3, <2>1, <2>2, <2>3, <2>4
<1>6. /\ AttemptsMade \in Nat /\ AttemptsMade <= MaxAttempts
      /\ Generating => AttemptsMade + 1 <= MaxAttempts
  BY <1>3, AttemptsAssumption DEF AttemptsMade, Generating
<1> QED
  BY <1>5, <1>6

LEMMA NextBudget ==
    ASSUME SafeInv, SafeInv', CutInv, CutInv', BudgetInv, [Next]_vars
    PROVE  BudgetInv'
<1> USE AttemptsAssumption
<1>l. Len(phrases) \in Nat /\ Len(phrases') \in Nat
  BY TranscriptsAssumption DEF SafeInv, TypeOK
<1>a. /\ CallsBefore \in Nat /\ AttemptsMade \in Nat /\ AttemptsMade <= MaxAttempts
      /\ CallsBefore' \in Nat /\ AttemptsMade' \in Nat
      /\ requests \in Nat /\ requests' \in Nat
  <2>1. CallsBefore \in Nat /\ AttemptsMade \in Nat /\ AttemptsMade <= MaxAttempts
    BY Counts
  <2>2. CallsBefore' \in Nat /\ AttemptsMade' \in Nat
    <3>1. summaries' \in Nat /\ Len(phrases)' \in Nat
      BY <1>l DEF SafeInv, TypeOK
    <3>2. CallsBefore' \in Nat
      BY <3>1 DEF CallsBefore
    <3>3. AttemptsMade' \in Nat
      <4>1. \A n \in 1..MaxAttempts : n \in Nat /\ n - 1 \in Nat
        OBVIOUS
      <4>2. attempt' \in 1..MaxAttempts
        BY DEF SafeInv, TypeOK
      <4> QED
        BY <4>1, <4>2 DEF AttemptsMade
    <3> QED
      BY <3>2, <3>3
  <2>3. requests \in Nat /\ requests' \in Nat
    BY DEF SafeInv, TypeOK
  <2> QED
    BY <2>1, <2>2, <2>3
<1>b. MaxAttempts * CallsBefore \in Nat
  BY <1>a
<1>c. stage \in {"full", "chunks", "merge"} => CallsBefore + 1 <= 4 + Len(phrases)
  BY Counts
<1>d. summaries \in Nat
  BY DEF SafeInv, TypeOK
<1>1. CASE Retry
  <2>1. CallsBefore' = CallsBefore /\ AttemptsMade' = AttemptsMade + 1
    BY <1>1 DEF Retry, Generating, CallsBefore, AttemptsMade, SafeInv, TypeOK
  <2> QED
    BY <2>1, <1>1, <1>a, <1>b DEF Retry, BudgetInv
<1>2. CASE GenerateJsonFails
  <2>1. CallsBefore + 1 <= CallsBefore'
    BY <1>2, <1>c DEF GenerateJsonFails, Generating, Raise, CallsBefore, SafeInv
  <2>2. requests' <= MaxAttempts * CallsBefore + MaxAttempts
    BY <1>2, <1>a, <1>b, Counts DEF GenerateJsonFails, BudgetInv
  <2> QED
    BY <2>1, <2>2, <1>a, CallEnds DEF BudgetInv
<1>3. CASE GenerateJson
  <2>1. CallsBefore' = CallsBefore /\ AttemptsMade' = AttemptsMade + 1
    BY <1>3 DEF GenerateJson, Generating, Objects, CallsBefore, AttemptsMade,
                SafeInv, TypeOK
  <2> QED
    BY <2>1, <1>3, <1>a, <1>b DEF GenerateJson, BudgetInv
<1>4. CASE SummarizeChunk \/ Accept \/ Repair \/ Reject
  <2>1. CallsBefore + 1 <= CallsBefore'
    <3>1. CASE SummarizeChunk
      BY <3>1, <1>d DEF SummarizeChunk, CallsBefore, SafeInv
    <3>2. CASE Accept
      BY <3>2, <1>c DEF Accept, CallsBefore
    <3>3. CASE Repair
      BY <3>3, <1>d DEF Repair, CallsBefore, SafeInv
    <3>4. CASE Reject
      BY <3>4, <1>c DEF Reject, Raise, CallsBefore, SafeInv
    <3> QED
      BY <1>4, <3>1, <3>2, <3>3, <3>4
  <2>2. requests' = requests
    BY <1>4 DEF SummarizeChunk, Accept, Repair, Reject
  <2>3. requests' <= MaxAttempts * CallsBefore + MaxAttempts
    BY <2>2, <1>a, <1>b DEF BudgetInv
  <2> QED
    BY <2>1, <2>3, <1>a, CallEnds DEF BudgetInv
<1>5. CASE Store
  BY <1>5 DEF Store, BudgetInv, CallsBefore, AttemptsMade, SafeInv
<1>6. CASE CutChunk \/ CutEnds
  <2>1. CallsBefore' = CallsBefore /\ AttemptsMade' = AttemptsMade
    BY <1>6 DEF CutChunk, CutEnds, CallsBefore, AttemptsMade, SafeInv
  <2> QED
    BY <2>1, <1>6 DEF CutChunk, CutEnds, BudgetInv
<1>7. CASE UNCHANGED vars
  BY <1>7 DEF vars, cutVars, BudgetInv, CallsBefore, AttemptsMade
<1> QED
  BY <1>1, <1>2, <1>3, <1>4, <1>5, <1>6, <1>7 DEF Next

\* The requests of one execution of GenerateFinalMinutesActivity are bounded by
\* the attempts of a call and the length of the transcript (generate_json's backoff,
\* one repair, one fallback).
THEOREM RequestsBoundedCorrect == Spec => []RequestsAreBounded
<1>1. Init => BudgetInv
  BY InitBudget
<1>2. SafeInv /\ SafeInv' /\ CutInv /\ CutInv' /\ BudgetInv /\ [Next]_vars => BudgetInv'
  BY NextBudget
<1>3. SafeInv /\ CutInv /\ BudgetInv => RequestsAreBounded
  <2> SUFFICES ASSUME SafeInv, CutInv, BudgetInv PROVE RequestsAreBounded
    OBVIOUS
  <2>l. Len(phrases) \in Nat
    BY TranscriptType DEF SafeInv
  <2>1. CASE stage \in {"full", "cut", "chunks", "merge"}
    <3>1. CallsBefore \in Nat /\ AttemptsMade \in Nat /\ AttemptsMade <= MaxAttempts
          /\ CallsBefore + 1 <= 4 + Len(phrases)
      BY <2>1, Counts
    <3>2. /\ MaxAttempts * CallsBefore + MaxAttempts <= MaxAttempts * (4 + Len(phrases))
          /\ MaxAttempts * CallsBefore \in Nat
      BY <3>1, OneCallMore, AttemptsAssumption, <2>l
    <3> QED
      BY <3>1, <3>2, AttemptsAssumption
      DEF BudgetInv, RequestsAreBounded, SafeInv, TypeOK
  <2>2. CASE stage \notin {"full", "cut", "chunks", "merge"}
    BY <2>2, <2>l, AttemptsAssumption
    DEF BudgetInv, RequestsAreBounded, CallsBefore, AttemptsMade, SafeInv, TypeOK
  <2> QED
    BY <2>1, <2>2
<1> QED
  BY <1>1, <1>2, <1>3, SafeInvariant, CutInvariant, PTL DEF Spec

-----------------------------------------------------------------------------
(* What must not be repeated *)

\* The errors that smaller requests do not cure end the activity, and any other
\* ends the first way.
RefusedInv ==
    /\ error \in {"filtered", "denied"} => stage = "failed"
    /\ error # "none" => stage # "full"

\* Nothing happens once the activity has failed.
LEMMA FailedIsFinal ==
    ASSUME stage = "failed", Next
    PROVE  FALSE
BY DEF Next, Retry, GenerateJsonFails, GenerateJson, Generating, CutChunk, CutEnds,
       SummarizeChunk, Accept, Repair, Reject, Store

LEMMA NextRefused == RefusedInv /\ [Next]_vars => RefusedInv'
<1> SUFFICES ASSUME RefusedInv, [Next]_vars PROVE RefusedInv'
  OBVIOUS
<1>1. ASSUME NEW e, Raise(e) PROVE RefusedInv'
  BY <1>1 DEF Raise, ShouldFallbackToChunkMinutes, RefusedInv
<1>2. CASE GenerateJsonFails \/ Reject
  <2>1. PICK e \in Errors : Raise(e)
    BY <1>2 DEF GenerateJsonFails, Reject, Errors
  <2> QED
    BY <2>1, <1>1
<1>3. CASE Store
  BY <1>3 DEF Store, RefusedInv
<1>4. CASE \/ Retry \/ GenerateJson \/ CutChunk \/ CutEnds \/ SummarizeChunk
           \/ Accept \/ Repair
  <2>1. error' = error /\ (stage' = "full" => stage = "full")
    BY <1>4 DEF Retry, GenerateJson, CutChunk, CutEnds, SummarizeChunk, Accept, Repair
  <2>2. stage # "failed"
    BY <1>4, FailedIsFinal DEF Next
  <2> QED
    BY <2>1, <2>2 DEF RefusedInv
<1>5. CASE UNCHANGED vars
  BY <1>5 DEF vars, RefusedInv
<1> QED
  BY <1>2, <1>3, <1>4, <1>5 DEF Next

\* Only the steps of generate_json make requests.
LEMMA RequestsAreGenerated ==
    ASSUME Next, requests' # requests
    PROVE  stage \in {"full", "chunks", "merge"}
BY DEF Next, Retry, GenerateJsonFails, GenerateJson, Generating, CutChunk, CutEnds,
       SummarizeChunk, Accept, Repair, Reject, Store

\* After an answer the filter cut off, or a status other than 400 and 413, no
\* request follows in this activity; after those two, the chunks of the transcript
\* may be sent and the whole is not (generate_json with
\* _should_fallback_to_chunk_minutes).
THEOREM RefusedIsNotRepeatedCorrect == Spec => RefusedIsNotRepeated
<1>1. Init => RefusedInv
  BY DEF Init, RefusedInv
<1>2. RefusedInv /\ [Next]_vars => RefusedInv'
  BY NextRefused
<1>3. RefusedInv /\ [Next]_vars =>
        [/\ error \in {"filtered", "denied"} => requests' = requests
         /\ error \in {"tooLarge", "promptBlocked"} /\ requests' # requests =>
               stage \in {"chunks", "merge"}]_vars
  BY FailedIsFinal, RequestsAreGenerated DEF RefusedInv
<1> QED
  BY <1>1, <1>2, <1>3, PTL DEF Spec, RefusedIsNotRepeated

-----------------------------------------------------------------------------
(* The activity comes to an end *)

\* How far the pipeline is from its end, the weightiest part first: the ways that
\* are left with their repairs, the phrases or chunks this way has still to go
\* through, the attempts left, and whether the answer is still to come.
StageRank ==
    CASE stage = "full" -> IF repairing THEN 8 ELSE 9
      [] stage = "cut" -> 7
      [] stage = "chunks" -> 6
      [] stage = "merge" -> IF repairing THEN 4 ELSE 5
      [] stage = "store" -> 3
      [] OTHER -> 0

Left == IF stage = "cut" THEN Len(phrases) + 1 - next ELSE Len(chunks) - summaries

Rank == <<StageRank, Left, MaxAttempts - attempt, IF draft = "none" THEN 1 ELSE 0>>

\* Every step lowers the rank: neither errors nor answers, in whatever order they
\* come, lead back.  With DescentEnds it is the safety half of GenerationEnds.
EveryStepDescends == [][(<<Rank', Rank>> \in Descent(4))]_vars

LEMMA RankType ==
    ASSUME SafeInv
    PROVE  /\ StageRank \in 0..9 /\ Left \in Nat /\ MaxAttempts - attempt \in Nat
           /\ (IF draft = "none" THEN 1 ELSE 0) \in Nat
<1>1. Len(phrases) \in Nat /\ next \in 1..(Len(phrases) + 1)
  BY TranscriptType DEF SafeInv, TypeOK
<1>2. Len(chunks) \in Nat /\ summaries \in 0..Len(chunks)
  BY TranscriptType DEF SafeInv, TypeOK
<1>3. MaxAttempts - attempt \in Nat
  BY AttemptsAssumption DEF SafeInv, TypeOK
<1> QED
  BY <1>1, <1>2, <1>3 DEF StageRank, Left

LEMMA StepDescends == SafeInv /\ SafeInv' /\ Next => <<Rank', Rank>> \in Descent(4)
<1> SUFFICES ASSUME SafeInv, SafeInv', Next PROVE <<Rank', Rank>> \in Descent(4)
  OBVIOUS
<1> DEFINE Wait == IF draft = "none" THEN 1 ELSE 0
<1>a. /\ StageRank \in Nat /\ Left \in Nat /\ MaxAttempts - attempt \in Nat /\ Wait \in Nat
      /\ StageRank' \in Nat /\ Left' \in Nat /\ MaxAttempts - attempt' \in Nat /\ Wait' \in Nat
  <2>1. StageRank \in 0..9 /\ Left \in Nat /\ MaxAttempts - attempt \in Nat /\ Wait \in Nat
    BY RankType
  <2>2. (StageRank \in 0..9 /\ Left \in Nat /\ MaxAttempts - attempt \in Nat /\ Wait \in Nat)'
    BY RankType, PTL
  <2> QED
    BY <2>1, <2>2
<1>b. Len(phrases) \in Nat /\ next \in Nat /\ Len(chunks) \in Nat
  BY TranscriptType DEF SafeInv
<1>c. attempt \in Nat /\ MaxAttempts \in Nat /\ summaries \in Nat
  BY <1>b, AttemptsAssumption DEF SafeInv, TypeOK
<1>d. StageRank' < StageRank => <<Rank', Rank>> \in Descent(4)
  BY <1>a, Lower4 DEF Rank
<1>e. UNCHANGED StageRank /\ Left' < Left => <<Rank', Rank>> \in Descent(4)
  BY <1>a, Lower4 DEF Rank
<1>1. CASE Retry
  <2>1. UNCHANGED <<StageRank, Left>> /\ MaxAttempts - attempt' < MaxAttempts - attempt
    BY <1>1, <1>c DEF Retry, StageRank, Left, cutVars
  <2> QED
    BY <1>a, <2>1, Lower4 DEF Rank
<1>2. CASE GenerateJson
  <2>1. UNCHANGED <<StageRank, Left, attempt>> /\ Wait' < Wait
    BY <1>2 DEF GenerateJson, Generating, StageRank, Left, Objects, cutVars
  <2> QED
    BY <1>a, <2>1, Lower4 DEF Rank
<1>3. CASE CutChunk
  BY <1>3, <1>b, <1>e DEF CutChunk, StageRank, Left
<1>4. CASE SummarizeChunk
  <2>1. \/ StageRank' < StageRank
        \/ UNCHANGED StageRank /\ Left' < Left
    BY <1>4, <1>b, <1>c DEF SummarizeChunk, StageRank, Left, cutVars
  <2> QED
    BY <2>1, <1>d, <1>e
<1>5. ASSUME NEW e, Raise(e), stage \in {"full", "chunks", "merge"}
      PROVE  StageRank' < StageRank
  BY <1>5 DEF Raise, StageRank
<1>6. CASE GenerateJsonFails \/ Reject
  BY <1>5, <1>6, <1>d DEF GenerateJsonFails, Generating, Reject
<1>7. CASE CutEnds \/ Accept \/ Store
  <2>1. StageRank' < StageRank
    BY <1>7 DEF CutEnds, Accept, Store, StageRank
  <2> QED
    BY <2>1, <1>d
<1>8. CASE Repair
  <2>1. StageRank' < StageRank
    BY <1>8 DEF Repair, StageRank
  <2> QED
    BY <2>1, <1>d
<1> QED
  BY <1>1, <1>2, <1>3, <1>4, <1>6, <1>7, <1>8 DEF Next

\* No execution of GenerateFinalMinutesActivity goes on for ever, whatever the model
\* service answers (generate_json, build_transcript_chunks, generate_final_minutes).
THEOREM EveryStepDescendsCorrect == Spec => EveryStepDescends
<1>1. SafeInv /\ SafeInv' /\ [Next]_vars => [(<<Rank', Rank>> \in Descent(4))]_vars
  BY StepDescends
<1> QED
  BY <1>1, SafeInvariant, PTL DEF Spec, EveryStepDescends
=============================================================================
