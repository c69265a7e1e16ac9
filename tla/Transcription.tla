---------------------------- MODULE Transcription ----------------------------
(***************************************************************************)
(* What the orchestration and the clients of the speech services agree on  *)
(* about the transcription of a job: each run of the orchestration asks    *)
(* for it once, polls what it was given a limited number of times, fetches *)
(* the result of a batch only when it is ready, and uses a transcript only *)
(* after it was delivered in the same run.                                 *)
(***************************************************************************)
EXTENDS Naturals

CONSTANT Polls  \* Polls[r]: how often a transcription on route r is polled

VARIABLES
    route,   \* how the recording is transcribed, fixed
    stage,   \* how far this run has come
    polled   \* polls of this run that found the transcription running

tvars == <<route, stage, polled>>

Stages == {"asking", "polling", "fetching", "transcribed", "over"}

TInit ==
    /\ route \in {"fast", "batch", "contentUnderstanding"}
    /\ stage = "asking"
    /\ polled = 0

Move(from, to) ==
    /\ stage = from
    /\ stage' = to
    /\ polled' = 0
    /\ UNCHANGED route

\* The URL of the transcription is held.
Hold == route # "fast" /\ Move("asking", "polling")

PollAgain ==
    /\ stage = "polling"
    /\ polled + 1 < Polls[route]
    /\ polled' = polled + 1
    /\ UNCHANGED <<route, stage>>

Fetch == route = "batch" /\ Move("polling", "fetching")

\* The transcript is there: at once, with the last poll, or fetched.
Deliver ==
    \/ route = "fast" /\ Move("asking", "transcribed")
    \/ route = "batch" /\ Move("fetching", "transcribed")
    \/ route = "contentUnderstanding" /\ Move("polling", "transcribed")

\* The run ends, or fails.
Leave == \E s \in Stages \ {"over"} : Move(s, "over")

\* The orchestration is started again.
StartAgain == Move("over", "asking")

TNext == Hold \/ PollAgain \/ Fetch \/ Deliver \/ Leave \/ StartAgain

TSpec == TInit /\ [][TNext]_tvars
=============================================================================
