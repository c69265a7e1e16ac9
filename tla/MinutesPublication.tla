------------------------- MODULE MinutesPublication -------------------------
(***************************************************************************)
(* What the backend promises about the artifacts of a job, whatever its    *)
(* orchestration, its requests and its workers do: an artifact is only     *)
(* ever derived from the one before it, the minutes are offered only when  *)
(* the whole chain derives from one transcription, and no artifact is      *)
(* rewritten while they are offered.                                       *)
(***************************************************************************)
EXTENDS Naturals

VARIABLES
    made,     \* made[a]: the run whose recording artifact a derives from, 0: none
    run,      \* how often the orchestration was started
    offered   \* the job is DONE: its minutes may be fetched

pvars == <<made, run, offered>>

Chain == {"raw", "normalized", "minutesJson", "minutesMarkdown"}

Origin == [normalized |-> "raw", minutesJson |-> "normalized",
           minutesMarkdown |-> "minutesJson"]

PInit ==
    /\ made = [a \in Chain \cup {"visualContext"} |-> 0]
    /\ run = 0
    /\ offered = FALSE

Start ==
    /\ run' = run + 1
    /\ UNCHANGED <<made, offered>>

\* A service delivered a transcription, or what a video shows.
Transcribe ==
    /\ ~offered
    /\ run > 0
    /\ \E a \in {"raw", "visualContext"} : made' = [made EXCEPT ![a] = run]
    /\ UNCHANGED <<run, offered>>

Derive ==
    /\ ~offered
    /\ \E a \in DOMAIN Origin :
         /\ made[Origin[a]] # 0
         /\ made' = [made EXCEPT ![a] = made[Origin[a]]]
    /\ UNCHANGED <<run, offered>>

Offer ==
    /\ made["raw"] # 0
    /\ \A a \in Chain : made[a] = made["raw"]
    /\ offered' = TRUE
    /\ UNCHANGED <<made, run>>

Withdraw ==
    /\ offered' = FALSE
    /\ UNCHANGED <<made, run>>

PNext == Start \/ Transcribe \/ Derive \/ Offer \/ Withdraw

PSpec == PInit /\ [][PNext]_pvars
=============================================================================
