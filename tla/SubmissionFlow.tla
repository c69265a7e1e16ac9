--------------------------- MODULE SubmissionFlow ---------------------------
(***************************************************************************)
(* The browser: what handleSubmit and pollJobUntilTerminal (App.tsx) do    *)
(* with a recording, from the click to the results that are shown.         *)
(*                                                                         *)
(* Each submission is one asynchronous call of handleSubmit, a flow.       *)
(* Flow f creates job f.  Between two of a flow's awaits anything else may *)
(* happen: the user picks or clears a file, or submits again.  What the    *)
(* closures of a flow hold is fixed when the flow starts; the React state  *)
(* (what is shown) and the refs are shared by all flows.                   *)
(*                                                                         *)
(* The server is not modelled: each request may fail or be answered with   *)
(* anything the API can answer.  Messages, progress bars and the choice of *)
(* a tab are left out.                                                     *)
(***************************************************************************)
EXTENDS Naturals, FiniteSets

CONSTANTS
    MaxSubmissions,  \* bound of the model
    MaxFailures      \* 3: polling gives up at the third failure in a row

ASSUME SubmissionsAssumption == MaxSubmissions \in Nat
ASSUME FailuresAssumption == MaxFailures \in Nat \ {0}

VARIABLES
    mounted,   \* the page is on screen
    selected,  \* a file is selected
    busy,      \* isBusy
    shown,     \* shown[r]: the job whose result r is in the React state, 0: null
    active,    \* activeJobIdRef.current, 0: null
    latest,    \* the flow whose AbortController abortPollingRef holds, 0: null
    aborted,   \* the flows whose signal is aborted
    pc,        \* pc[f]: how far flow f is
    carried,   \* carried[f]: results the flow's closure saw when f was submitted
    loaded,    \* loaded[f]: results this flow has loaded
    failures,  \* failures[f]: failureCount
    status     \* status[f]: the last answer of getJob

vars == <<mounted, selected, busy, shown, active, latest, aborted, pc, carried, loaded,
          failures, status>>
closures == <<carried, loaded, failures, status>>

Flows == 1..MaxSubmissions
Results == {"transcript", "minutes", "visualContext"}

\* working: any status before TRANSCRIPT_READY; generating: from there to DONE.
Stages == {"working", "generating", "DONE", "FAILED"}
Terminal == {"DONE", "FAILED"}

\* What getJob can answer: a DONE job has its minutes, and may have lost the
\* transcript (see JobLifecycle).
Answers == {a \in [stage : Stages, ready : SUBSET Results] :
                a.stage = "DONE" => "minutes" \in a.ready}

\* finished: a terminal status was seen.  failed: an error was shown.
\* dropped: the flow noticed that it is no longer the active one.
Ended == {"finished", "failed", "dropped"}
Live == {"creating", "uploading", "completing", "polling", "loading"}

TypeOK ==
    /\ mounted \in BOOLEAN
    /\ selected \in BOOLEAN
    /\ busy \in BOOLEAN
    /\ shown \in [Results -> 0..MaxSubmissions]
    /\ active \in 0..MaxSubmissions
    /\ latest \in 0..MaxSubmissions
    /\ aborted \subseteq Flows
    /\ pc \in [Flows -> {"new"} \cup Live \cup Ended]
    /\ carried \in [Flows -> SUBSET Results]
    /\ loaded \in [Flows -> SUBSET Results]
    /\ failures \in [Flows -> 0..MaxFailures]
    /\ status \in [Flows -> Answers]

NothingShown == [r \in Results |-> 0]

Init ==
    /\ mounted = TRUE
    /\ selected = FALSE
    /\ busy = FALSE
    /\ shown = NothingShown
    /\ active = 0
    /\ latest = 0
    /\ aborted = {}
    /\ pc = [f \in Flows |-> "new"]
    /\ carried = [f \in Flows |-> {}]
    /\ loaded = [f \in Flows |-> {}]
    /\ failures = [f \in Flows |-> 0]
    /\ status = [f \in Flows |-> [stage |-> "working", ready |-> {}]]

-----------------------------------------------------------------------------
(* The user *)

\* abortPollingRef.current?.abort(); everything of the previous job is dropped.
Forget ==
    /\ aborted' = IF latest = 0 THEN aborted ELSE aborted \cup {latest}
    /\ active' = 0
    /\ shown' = NothingShown

\* acceptSelectedFile or clearSelectedFile: disabled while a flow is running.
SelectFile ==
    /\ mounted
    /\ ~busy
    /\ selected' \in BOOLEAN
    /\ Forget
    /\ UNCHANGED <<mounted, busy, latest, pc, closures>>

\* The cleanup of the first effect: what a flow sets from here on nobody sees.
Unmount ==
    /\ mounted
    /\ mounted' = FALSE
    /\ aborted' = IF latest = 0 THEN aborted ELSE aborted \cup {latest}
    /\ UNCHANGED <<selected, busy, shown, active, latest, pc, closures>>

\* Mutant: the controls stay enabled while a flow is running.
SubmitWhileBusy(f) ==
    /\ mounted
    /\ selected
    /\ pc[f] = "new"
    /\ \A g \in 1..(f - 1) : pc[g] # "new"
    /\ Forget
    /\ latest' = f
    /\ busy' = TRUE
    /\ pc' = [pc EXCEPT ![f] = "creating"]
    /\ carried' = [carried EXCEPT ![f] = {r \in Results : shown[r] # 0}]
    /\ UNCHANGED <<mounted, selected, loaded, failures, status>>

\* handleSubmit, up to its first await.  The closure keeps the transcript,
\* minutes and visualContext of the render that was on screen at the click.
Submit(f) ==
    /\ mounted
    /\ ~busy
    /\ selected
    /\ pc[f] = "new"
    /\ \A g \in 1..(f - 1) : pc[g] # "new"
    /\ Forget
    /\ latest' = f
    /\ busy' = TRUE
    /\ pc' = [pc EXCEPT ![f] = "creating"]
    /\ carried' = [carried EXCEPT ![f] = {r \in Results : shown[r] # 0}]
    /\ UNCHANGED <<mounted, selected, loaded, failures, status>>

-----------------------------------------------------------------------------
(* The flow *)

\* return or throw inside handleSubmit, and its finally.
End(f, outcome) ==
    /\ pc' = [pc EXCEPT ![f] = outcome]
    /\ busy' = FALSE

\* createJob; a recording that is too long ends the flow before it.
CreateJob(f) ==
    /\ pc[f] = "creating"
    /\ \/ /\ active' = f
          /\ pc' = [pc EXCEPT ![f] = "uploading"]
          /\ UNCHANGED busy
       \/ /\ End(f, "failed")
          /\ UNCHANGED active
    /\ UNCHANGED <<mounted, selected, shown, latest, aborted, closures>>

\* uploadAudioFile and completeUpload, each followed by a look at activeJobIdRef
\* (while the controls are disabled nobody changes it).
Upload(f) ==
    /\ \/ /\ pc[f] \in {"uploading", "completing"}
          /\ IF active = f
               THEN /\ pc' = [pc EXCEPT ![f] =
                        IF @ = "uploading" THEN "completing" ELSE "polling"]
                    /\ UNCHANGED busy
               ELSE End(f, "dropped")
       \/ /\ pc[f] \in {"uploading", "completing"}
          /\ End(f, "failed")
    /\ UNCHANGED <<mounted, selected, shown, active, latest, aborted, closures>>

\* The condition of the polling loop.
StopPolling(f) ==
    /\ pc[f] = "polling"
    /\ f \in aborted \/ active # f
    /\ End(f, "dropped")
    /\ UNCHANGED <<mounted, selected, shown, active, latest, aborted, closures>>

\* getJob answers a.
Answered(f, a) ==
    /\ pc[f] = "polling"
    /\ f \notin aborted
    /\ active = f
    /\ failures' = [failures EXCEPT ![f] = 0]
    /\ status' = [status EXCEPT ![f] = a]
    /\ pc' = [pc EXCEPT ![f] = "loading"]
    /\ UNCHANGED <<mounted, selected, busy, shown, active, latest, aborted, carried, loaded>>

\* shouldFetchTranscript, shouldFetchMinutes, and the visual context at once.
FetchStages(r) ==
    CASE r = "transcript" -> {"generating", "DONE"}
      [] r = "minutes" -> {"DONE"}
      [] r = "visualContext" -> Stages

Wanted(f) == {r \in status[f].ready \ (carried[f] \cup loaded[f]) :
                  status[f].stage \in FetchStages(r)}

\* loadDerivedOutputsOnce asks for one result after the other.
NextResult(f) ==
    IF "transcript" \in Wanted(f) THEN "transcript"
    ELSE IF "minutes" \in Wanted(f) THEN "minutes" ELSE "visualContext"

\* getTranscript, getMinutes or getVisualContext answers; nobody looks at
\* activeJobIdRef or the signal before the result is shown.
Load(f) ==
    /\ pc[f] = "loading"
    /\ Wanted(f) # {}
    /\ shown' = [shown EXCEPT ![NextResult(f)] = f]
    /\ loaded' = [loaded EXCEPT ![f] = @ \cup {NextResult(f)}]
    /\ UNCHANGED <<mounted, selected, busy, active, latest, aborted, pc, carried,
                   failures, status>>

\* Mutant: a result counts as loaded even if the request for it failed.
RequestFailsLoaded(f) ==
    /\ pc[f] = "loading" /\ Wanted(f) # {}
    /\ loaded' = [loaded EXCEPT ![f] = @ \cup {NextResult(f)}]
    /\ failures' = [failures EXCEPT ![f] = @ + 1]
    /\ failures[f] + 1 < MaxFailures
    /\ pc' = [pc EXCEPT ![f] = "polling"]
    /\ UNCHANGED <<mounted, selected, busy, shown, active, latest, aborted, carried, status>>

\* Mutant: the third failure is forgiven as well.
RequestFailsOnce(f) ==
    /\ \/ pc[f] = "polling" /\ f \notin aborted /\ active = f
       \/ pc[f] = "loading" /\ Wanted(f) # {}
    /\ failures' = [failures EXCEPT ![f] = @ + 1]
    /\ pc' = [pc EXCEPT ![f] = "polling"]
    /\ UNCHANGED <<mounted, selected, busy, shown, active, latest, aborted, carried,
                   loaded, status>>

\* Any of the requests of the polling loop fails.
RequestFails(f) ==
    /\ \/ pc[f] = "polling" /\ f \notin aborted /\ active = f
       \/ pc[f] = "loading" /\ Wanted(f) # {}
    /\ failures' = [failures EXCEPT ![f] = @ + 1]
    /\ \/ /\ failures[f] + 1 < MaxFailures
          /\ pc' = [pc EXCEPT ![f] = "polling"]
          /\ UNCHANGED busy
       \/ /\ failures[f] + 1 >= MaxFailures
          /\ End(f, "failed")
    /\ UNCHANGED <<mounted, selected, shown, active, latest, aborted, carried, loaded, status>>

\* Mutant: a failed job is polled on.
AllLoadedDoneOnly(f) ==
    /\ pc[f] = "loading"
    /\ Wanted(f) = {}
    /\ \/ /\ status[f].stage = "DONE"
          /\ End(f, "finished")
       \/ /\ status[f].stage # "DONE"
          /\ pc' = [pc EXCEPT ![f] = "polling"]
          /\ UNCHANGED busy
    /\ UNCHANGED <<mounted, selected, shown, active, latest, aborted, closures>>

AllLoaded(f) ==
    /\ pc[f] = "loading"
    /\ Wanted(f) = {}
    /\ \/ /\ status[f].stage \in Terminal
          /\ End(f, "finished")
       \/ /\ status[f].stage \notin Terminal
          /\ pc' = [pc EXCEPT ![f] = "polling"]
          /\ UNCHANGED busy
    /\ UNCHANGED <<mounted, selected, shown, active, latest, aborted, closures>>

FlowStep(f) == \/ CreateJob(f) \/ Upload(f) \/ StopPolling(f)
               \/ \E a \in Answers : Answered(f, a)
               \/ Load(f) \/ RequestFails(f) \/ AllLoaded(f)

Next == \/ SelectFile
        \/ Unmount
        \/ \E f \in Flows : Submit(f) \/ FlowStep(f)

Spec == Init /\ [][Next]_vars

\* Every await of a flow settles, one way or the other: the page's own timers and
\* promises.  Neither the server nor the user owes it anything.
FairSpec == Spec /\ \A f \in Flows : WF_vars(FlowStep(f))

-----------------------------------------------------------------------------
(* Properties *)

\* What is shown belongs to the job the page is about: no answer that arrives
\* late puts the results of an earlier job beside a later one.
ShownIsOfActiveJob == \A r \in Results : shown[r] # 0 => shown[r] = active

\* A flow that stopped at DONE shows every result the server said was ready,
\* however many requests failed in between, except those whose previous version
\* was on screen when the recording was submitted.
DoneIsLoaded ==
    \A f \in Flows :
        pc[f] = "finished" /\ status[f].stage = "DONE" /\ active = f =>
            \A r \in status[f].ready \ carried[f] : shown[r] = f

\* The server answers that the job goes on.
GoesOn == \E f \in Flows : pc[f] = "loading" /\ status[f].stage \notin Terminal

\* A request for a result fails, and polling goes on.
ResultFails == \E f \in Flows : pc[f] = "loading" /\ RequestFails(f)

\* The page stays busy only as long as the server says that the job goes on, or as
\* long as results of the job fail to load, again and again: whatever else fails,
\* in whatever order, every way out of the polling loop is reached.  (Each of the
\* two may last for ever: a record may stay UPLOADED, see JobLifecycle, and an
\* answer of getJob forgives the failures to load before it.)
BusyEnds ==
    \/ busy ~> ~busy
    \/ []<>GoesOn
    \/ []<><<ResultFails>>_vars

-----------------------------------------------------------------------------
(* What the documents say and the code does not do: refuted *)

\* docs/02-architecture.md: the page gets the transcript and the minutes when
\* they are ready.  A file submitted again does not get them.
DoneIsShown ==
    \A f \in Flows :
        pc[f] = "finished" /\ status[f].stage = "DONE" /\ active = f =>
            \A r \in status[f].ready : shown[r] = f
=============================================================================
