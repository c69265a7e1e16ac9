------------------------ MODULE SubmissionFlowProofs ------------------------
(***************************************************************************)
(* Proofs about SubmissionFlow for any number of submissions and any limit *)
(* of failures: the page never mixes two jobs, and a flow that stopped at  *)
(* DONE has loaded what was ready.                                         *)
(***************************************************************************)
EXTENDS SubmissionFlow, TLAPS

\* Only the latest flow runs, and only while the controls are disabled; the
\* page is about its job from the moment the job exists.  It has failures left.
RunningInv ==
    \A f \in Flows :
        /\ pc[f] \in Live => busy /\ latest = f
        /\ pc[f] \in Live \ {"creating"} => active = f
        /\ pc[f] = "creating" => shown = NothingShown
        /\ pc[f] \notin Ended => failures[f] < MaxFailures

\* What a flow has loaded is shown as long as the page is about its job; a flow
\* that finished at DONE has loaded everything it wanted.
LoadedInv ==
    \A f \in Flows :
        /\ pc[f] \in {"new", "creating"} => loaded[f] = {}
        /\ active = f => \A r \in loaded[f] : shown[r] = f
        /\ pc[f] = "finished" /\ status[f].stage = "DONE" =>
              status[f].ready \ carried[f] \subseteq loaded[f]

FlowInv == TypeOK /\ RunningInv /\ ShownIsOfActiveJob /\ LoadedInv

LEMMA InitFlow == Init => FlowInv
<1> SUFFICES ASSUME Init PROVE FlowInv
  OBVIOUS
<1>a. 0 \in 0..MaxFailures /\ 0 < MaxFailures /\ 0 \in 0..MaxSubmissions
  BY SubmissionsAssumption, FailuresAssumption
<1>b. [stage |-> "working", ready |-> {}] \in Answers
  BY DEF Answers, Stages
<1>1. TypeOK
  BY <1>a, <1>b DEF Init, TypeOK, NothingShown
<1>2. RunningInv /\ ShownIsOfActiveJob /\ LoadedInv
  BY <1>a DEF Init, RunningInv, ShownIsOfActiveJob, LoadedInv, NothingShown, Live
<1> QED
  BY <1>1, <1>2 DEF FlowInv

-----------------------------------------------------------------------------
(* The user's steps *)

LEMMA SelectKeeps == ASSUME FlowInv, SelectFile PROVE FlowInv'
<1> USE DEF FlowInv, SelectFile, Forget, closures
<1>1. TypeOK'
  BY SubmissionsAssumption DEF TypeOK, NothingShown, Flows
<1>2. RunningInv' /\ ShownIsOfActiveJob' /\ LoadedInv'
  BY SubmissionsAssumption
     DEF TypeOK, RunningInv, ShownIsOfActiveJob, LoadedInv, NothingShown, Flows, Live
<1> QED
  BY <1>1, <1>2

LEMMA SubmitKeeps == ASSUME FlowInv, NEW f \in Flows, Submit(f) PROVE FlowInv'
<1> USE DEF FlowInv, Submit, Forget
<1>1. TypeOK'
  BY SubmissionsAssumption DEF TypeOK, NothingShown, Flows, Live
<1>2. RunningInv' /\ ShownIsOfActiveJob' /\ LoadedInv'
  BY SubmissionsAssumption
     DEF TypeOK, RunningInv, ShownIsOfActiveJob, LoadedInv, NothingShown, Flows, Live,
         Ended
<1> QED
  BY <1>1, <1>2

LEMMA UnmountKeeps == ASSUME FlowInv, Unmount PROVE FlowInv'
<1> USE DEF FlowInv, Unmount, closures
<1>a. latest # 0 => latest \in Flows
  BY SubmissionsAssumption DEF TypeOK, Flows
<1>1. TypeOK'
  BY <1>a DEF TypeOK
<1>2. RunningInv' /\ ShownIsOfActiveJob' /\ LoadedInv'
  BY DEF RunningInv, ShownIsOfActiveJob, LoadedInv
<1> QED
  BY <1>1, <1>2

-----------------------------------------------------------------------------
(* The steps of a flow *)

\* A flow that ends, or goes on without loading anything, changes nothing of
\* what is shown.
LEMMA MoveKeeps ==
    ASSUME FlowInv, NEW f \in Flows, NEW to \in Live \cup Ended,
           pc[f] \in Live \ {"creating"},
           pc' = [pc EXCEPT ![f] = to], to # "creating", to # "finished",
           (UNCHANGED busy /\ to \in Live) \/ (busy' = FALSE /\ to \notin Live),
           UNCHANGED <<mounted, selected, shown, active, latest, aborted, carried, loaded>>,
           failures' \in [Flows -> 0..MaxFailures],
           status' \in [Flows -> Answers],
           to \in Live => failures'[f] < MaxFailures,
           \A g \in Flows \ {f} : status'[g] = status[g] /\ failures'[g] = failures[g]
    PROVE  FlowInv'
<1>1. TypeOK'
  BY DEF FlowInv, TypeOK
<1>2. RunningInv' /\ ShownIsOfActiveJob'
  BY DEF FlowInv, TypeOK, RunningInv, ShownIsOfActiveJob, Live, Ended
<1>3. LoadedInv'
  BY DEF FlowInv, TypeOK, LoadedInv, Live, Ended
<1> QED
  BY <1>1, <1>2, <1>3 DEF FlowInv

LEMMA CreateJobKeeps == ASSUME FlowInv, NEW f \in Flows, CreateJob(f) PROVE FlowInv'
<1>a. f \in 0..MaxSubmissions
  BY SubmissionsAssumption DEF Flows
<1> USE DEF FlowInv, CreateJob, End, closures
<1>1. TypeOK'
  BY <1>a DEF TypeOK, Live, Ended
<1>2. RunningInv' /\ ShownIsOfActiveJob'
  BY SubmissionsAssumption
     DEF TypeOK, RunningInv, ShownIsOfActiveJob, NothingShown, Flows, Live, Ended
<1>3. LoadedInv'
  BY DEF TypeOK, LoadedInv
<1> QED
  BY <1>1, <1>2, <1>3

LEMMA UploadKeeps == ASSUME FlowInv, NEW f \in Flows, Upload(f) PROVE FlowInv'
<1>0. failures[f] < MaxFailures
  BY DEF Upload, FlowInv, RunningInv, Ended
<1>1. PICK to \in {"completing", "polling", "dropped", "failed"} :
         /\ pc' = [pc EXCEPT ![f] = to]
         /\ (UNCHANGED busy /\ to \in Live) \/ (busy' = FALSE /\ to \notin Live)
  BY DEF Upload, End, Live, FlowInv, TypeOK
<1> QED
  BY <1>0, <1>1, MoveKeeps DEF Upload, closures, Live, Ended, FlowInv, TypeOK

LEMMA StopPollingKeeps == ASSUME FlowInv, NEW f \in Flows, StopPolling(f) PROVE FlowInv'
BY MoveKeeps DEF StopPolling, End, closures, Live, Ended, FlowInv, TypeOK

LEMMA AnsweredKeeps ==
    ASSUME FlowInv, NEW f \in Flows, NEW a \in Answers, Answered(f, a) PROVE FlowInv'
<1>1. /\ failures' \in [Flows -> 0..MaxFailures] /\ failures'[f] < MaxFailures
      /\ status' \in [Flows -> Answers]
      /\ \A g \in Flows \ {f} : status'[g] = status[g] /\ failures'[g] = failures[g]
  BY FailuresAssumption DEF Answered, FlowInv, TypeOK
<1> QED
  BY <1>1, MoveKeeps DEF Answered, Live, Ended

LEMMA RequestFailsKeeps == ASSUME FlowInv, NEW f \in Flows, RequestFails(f) PROVE FlowInv'
<1>1. failures[f] \in Nat /\ failures[f] < MaxFailures
  BY FailuresAssumption DEF RequestFails, FlowInv, TypeOK, RunningInv, Ended
<1>2. /\ failures' \in [Flows -> 0..MaxFailures]
      /\ failures'[f] = failures[f] + 1
      /\ \A g \in Flows \ {f} : status'[g] = status[g] /\ failures'[g] = failures[g]
  BY <1>1, FailuresAssumption DEF RequestFails, FlowInv, TypeOK
<1>3. CASE failures[f] + 1 < MaxFailures
  BY <1>1, <1>2, <1>3, FailuresAssumption, MoveKeeps
     DEF RequestFails, End, Live, Ended, FlowInv, TypeOK
<1>4. CASE ~(failures[f] + 1 < MaxFailures)
  BY <1>1, <1>2, <1>4, FailuresAssumption, MoveKeeps
     DEF RequestFails, End, Live, Ended, FlowInv, TypeOK
<1> QED
  BY <1>3, <1>4

LEMMA LoadKeeps == ASSUME FlowInv, NEW f \in Flows, Load(f) PROVE FlowInv'
<1>1. NextResult(f) \in Results /\ active = f /\ f \in 0..MaxSubmissions
  BY SubmissionsAssumption DEF Load, NextResult, Results, FlowInv, RunningInv, Live, Flows
<1> USE DEF FlowInv, Load
<1>2. TypeOK'
  BY <1>1 DEF TypeOK
<1>3. RunningInv'
  BY <1>1 DEF TypeOK, RunningInv, Live
<1>4. ShownIsOfActiveJob' /\ LoadedInv'
  BY <1>1 DEF TypeOK, ShownIsOfActiveJob, LoadedInv
<1> QED
  BY <1>2, <1>3, <1>4

LEMMA AllLoadedKeeps == ASSUME FlowInv, NEW f \in Flows, AllLoaded(f) PROVE FlowInv'
<1>0. failures[f] < MaxFailures
  BY DEF AllLoaded, FlowInv, RunningInv, Ended
<1>1. CASE status[f].stage \notin Terminal
  BY <1>0, <1>1, MoveKeeps DEF AllLoaded, End, closures, Live, Ended, FlowInv, TypeOK
<1>2. CASE status[f].stage \in Terminal
  <2>1. pc' = [pc EXCEPT ![f] = "finished"] /\ busy' = FALSE
    BY <1>2 DEF AllLoaded, End
  <2>2. status[f].stage = "DONE" => status[f].ready \ carried[f] \subseteq loaded[f]
    <3> SUFFICES ASSUME status[f].stage = "DONE",
                        NEW r \in status[f].ready, r \notin carried[f]
                 PROVE  r \in loaded[f]
      OBVIOUS
    <3>1. r \in Results
      BY DEF FlowInv, TypeOK, Answers
    <3>2. "DONE" \in FetchStages(r)
      BY <3>1 DEF FetchStages, Results, Stages
    <3> QED
      BY <3>2 DEF AllLoaded, Wanted
  <2> USE <2>1 DEF FlowInv, AllLoaded, closures
  <2>3. TypeOK'
    BY DEF TypeOK, Ended
  <2>4. RunningInv' /\ ShownIsOfActiveJob'
    BY DEF TypeOK, RunningInv, ShownIsOfActiveJob, Live, Ended
  <2>5. LoadedInv'
    BY <2>2 DEF TypeOK, LoadedInv
  <2> QED
    BY <2>3, <2>4, <2>5
<1> QED
  BY <1>1, <1>2

LEMMA NextFlow == FlowInv /\ [Next]_vars => FlowInv'
<1> SUFFICES ASSUME FlowInv, [Next]_vars PROVE FlowInv'
  OBVIOUS
<1>1. CASE SelectFile
  BY <1>1, SelectKeeps
<1>2. CASE Unmount
  BY <1>2, UnmountKeeps
<1>3. ASSUME NEW f \in Flows, Submit(f) PROVE FlowInv'
  BY <1>3, SubmitKeeps
<1>4. ASSUME NEW f \in Flows, FlowStep(f) PROVE FlowInv'
  BY <1>4, CreateJobKeeps, UploadKeeps, StopPollingKeeps, AnsweredKeeps, LoadKeeps,
     RequestFailsKeeps, AllLoadedKeeps DEF FlowStep
<1>5. CASE UNCHANGED vars
  BY <1>5 DEF vars, closures, FlowInv, TypeOK, RunningInv, ShownIsOfActiveJob, LoadedInv
<1> QED
  BY <1>1, <1>2, <1>3, <1>4, <1>5 DEF Next

LEMMA FlowInvariant == Spec => []FlowInv
BY InitFlow, NextFlow, PTL DEF Spec

-----------------------------------------------------------------------------
(* Theorems *)

\* Every variable keeps its type; in particular a flow never counts more failures
\* than pollJobUntilTerminal tolerates.
THEOREM TypeCorrect == Spec => []TypeOK
<1>1. FlowInv => TypeOK
  BY DEF FlowInv
<1> QED
  BY <1>1, FlowInvariant, PTL

\* The results on the page are those of the job the page is about, although
\* nothing checks the job when an answer arrives: disabling the controls while
\* a flow runs is enough (handleSubmit, pollJobUntilTerminal).
THEOREM ShownIsOfActiveJobCorrect == Spec => []ShownIsOfActiveJob
<1>1. FlowInv => ShownIsOfActiveJob
  BY DEF FlowInv
<1> QED
  BY <1>1, FlowInvariant, PTL

\* A flow that stopped at DONE shows what was ready, except what its closure
\* took for loaded from the start (loadDerivedOutputsOnce).
THEOREM DoneIsLoadedCorrect == Spec => []DoneIsLoaded
<1>1. FlowInv => DoneIsLoaded
  BY DEF FlowInv, LoadedInv, DoneIsLoaded
<1> QED
  BY <1>1, FlowInvariant, PTL

-----------------------------------------------------------------------------
(* Only one flow keeps the page busy *)

\* The page is busy exactly while a flow runs, and it is the one submitted last,
\* whose signal the page can abort.
BusyIsLatestFlow ==
    /\ busy => latest \in Flows /\ pc[latest] \in Live
    /\ \A f \in Flows : pc[f] \in Live => busy /\ f = latest

LEMMA NextBusy == FlowInv /\ BusyIsLatestFlow /\ [Next]_vars => BusyIsLatestFlow'
<1> SUFFICES ASSUME FlowInv, BusyIsLatestFlow, [Next]_vars PROVE BusyIsLatestFlow'
  OBVIOUS
<1>0. TypeOK
  BY DEF FlowInv
<1> USE <1>0 DEF BusyIsLatestFlow
<1>1. CASE SelectFile \/ Unmount
  BY <1>1 DEF SelectFile, Unmount, Forget
<1>2. ASSUME NEW f \in Flows, Submit(f) PROVE BusyIsLatestFlow'
  BY <1>2 DEF Submit, TypeOK, Live
<1>3. ASSUME NEW f \in Flows, FlowStep(f) PROVE BusyIsLatestFlow'
  <2>1. pc[f] \in Live /\ latest' = latest
    BY <1>3 DEF FlowStep, CreateJob, Upload, StopPolling, Answered, Load, RequestFails, AllLoaded, Live
  <2>2. \/ busy' = busy /\ \E to \in Live : pc' = [pc EXCEPT ![f] = to]
        \/ busy' = FALSE /\ \E to \in Ended : pc' = [pc EXCEPT ![f] = to]
    <3>1. CASE CreateJob(f) \/ Upload(f) \/ StopPolling(f)
      BY <3>1 DEF CreateJob, Upload, StopPolling, End, Live, Ended, TypeOK
    <3>2. CASE (\E a \in Answers : Answered(f, a)) \/ RequestFails(f) \/ AllLoaded(f)
      BY <3>2 DEF Answered, RequestFails, AllLoaded, End, Live, Ended
    <3>3. CASE Load(f)
      <4>1. busy' = busy /\ pc' = [pc EXCEPT ![f] = pc[f]]
        BY <3>3 DEF Load, TypeOK
      <4> QED
        BY <2>1, <4>1
    <3> QED
      BY <1>3, <3>1, <3>2, <3>3 DEF FlowStep
  <2>3. f = latest /\ busy
    BY <2>1
  <2> QED
    BY <2>1, <2>2, <2>3 DEF TypeOK, Live, Ended
<1>4. CASE UNCHANGED vars
  BY <1>4 DEF vars
<1> QED
  BY <1>1, <1>2, <1>3, <1>4 DEF Next

\* Every way out of handleSubmit takes the page out of its busy state, and no
\* flow that ended, or was dropped, does that to a later one; this is the safety
\* half of BusyEnds.
THEOREM BusyIsLatestFlowCorrect == Spec => []BusyIsLatestFlow
<1>1. Init => BusyIsLatestFlow
  BY DEF Init, BusyIsLatestFlow, Live
<1> QED
  BY <1>1, FlowInvariant, NextBusy, PTL DEF Spec

-----------------------------------------------------------------------------
(* What a finished flow may leave out *)

\* A result that a DONE job has and the page does not show was loaded by an earlier
\* submission: the first submission shows everything.
MissingWasLoadedBefore ==
    \A f \in Flows :
        pc[f] = "finished" /\ status[f].stage = "DONE" /\ active = f =>
            \A r \in status[f].ready :
                shown[r] = f \/ \E g \in 1..(f - 1) : r \in loaded[g]

\* Recordings are submitted in order; what is shown was loaded, and what a closure
\* carries was shown before.
CarriedInv ==
    /\ \A f \in Flows : \A g \in 1..(f - 1) : pc[g] = "new" => pc[f] = "new"
    /\ \A r \in Results : shown[r] # 0 => r \in loaded[shown[r]]
    /\ \A f \in Flows : \A r \in carried[f] : \E g \in 1..(f - 1) : r \in loaded[g]

LEMMA NextCarried == FlowInv /\ CarriedInv /\ [Next]_vars => CarriedInv'
<1> SUFFICES ASSUME FlowInv, CarriedInv, [Next]_vars PROVE CarriedInv'
  OBVIOUS
<1>0. TypeOK /\ \A f \in Flows : pc[f] = "new" => loaded[f] = {}
  BY DEF FlowInv, LoadedInv
<1>a. \A f \in Flows : f \in Nat \ {0} /\ 1..(f - 1) \subseteq Flows
  BY SubmissionsAssumption DEF Flows
<1>1. CASE SelectFile \/ Unmount
  BY <1>1 DEF SelectFile, Unmount, Forget, closures, CarriedInv, NothingShown
<1>2. ASSUME NEW f \in Flows, Submit(f) PROVE CarriedInv'
  <2>1. /\ pc[f] = "new" /\ \A g \in 1..(f - 1) : pc[g] # "new"
        /\ pc' = [pc EXCEPT ![f] = "creating"] /\ loaded' = loaded
        /\ carried' = [carried EXCEPT ![f] = {r \in Results : shown[r] # 0}]
        /\ shown' = NothingShown
    BY <1>2 DEF Submit, Forget
  <2>2. \A r \in Results : shown[r] # 0 => shown[r] \in 1..(f - 1) /\ r \in loaded[shown[r]]
    <3> SUFFICES ASSUME NEW r \in Results, shown[r] # 0
                 PROVE  shown[r] \in 1..(f - 1) /\ r \in loaded[shown[r]]
      OBVIOUS
    <3> DEFINE g == shown[r]
    <3>1. g \in Flows /\ r \in loaded[g]
      BY <1>0, SubmissionsAssumption DEF TypeOK, Flows, CarriedInv
    <3>2. pc[g] # "new"
      BY <1>0, <3>1
    <3>3. ~(f \in 1..(g - 1)) /\ g # f
      BY <2>1, <3>1, <3>2 DEF CarriedInv
    <3>4. g \in 1..(f - 1)
      BY <1>a, <3>1, <3>3
    <3> QED
      BY <3>1, <3>4
  <2>3. (\A h \in Flows : \A g \in 1..(h - 1) : pc[g] = "new" => pc[h] = "new")'
    BY <1>0, <1>a, <2>1 DEF CarriedInv, TypeOK
  <2>4. (\A r \in Results : shown[r] # 0 => r \in loaded[shown[r]])'
    BY <2>1 DEF NothingShown
  <2>5. (\A h \in Flows : \A r \in carried[h] : \E g \in 1..(h - 1) : r \in loaded[g])'
    BY <1>0, <2>1, <2>2 DEF CarriedInv, TypeOK
  <2> QED
    BY <2>3, <2>4, <2>5 DEF CarriedInv
<1>3. ASSUME NEW f \in Flows, FlowStep(f) PROVE CarriedInv'
  <2>1. /\ pc[f] # "new" /\ carried' = carried
        /\ \E to \in Live \cup Ended : pc' = [pc EXCEPT ![f] = to]
    <3>1. CASE CreateJob(f) \/ Upload(f) \/ StopPolling(f)
      BY <3>1 DEF CreateJob, Upload, StopPolling, End, Live, Ended, TypeOK, closures
    <3>2. CASE (\E a \in Answers : Answered(f, a)) \/ RequestFails(f) \/ AllLoaded(f)
      BY <3>2 DEF Answered, RequestFails, AllLoaded, End, Live, Ended, closures
    <3>3. CASE Load(f)
      <4>1. pc[f] = "loading" /\ carried' = carried /\ pc' = [pc EXCEPT ![f] = pc[f]]
        BY <1>0, <3>3 DEF Load, TypeOK
      <4> QED
        BY <4>1 DEF Live
    <3> QED
      BY <1>3, <3>1, <3>2, <3>3 DEF FlowStep
  <2>2. (\A h \in Flows : \A g \in 1..(h - 1) : pc[g] = "new" => pc[h] = "new")'
    BY <1>0, <1>a, <2>1 DEF CarriedInv, TypeOK, Live, Ended
  <2>3. CASE Load(f)
    <3>1. NextResult(f) \in Results /\ f # 0
      BY <1>a DEF NextResult, Results
    <3>2. \A h \in Flows : loaded[h] \subseteq loaded'[h]
      BY <1>0, <2>3 DEF Load, TypeOK
    <3>3. (\A r \in Results : shown[r] # 0 => r \in loaded[shown[r]])'
      <4> SUFFICES ASSUME NEW r \in Results, shown'[r] # 0 PROVE r \in loaded'[shown'[r]]
        OBVIOUS
      <4>1. CASE r = NextResult(f)
        BY <1>0, <2>3, <3>1, <4>1 DEF Load, TypeOK
      <4>2. CASE r # NextResult(f)
        <5>1. shown'[r] = shown[r] /\ shown[r] \in Flows
          BY <1>0, <2>3, <4>2, SubmissionsAssumption DEF Load, TypeOK, Flows
        <5> QED
          BY <3>2, <5>1 DEF CarriedInv
      <4> QED
        BY <4>1, <4>2
    <3>4. (\A h \in Flows : \A r \in carried[h] : \E g \in 1..(h - 1) : r \in loaded[g])'
      BY <1>a, <2>1, <3>2 DEF CarriedInv
    <3> QED
      BY <2>2, <3>3, <3>4 DEF CarriedInv
  <2>4. CASE ~Load(f)
    <3>1. UNCHANGED <<shown, carried, loaded>>
      BY <1>3, <2>4
         DEF FlowStep, CreateJob, Upload, StopPolling, Answered, RequestFails, AllLoaded, closures
    <3> QED
      BY <2>2, <3>1 DEF CarriedInv
  <2> QED
    BY <2>3, <2>4
<1>4. CASE UNCHANGED vars
  BY <1>4 DEF vars, closures, CarriedInv
<1> QED
  BY <1>1, <1>2, <1>3, <1>4 DEF Next

\* The results a page that stopped at DONE leaves out are those an earlier
\* submission had loaded; they were on screen at the click, and handleSubmit's
\* closure kept them after the page had dropped them.
THEOREM MissingWasLoadedBeforeCorrect == Spec => []MissingWasLoadedBefore
<1>1. Init => CarriedInv
  BY DEF Init, CarriedInv, NothingShown
<1>2. FlowInv /\ CarriedInv => MissingWasLoadedBefore
  BY DEF FlowInv, LoadedInv, CarriedInv, MissingWasLoadedBefore
<1> QED
  BY <1>1, <1>2, FlowInvariant, NextCarried, PTL DEF Spec
=============================================================================
