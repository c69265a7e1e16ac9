--------------------------- MODULE FrontDoorProofs ---------------------------
(***************************************************************************)
(* What the front door promises, for any number of visitors, requests and  *)
(* restarts, any lengths of time and any set of configurations.            *)
(***************************************************************************)
EXTENDS FrontDoor, TLAPS

-----------------------------------------------------------------------------
(* Types *)

\* An entry after a failed attempt, and one that grew older, are entries.
LEMMA EntryType ==
  ASSUME TypeOK
  PROVE  /\ [count |-> 1, age |-> 0] \in [count : Nat, age : 0..(LoginWindow + 1)]
         /\ [attempts EXCEPT !.count = @ + 1] \in [count : Nat, age : 0..(LoginWindow + 1)]
         /\ [attempts EXCEPT !.age = Older(@, LoginWindow + 1)]
                \in [count : Nat, age : 0..(LoginWindow + 1)]
<1>1. /\ attempts = [count |-> attempts.count, age |-> attempts.age]
      /\ attempts.count \in Nat
      /\ attempts.age \in 0..(LoginWindow + 1)
  BY DEF TypeOK
<1>2. attempts.count + 1 \in Nat /\ 0 \in 0..(LoginWindow + 1)
  BY <1>1, WindowAssumption
<1>3. Older(attempts.age, LoginWindow + 1) \in 0..(LoginWindow + 1)
  BY <1>1, WindowAssumption DEF Older
<1>4. /\ [attempts EXCEPT !.count = @ + 1] = [count |-> attempts.count + 1, age |-> attempts.age]
      /\ [attempts EXCEPT !.age = Older(@, LoginWindow + 1)]
            = [count |-> attempts.count, age |-> Older(attempts.age, LoginWindow + 1)]
  BY <1>1
<1>5. QED BY <1>1, <1>2, <1>3, <1>4

\* Each step of the gate keeps the types.
LEMMA GateType ==
  ASSUME TypeOK,
         LoginFails \/ LoginAnswered \/ \E v \in Visitors : LoginSucceeds(v) \/ Logout(v)
  PROVE  TypeOK'
<1> USE WindowAssumption, TimesAssumption, BoundsAssumption
<1>1. CASE LoginFails
  <2>1. attempts' \in [count : Nat, age : 0..(LoginWindow + 1)]
    BY <1>1, EntryType DEF LoginFails, RecordFailedAttempt
  <2>2. stretch' \in [count : Nat, age : 0..LoginWindow]
    BY <1>1 DEF LoginFails, SeesWrongKey, TypeOK
  <2>3. pausing' \in 0..MaxPausing
    BY <1>1 DEF LoginFails, TypeOK
  <2>4. QED BY <2>1, <2>2, <2>3, <1>1 DEF LoginFails, TypeOK
<1>2. CASE LoginAnswered
  BY <1>2 DEF LoginAnswered, TypeOK
<1>3. CASE \E v \in Visitors : LoginSucceeds(v) \/ Logout(v)
  BY <1>3 DEF LoginSucceeds, SetSessionCookie, Logout, TypeOK, NoAttempts, ForgetsWrongKeys
<1>4. QED BY <1>1, <1>2, <1>3

\* A request is replaced by a request.
LEMMA UpdateType ==
  ASSUME TypeOK, NEW r \in Requests, NEW q \in Request, Update(r, q)
  PROVE  TypeOK'
BY DEF Update, TypeOK, gateVars

\* The changes made to a request leave it a request.
LEMMA RequestChanges ==
  ASSUME NEW q \in Request
  PROVE  /\ \A what \in {"nothing", "ok", "denied", "unknown"} :
               [q EXCEPT !.phase = "answered", !.told = what, !.elapsed = 0] \in Request
         /\ \A authentic \in BOOLEAN :
               [q EXCEPT !.phase = "reading", !.elapsed = 0, !.authentic = authentic] \in Request
         /\ [q EXCEPT !.phase = "waiting", !.upstream = "sent"] \in Request
         /\ [q EXCEPT !.via = "direct", !.phase = "waiting", !.upstream = "sent"] \in Request
         /\ \A outcome \in {"refused", "lost"} : [q EXCEPT !.upstream = outcome] \in Request
         /\ \A outcome \in {"done", "failed"}, n \in Nat :
               [q EXCEPT !.upstream = outcome, !.effects = n] \in Request
         /\ \A n \in 0..(ProxyTimeout + 1) : [q EXCEPT !.elapsed = n] \in Request
<1>1. 0 \in 0..(ProxyTimeout + 1)
  BY TimesAssumption
<1>2. QED BY <1>1 DEF Request

\* A request that is answered is still a request.
LEMMA TellType ==
  ASSUME TypeOK, NEW r \in Requests, NEW what \in {"nothing", "ok", "denied", "unknown"}
  PROVE  Tell(r, what) \in Request
BY RequestChanges DEF Tell, TypeOK

\* What one visitor or one request does keeps the types.
LEMMA RequestType ==
  ASSUME TypeOK, NEW r \in Requests,
         \/ \E v \in Visitors, sameOrigin \in BOOLEAN :
               TurnedAway(r, v, sameOrigin) \/ LetIn(r, v, sameOrigin)
         \/ Proceed(r)
  PROVE  TypeOK'
<1>0. requests[r] \in Request
  BY DEF TypeOK
<1>1. CASE \E what \in {"nothing", "ok", "denied", "unknown"} : Update(r, Tell(r, what))
  BY <1>1, TellType, UpdateType
<1>2. CASE \E v \in Visitors, sameOrigin \in BOOLEAN : LetIn(r, v, sameOrigin)
  <2>1. PICK v \in Visitors, sameOrigin \in BOOLEAN : LetIn(r, v, sameOrigin)
    BY <1>2
  <2>2. HasSession(v) \in BOOLEAN
    BY DEF HasSession
  <2>3. PICK a \in BOOLEAN : Update(r, [requests[r] EXCEPT !.phase = "reading",
                                          !.elapsed = 0, !.authentic = a])
    BY <2>1, <2>2 DEF LetIn
  <2>4. [requests[r] EXCEPT !.phase = "reading", !.elapsed = 0, !.authentic = a] \in Request
    BY <1>0, RequestChanges
  <2>5. QED BY <2>3, <2>4, UpdateType
<1>3. CASE BodyArrives(r)
  BY <1>0, <1>3, <1>1, RequestChanges, UpdateType DEF BodyArrives
<1>4. CASE GoesDirect(r)
  BY <1>0, <1>4, RequestChanges, UpdateType DEF GoesDirect
<1>5. CASE ApiHandles(r)
  <2>1. \A acts \in {0, 1} : requests[r].effects + acts \in Nat
    BY <1>0 DEF Request
  <2>2. \A outcome \in {"done", "failed"}, acts \in {0, 1} :
          [requests[r] EXCEPT !.upstream = outcome, !.effects = @ + acts] \in Request
    BY <1>0, <2>1, RequestChanges
  <2>3. QED BY <2>2, <1>0, <1>5, RequestChanges, UpdateType DEF ApiHandles
<1>6. CASE ApiMisses(r)
  BY <1>0, <1>6, RequestChanges, UpdateType DEF ApiMisses
<1>7. QED
  BY <1>1, <1>2, <1>3, <1>4, <1>5, <1>6
     DEF Proceed, TurnedAway, BodyArrives, BodyBreaksOff, AnswerArrives, Meaning,
         TimesOut, Breaks

\* Time and restarts keep the types.
LEMMA TimeType ==
  ASSUME TypeOK, Tick \/ Restart
  PROVE  TypeOK'
<1> USE WindowAssumption, TimesAssumption, BoundsAssumption
<1>1. CASE Tick
  <2>1. attempts' \in [count : Nat, age : 0..(LoginWindow + 1)]
    BY <1>1, EntryType DEF Tick, TypeOK
  <2>2. stretch' \in [count : Nat, age : 0..LoginWindow]
    BY <1>1 DEF Tick, TypeOK, NewStretch
  <2>3. session' \in [Visitors -> 0..SessionTtl]
    BY <1>1 DEF Tick, TypeOK
  <2>4. \A r \in Requests :
          [requests[r] EXCEPT !.elapsed = Older(@, ProxyTimeout + 1)] \in Request
    <3> TAKE r \in Requests
    <3>1. requests[r] \in Request /\ requests[r].elapsed \in 0..(ProxyTimeout + 1)
      BY DEF TypeOK, Request
    <3>2. Older(requests[r].elapsed, ProxyTimeout + 1) \in 0..(ProxyTimeout + 1)
      BY <3>1 DEF Older
    <3>3. QED BY <3>1, <3>2, RequestChanges
  <2>5. requests' \in [Requests -> Request]
    BY <1>1, <2>4 DEF Tick, TypeOK
  <2>6. QED BY <2>1, <2>2, <2>3, <2>5, <1>1 DEF Tick, TypeOK
<1>2. CASE Restart
  <2>1. \A r \in Requests : Tell(r, "unknown") \in Request
    BY TellType
  <2>2. requests' \in [Requests -> Request]
    BY <1>2, <2>1 DEF Restart, TypeOK
  <2>3. QED BY <2>2, <1>2 DEF Restart, TypeOK, NoAttempts, ForgetsWrongKeys
<1>3. QED BY <1>1, <1>2

LEMMA InitType == Init => TypeOK
BY WindowAssumption, TimesAssumption, BoundsAssumption, DeploymentsAssumption
   DEF Init, TypeOK, NoAttempts, NewStretch, New, Request

\* Every variable keeps its type: in particular no cookie outlives the lifetime
\* of a session, and no entry its window by more than what makes it void.
THEOREM TypeCorrect == Spec => []TypeOK
<1>1. Init => TypeOK
  BY InitType
<1>2. TypeOK /\ [Next]_vars => TypeOK'
  <2> SUFFICES ASSUME TypeOK, [Next]_vars PROVE TypeOK'
    OBVIOUS
  <2>1. CASE LoginFails \/ LoginAnswered \/ \E v \in Visitors : LoginSucceeds(v) \/ Logout(v)
    BY <2>1, GateType
  <2>2. CASE \E r \in Requests :
               \/ \E v \in Visitors, sameOrigin \in BOOLEAN :
                     TurnedAway(r, v, sameOrigin) \/ LetIn(r, v, sameOrigin)
               \/ Proceed(r)
    BY <2>2, RequestType
  <2>3. CASE Tick \/ Restart
    BY <2>3, TimeType
  <2>4. CASE UNCHANGED vars
    BY <2>4 DEF TypeOK, vars, gateVars
  <2>5. QED BY <2>1, <2>2, <2>3, <2>4 DEF Next, Visit
<1>3. QED BY <1>1, <1>2, PTL DEF Spec

-----------------------------------------------------------------------------
(* The limit on failed logins *)

\* The entry and a stretch of time that is looked at.  When the first attempt of
\* the entry lies in the stretch, the stretch has seen all attempts of the entry,
\* and before them fewer than the limit: one window ended within it, and the
\* entry of that window was below the limit when its last key was compared.
\* When the entry is older, the stretch has seen fewer keys than it counts.
StretchInv ==
    LET recorded == attempts.count
        seen == stretch.count
    IN  /\ recorded <= LoginMaxAttempts
        /\ recorded = 0 => seen = 0
        /\ recorded > 0 /\ attempts.age > stretch.age => seen < recorded
        /\ recorded > 0 /\ attempts.age <= stretch.age =>
              seen \in recorded..(LoginMaxAttempts + recorded - 1)

LimitInv == TypeOK /\ StretchInv

\* The parts of the two records.
LEMMA LimitParts ==
  ASSUME TypeOK
  PROVE  /\ attempts = [count |-> attempts.count, age |-> attempts.age]
         /\ attempts.count \in Nat /\ attempts.age \in 0..(LoginWindow + 1)
         /\ stretch = [count |-> stretch.count, age |-> stretch.age]
         /\ stretch.count \in Nat /\ stretch.age \in 0..LoginWindow
BY DEF TypeOK

\* A wrong key is recorded and seen, in the window that runs or in a new one.
LEMMA WrongKeyKeeps ==
  ASSUME LimitInv, LoginFails
  PROVE  StretchInv'
<1>1. stretch' = [count |-> stretch.count + 1, age |-> stretch.age]
  BY LimitParts DEF LimitInv, LoginFails, SeesWrongKey
<1>2. CASE Expired
  <2>1. attempts' = [count |-> 1, age |-> 0]
    BY <1>2 DEF LoginFails, RecordFailedAttempt
  <2>2. stretch.count <= LoginMaxAttempts - 1
    BY <1>2, LimitParts, WindowAssumption DEF LimitInv, StretchInv, Expired
  <2>3. QED BY <1>1, <2>1, <2>2, LimitParts, WindowAssumption DEF LimitInv, StretchInv
<1>3. CASE ~Expired
  <2>1. attempts' = [count |-> attempts.count + 1, age |-> attempts.age]
    BY <1>3, LimitParts DEF LimitInv, LoginFails, RecordFailedAttempt
  <2>2. attempts.count < LoginMaxAttempts /\ attempts.count > 0
    BY <1>3, LimitParts, WindowAssumption
       DEF LimitInv, LoginFails, ComparesKey, TooManyAttempts, Expired
  <2>3. QED BY <1>1, <2>1, <2>2, LimitParts, WindowAssumption DEF LimitInv, StretchInv
<1>4. QED BY <1>2, <1>3

\* The entry and the stretch age together, until a new stretch begins.
LEMMA TickKeeps ==
  ASSUME LimitInv, Tick
  PROVE  StretchInv'
<1>1. attempts'.count = attempts.count
  BY LimitParts DEF LimitInv, Tick
<1>2. attempts.count > 0 =>
        attempts'.age = IF attempts.age < LoginWindow + 1 THEN attempts.age + 1 ELSE attempts.age
  BY LimitParts DEF LimitInv, Tick, Older
<1>3. CASE stretch' = NewStretch
  <2>1. stretch'.count = 0 /\ stretch'.age = 0
    BY <1>3 DEF NewStretch
  <2>2. attempts.count > 0 => attempts'.age > 0
    BY <1>2, LimitParts, WindowAssumption DEF LimitInv
  <2>3. attempts'.count > 0 => attempts'.age > stretch'.age
    BY <1>1, <2>1, <2>2, LimitParts, WindowAssumption DEF LimitInv, Tick, Older
  <2>4. attempts'.age \in Nat
    BY LimitParts, WindowAssumption DEF LimitInv, Tick, Older
  <2>5. QED BY <1>1, <2>1, <2>3, <2>4, LimitParts, WindowAssumption DEF LimitInv, StretchInv
<1>4. CASE stretch.age < LoginWindow /\ stretch' = [stretch EXCEPT !.age = @ + 1]
  <2>1. stretch'.count = stretch.count /\ stretch'.age = stretch.age + 1
    BY <1>4, LimitParts DEF LimitInv
  <2>2. attempts.count > 0 =>
          (attempts'.age <= stretch'.age <=> attempts.age <= stretch.age)
    BY <1>2, <1>4, <2>1, LimitParts, WindowAssumption DEF LimitInv
  <2>3. attempts.count > 0 =>
          (attempts'.age > stretch'.age <=> attempts.age > stretch.age)
    BY <1>2, <1>4, <2>1, LimitParts, WindowAssumption DEF LimitInv
  <2>4. QED BY <1>1, <2>1, <2>2, <2>3, LimitParts DEF LimitInv, StretchInv
<1>5. QED BY <1>3, <1>4 DEF Tick

LEMMA LimitInvariant == Spec => []LimitInv
<1>1. Init => LimitInv
  BY InitType, WindowAssumption DEF Init, LimitInv, StretchInv, NoAttempts, NewStretch
<1>2. LimitInv /\ [Next]_vars => StretchInv'
  <2> SUFFICES ASSUME LimitInv, [Next]_vars PROVE StretchInv'
    OBVIOUS
  <2>1. CASE LoginFails
    BY <2>1, WrongKeyKeeps
  <2>2. CASE Tick
    BY <2>2, TickKeeps
  <2>3. CASE attempts' = NoAttempts /\ ForgetsWrongKeys
    BY <2>3, LimitParts, WindowAssumption
       DEF LimitInv, StretchInv, NoAttempts, ForgetsWrongKeys
  <2>4. CASE UNCHANGED <<attempts, stretch>>
    BY <2>4 DEF LimitInv, StretchInv
  <2>5. (\E v \in Visitors : Visit(v)) \/ LoginAnswered \/ Restart =>
           \/ attempts' = NoAttempts /\ ForgetsWrongKeys
           \/ UNCHANGED <<attempts, stretch>>
    BY DEF Visit, LoginSucceeds, Logout, TurnedAway, LetIn, Update, gateVars,
           LoginAnswered, Restart
  <2>6. (\E r \in Requests : Proceed(r)) => UNCHANGED <<attempts, stretch>>
    BY DEF Proceed, BodyArrives, BodyBreaksOff, AnswerArrives, TimesOut, Breaks,
           GoesDirect, ApiHandles, ApiMisses, Update, gateVars
  <2>7. QED BY <2>1, <2>2, <2>3, <2>4, <2>5, <2>6 DEF Next, vars, gateVars
<1>3. QED BY <1>1, <1>2, TypeCorrect, PTL DEF Spec, LimitInv

\* A refused address has given as many wrong keys as the limit says within one
\* window, and no stretch as long as the window sees twice the limit, for every
\* window and every limit.
THEOREM LimitIsKeptCorrect == Spec => []LimitIsKept
<1>1. LimitInv => LimitIsKept
  BY LimitParts, WindowAssumption
     DEF LimitInv, StretchInv, LimitIsKept, TooManyAttempts, Expired
<1>2. QED BY <1>1, LimitInvariant, PTL

-----------------------------------------------------------------------------
(* A lockout runs out *)

\* While an address is refused its entry can only grow older, with every tick, or go
\* with a restart: nothing it tries, and nothing anybody else does, makes the
\* lockout longer.  It is the safety half of LockoutEnds.
LockoutRunsOut ==
    [][ TooManyAttempts =>
          /\ attempts.age <= LoginWindow
          /\ \/ attempts' = NoAttempts
             \/ attempts'.count = attempts.count /\ attempts'.age \in {attempts.age, attempts.age + 1}
          /\ Tick => attempts'.age = attempts.age + 1 ]_vars

\* A refused login does not touch the entry, so an address cannot shut itself, or
\* those behind the same address, out for longer than one window (recordFailedAttempt,
\* the 429 of POST /login).
THEOREM LockoutRunsOutCorrect == Spec => LockoutRunsOut
<1>1. TypeOK /\ [Next]_vars =>
        [ TooManyAttempts =>
          /\ attempts.age <= LoginWindow
          /\ \/ attempts' = NoAttempts
             \/ attempts'.count = attempts.count /\ attempts'.age \in {attempts.age, attempts.age + 1}
          /\ Tick => attempts'.age = attempts.age + 1 ]_vars
  <2> SUFFICES ASSUME TypeOK, Next, TooManyAttempts
               PROVE  /\ attempts.age <= LoginWindow
                      /\ \/ attempts' = NoAttempts
                         \/ /\ attempts'.count = attempts.count
                            /\ attempts'.age \in {attempts.age, attempts.age + 1}
                      /\ Tick => attempts'.age = attempts.age + 1
    OBVIOUS
  <2>1. attempts.count > 0 /\ attempts.age <= LoginWindow
    BY LimitParts, WindowAssumption DEF TooManyAttempts, Expired
  <2>2. ~LoginFails /\ \A v \in Visitors : ~LoginSucceeds(v)
    BY DEF LoginFails, LoginSucceeds, ComparesKey
  <2>3. Tick => attempts'.count = attempts.count /\ attempts'.age = attempts.age + 1
    BY <2>1, LimitParts, WindowAssumption DEF Tick, Older
  <2>4. Restart => attempts' = NoAttempts
    BY DEF Restart
  <2>5. (\E v \in Visitors : Visit(v)) \/ LoginAnswered => attempts' = attempts
    BY <2>2 DEF Visit, Logout, TurnedAway, LetIn, Update, gateVars, LoginAnswered
  <2>6. (\E r \in Requests : Proceed(r)) => attempts' = attempts
    BY DEF Proceed, BodyArrives, BodyBreaksOff, AnswerArrives, TimesOut, Breaks,
           GoesDirect, ApiHandles, ApiMisses, Update, gateVars
  <2>7. CASE Tick
    BY <2>1, <2>3, <2>7
  <2>8. CASE Restart \/ UNCHANGED attempts
    <3>1. Tick => attempts'.age = attempts.age + 1
      BY <2>3
    <3>2. QED BY <2>1, <2>4, <2>8, <3>1
  <2>9. QED BY <2>2, <2>5, <2>6, <2>7, <2>8 DEF Next
<1>2. QED BY <1>1, TypeCorrect, PTL DEF Spec, LockoutRunsOut

-----------------------------------------------------------------------------
(* Answers and effects *)

\* What the API made of a request, what its client was told, and how often the
\* API acted go together: before it is taken the API has not acted; only a
\* refusal, or not being forwarded at all, may have been told as "denied".
AnswerInv(q) ==
    /\ q.phase # "answered" => q.told = "nothing"
    /\ q.phase \in {"new", "reading"} => q.upstream = "none"
    /\ q.upstream \in {"none", "sent", "refused", "lost"} => q.effects = 0
    /\ q.upstream = "done" => q.effects = 1
    /\ q.upstream = "failed" => q.effects \in {0, 1}
    /\ q.told = "ok" => q.upstream = "done"
    /\ q.told = "denied" => q.upstream \in {"none", "refused"}
    /\ q.phase = "waiting" => q.upstream # "none"

\* On Azure only a visitor's request with a session gets past the proxy, and a
\* request that comes without the proxy is never acted on.
ClosedInv(q) ==
    deployment.azure =>
        /\ q.via = "proxy" /\ (q.phase = "reading" \/ q.upstream # "none") => q.authentic
        /\ q.via = "direct" => q.effects = 0
        /\ q.upstream = "none" => q.effects = 0
        /\ q.phase = "new" => q.via = "proxy"
        /\ q.phase \in {"new", "reading"} => q.upstream = "none"

DoorInv ==
    /\ TypeOK
    /\ \A r \in Requests : AnswerInv(requests[r]) /\ ClosedInv(requests[r])

\* It is enough that the request that is replaced keeps the two.
LEMMA UpdateKeeps ==
  ASSUME DoorInv, NEW r \in Requests, NEW q, Update(r, q),
         AnswerInv(q), ClosedInv(q), TypeOK'
  PROVE  DoorInv'
<1>1. /\ deployment' = deployment
      /\ requests' = [requests EXCEPT ![r] = q]
      /\ requests \in [Requests -> Request]
  BY DEF Update, DoorInv, TypeOK
<1>2. \A s \in Requests : requests'[s] = q \/ requests'[s] = requests[s]
  BY <1>1
<1>3. \A s \in Requests : AnswerInv(requests'[s]) /\ ClosedInv(requests'[s])
  BY <1>2 DEF DoorInv
<1>4. \A s \in Requests : (AnswerInv(requests[s]))' /\ (ClosedInv(requests[s]))'
  BY <1>1, <1>3 DEF AnswerInv, ClosedInv
<1>5. QED BY <1>4 DEF DoorInv

\* The fields of a request after each change.
LEMMA Fields ==
  ASSUME NEW q \in Request
  PROVE  /\ \A what : LET p == [q EXCEPT !.phase = "answered", !.told = what, !.elapsed = 0]
                      IN  /\ p.phase = "answered" /\ p.told = what /\ p.via = q.via
                          /\ p.upstream = q.upstream /\ p.effects = q.effects
                          /\ p.authentic = q.authentic
         /\ \A a : LET p == [q EXCEPT !.phase = "reading", !.elapsed = 0, !.authentic = a]
                   IN  /\ p.phase = "reading" /\ p.authentic = a /\ p.told = q.told
                       /\ p.via = q.via /\ p.upstream = q.upstream /\ p.effects = q.effects
         /\ LET p == [q EXCEPT !.phase = "waiting", !.upstream = "sent"]
            IN  /\ p.phase = "waiting" /\ p.upstream = "sent" /\ p.told = q.told
                /\ p.via = q.via /\ p.effects = q.effects /\ p.authentic = q.authentic
         /\ LET p == [q EXCEPT !.via = "direct", !.phase = "waiting", !.upstream = "sent"]
            IN  /\ p.phase = "waiting" /\ p.upstream = "sent" /\ p.told = q.told
                /\ p.via = "direct" /\ p.effects = q.effects
         /\ \A o : LET p == [q EXCEPT !.upstream = o]
                   IN  /\ p.phase = q.phase /\ p.upstream = o /\ p.told = q.told
                       /\ p.via = q.via /\ p.effects = q.effects /\ p.authentic = q.authentic
         /\ \A o, n : LET p == [q EXCEPT !.upstream = o, !.effects = n]
                      IN  /\ p.phase = q.phase /\ p.upstream = o /\ p.told = q.told
                          /\ p.via = q.via /\ p.effects = n /\ p.authentic = q.authentic
         /\ \A n : LET p == [q EXCEPT !.elapsed = n]
                   IN  /\ p.phase = q.phase /\ p.upstream = q.upstream /\ p.told = q.told
                       /\ p.via = q.via /\ p.effects = q.effects /\ p.authentic = q.authentic
BY DEF Request

\* A client may be told "unknown" at any time, "denied" when nothing was
\* forwarded.
LEMMA TellKeeps ==
  ASSUME DoorInv, NEW r \in Requests
  PROVE  /\ AnswerInv(Tell(r, "unknown")) /\ ClosedInv(Tell(r, "unknown"))
         /\ requests[r].upstream = "none" =>
               AnswerInv(Tell(r, "denied")) /\ ClosedInv(Tell(r, "denied"))
<1>1. requests[r] \in Request /\ AnswerInv(requests[r]) /\ ClosedInv(requests[r])
  BY DEF DoorInv, TypeOK
<1>2. QED BY <1>1, Fields DEF Tell, AnswerInv, ClosedInv

\* Whatever happens to one request keeps the invariant.
LEMMA RequestKeeps ==
  ASSUME DoorInv, NEW r \in Requests,
         \/ \E v \in Visitors, sameOrigin \in BOOLEAN :
               TurnedAway(r, v, sameOrigin) \/ LetIn(r, v, sameOrigin)
         \/ Proceed(r)
  PROVE  DoorInv'
<1> DEFINE q == requests[r]
<1>0. TypeOK'
  BY RequestType DEF DoorInv
<1>1. q \in Request /\ AnswerInv(q) /\ ClosedInv(q)
  BY DEF DoorInv, TypeOK
<1>2. CASE \E v \in Visitors, sameOrigin \in BOOLEAN : TurnedAway(r, v, sameOrigin)
  <2>1. Update(r, Tell(r, "denied")) /\ q.upstream = "none"
    BY <1>1, <1>2 DEF TurnedAway, IsNext, AnswerInv
  <2>2. QED BY <2>1, <1>0, TellKeeps, UpdateKeeps
<1>3. CASE \E v \in Visitors, sameOrigin \in BOOLEAN : LetIn(r, v, sameOrigin)
  <2>1. PICK v \in Visitors, sameOrigin \in BOOLEAN : LetIn(r, v, sameOrigin)
    BY <1>3
  <2>2. q.phase = "new" /\ (deployment.azure => HasSession(v))
    BY <2>1 DEF LetIn, IsNext, Misconfigured, IsAuthenticated
  <2>3. \E a \in BOOLEAN :
          /\ deployment.azure => a
          /\ Update(r, [q EXCEPT !.phase = "reading", !.elapsed = 0, !.authentic = a])
    <3>1. HasSession(v) \in BOOLEAN
      BY DEF HasSession
    <3>2. QED BY <2>1, <2>2, <3>1 DEF LetIn
  <2>4. PICK a \in BOOLEAN :
          /\ deployment.azure => a
          /\ Update(r, [q EXCEPT !.phase = "reading", !.elapsed = 0, !.authentic = a])
    BY <2>3
  <2> DEFINE p == [q EXCEPT !.phase = "reading", !.elapsed = 0, !.authentic = a]
  <2>5. AnswerInv(p) /\ ClosedInv(p)
    BY <1>1, <2>2, <2>4, Fields DEF AnswerInv, ClosedInv
  <2>6. QED BY <2>4, <2>5, <1>0, UpdateKeeps
<1>4. CASE BodyArrives(r)
  <2> DEFINE p == [q EXCEPT !.phase = "waiting", !.upstream = "sent"]
  <2>1. q.phase = "reading"
    BY <1>4 DEF BodyArrives
  <2>2. AnswerInv(p) /\ ClosedInv(p)
    BY <1>1, <2>1, Fields DEF AnswerInv, ClosedInv
  <2>3. QED BY <2>2, <1>4, <1>0, TellKeeps, UpdateKeeps DEF BodyArrives
<1>5. CASE BodyBreaksOff(r) \/ TimesOut(r) \/ Breaks(r)
  BY <1>5, <1>0, TellKeeps, UpdateKeeps DEF BodyBreaksOff, TimesOut, Breaks
<1>6. CASE AnswerArrives(r)
  <2>1. q.upstream \in {"done", "refused", "failed"}
    BY <1>6 DEF AnswerArrives, Meaning
  <2>2. PICK what \in Meaning[q.upstream] : Update(r, Tell(r, what))
    BY <1>6 DEF AnswerArrives
  <2>3. \/ q.upstream = "done" /\ what = "ok"
        \/ q.upstream = "refused" /\ what = "denied"
        \/ what = "unknown"
    BY <2>1, <2>2 DEF Meaning
  <2>4. AnswerInv(Tell(r, what)) /\ ClosedInv(Tell(r, what))
    BY <1>1, <2>3, Fields DEF Tell, AnswerInv, ClosedInv
  <2>5. QED BY <2>2, <2>4, <1>0, UpdateKeeps
<1>7. CASE GoesDirect(r)
  <2> DEFINE p == [q EXCEPT !.via = "direct", !.phase = "waiting", !.upstream = "sent"]
  <2>1. q.phase = "new"
    BY <1>7 DEF GoesDirect, IsNext
  <2>2. AnswerInv(p) /\ ClosedInv(p)
    BY <1>1, <2>1, Fields DEF AnswerInv, ClosedInv
  <2>3. QED BY <2>2, <1>7, <1>0, UpdateKeeps DEF GoesDirect
<1>8. CASE ApiHandles(r) \/ ApiMisses(r)
  <2>1. q.upstream = "sent" /\ q.effects = 0 /\ q.told \notin {"ok", "denied"}
    BY <1>1, <1>8 DEF ApiHandles, ApiMisses, AnswerInv
  <2>2. CASE \E o \in {"refused", "lost"} : Update(r, [q EXCEPT !.upstream = o])
    <3>1. PICK o \in {"refused", "lost"} : Update(r, [q EXCEPT !.upstream = o])
      BY <2>2
    <3>2. AnswerInv([q EXCEPT !.upstream = o]) /\ ClosedInv([q EXCEPT !.upstream = o])
      BY <1>1, <2>1, Fields DEF AnswerInv, ClosedInv
    <3>3. QED BY <3>1, <3>2, <1>0, UpdateKeeps
  <2>3. CASE \E acts \in {0, 1}, outcome \in {"done", "failed"} :
               /\ SecretAccepted(r)
               /\ outcome = "done" => acts = 1
               /\ Update(r, [q EXCEPT !.upstream = outcome, !.effects = @ + acts])
    <3>1. PICK acts \in {0, 1}, outcome \in {"done", "failed"} :
               /\ SecretAccepted(r)
               /\ outcome = "done" => acts = 1
               /\ Update(r, [q EXCEPT !.upstream = outcome, !.effects = @ + acts])
      BY <2>3
    <3> DEFINE p == [q EXCEPT !.upstream = outcome, !.effects = @ + acts]
    <3>2. q.effects + acts = acts
      BY <2>1
    <3>3. deployment.azure => q.via # "direct"
      BY <3>1 DEF SecretAccepted, Provided
    <3>4. /\ p.phase = q.phase /\ p.upstream = outcome /\ p.told = q.told
          /\ p.via = q.via /\ p.effects = acts /\ p.authentic = q.authentic
      BY <1>1, <3>2, Fields
    <3>5. AnswerInv(p) /\ ClosedInv(p)
      BY <1>1, <2>1, <3>1, <3>3, <3>4 DEF AnswerInv, ClosedInv
    <3>6. QED BY <3>1, <3>5, <1>0, UpdateKeeps
  <2>4. QED BY <1>8, <2>2, <2>3 DEF ApiHandles, ApiMisses
<1>9. QED BY <1>2, <1>3, <1>4, <1>5, <1>6, <1>7, <1>8 DEF Proceed

\* Time only moves timers, a restart only tells clients "unknown".
LEMMA TimeKeeps ==
  ASSUME DoorInv, Tick \/ Restart
  PROVE  DoorInv'
<1>1. TypeOK' /\ deployment' = deployment
  BY TimeType DEF DoorInv, Tick, Restart
<1>2. ASSUME NEW r \in Requests
      PROVE  AnswerInv(requests'[r]) /\ ClosedInv(requests'[r])
  <2>1. requests[r] \in Request /\ AnswerInv(requests[r]) /\ ClosedInv(requests[r])
    BY DEF DoorInv, TypeOK
  <2>2. \/ requests'[r] = requests[r]
        \/ requests'[r] = Tell(r, "unknown")
        \/ \E n : requests'[r] = [requests[r] EXCEPT !.elapsed = n]
    BY DEF Tick, Restart
  <2>3. ASSUME NEW n
        PROVE  /\ AnswerInv([requests[r] EXCEPT !.elapsed = n])
               /\ ClosedInv([requests[r] EXCEPT !.elapsed = n])
    BY <2>1, Fields DEF AnswerInv, ClosedInv
  <2>4. QED BY <2>1, <2>2, <2>3, TellKeeps
<1>3. \A r \in Requests : (AnswerInv(requests[r]))' /\ (ClosedInv(requests[r]))'
  BY <1>1, <1>2 DEF AnswerInv, ClosedInv
<1>4. QED BY <1>1, <1>3 DEF DoorInv

LEMMA DoorInvariant == Spec => []DoorInv
<1>1. Init => TypeOK
  BY InitType
<1>2. Init => DoorInv
  <2> SUFFICES ASSUME Init PROVE DoorInv
    OBVIOUS
  <2>1. \A r \in Requests : requests[r] = New
    BY DEF Init
  <2>2. AnswerInv(New) /\ ClosedInv(New)
    BY DEF New, AnswerInv, ClosedInv
  <2>3. QED BY <1>1, <2>1, <2>2 DEF DoorInv
<1>3. DoorInv /\ [Next]_vars => DoorInv'
  <2> SUFFICES ASSUME DoorInv, [Next]_vars PROVE DoorInv'
    OBVIOUS
  <2>1. CASE LoginFails \/ LoginAnswered \/ \E v \in Visitors : LoginSucceeds(v) \/ Logout(v)
    <3>1. TypeOK' /\ UNCHANGED <<deployment, requests>>
      BY <2>1, GateType DEF DoorInv, LoginFails, LoginAnswered, LoginSucceeds, Logout
    <3>2. QED BY <3>1 DEF DoorInv, AnswerInv, ClosedInv
  <2>2. CASE \E r \in Requests :
               \/ \E v \in Visitors, sameOrigin \in BOOLEAN :
                     TurnedAway(r, v, sameOrigin) \/ LetIn(r, v, sameOrigin)
               \/ Proceed(r)
    BY <2>2, RequestKeeps
  <2>3. CASE Tick \/ Restart
    BY <2>3, TimeKeeps
  <2>4. CASE UNCHANGED vars
    BY <2>4 DEF DoorInv, TypeOK, AnswerInv, ClosedInv, vars, gateVars
  <2>5. QED BY <2>1, <2>2, <2>3, <2>4 DEF Next, Visit
<1>4. QED BY <1>2, <1>3, PTL DEF Spec

\* What a client is told is true, whatever the API makes of a request the proxy
\* has given up.
THEOREM AnswersAreTrueCorrect == Spec => []AnswersAreTrue
<1>1. DoorInv => AnswersAreTrue
  <2> SUFFICES ASSUME DoorInv, NEW r \in Requests
               PROVE  /\ requests[r].effects <= 1
                      /\ requests[r].told = "ok" => requests[r].effects = 1
                      /\ requests[r].told = "denied" =>
                            /\ requests[r].effects = 0
                            /\ requests[r].upstream \in {"none", "refused"}
    BY DEF AnswersAreTrue
  <2>1. requests[r] \in Request /\ AnswerInv(requests[r])
    BY DEF DoorInv, TypeOK
  <2>2. requests[r].upstream \in {"none", "sent", "done", "refused", "failed", "lost"}
    BY <2>1 DEF Request
  <2>3. QED BY <2>1, <2>2 DEF AnswerInv
<1>2. QED BY <1>1, DoorInvariant, PTL

\* On Azure the API acts only for visitors with a session, through the proxy,
\* for every combination of settings.
THEOREM FailsClosedCorrect == Spec => []FailsClosed
<1>1. DoorInv => FailsClosed
  <2> SUFFICES ASSUME DoorInv, NEW r \in Requests, deployment.azure, requests[r].effects > 0
               PROVE  requests[r].via = "proxy" /\ requests[r].authentic
    BY DEF FailsClosed
  <2>1. requests[r] \in Request /\ ClosedInv(requests[r])
    BY DEF DoorInv, TypeOK
  <2>2. requests[r].effects # 0 /\ requests[r].via \in {"proxy", "direct"}
    BY <2>1 DEF Request
  <2>3. QED BY <2>1, <2>2 DEF ClosedInv
<1>2. QED BY <1>1, DoorInvariant, PTL

-----------------------------------------------------------------------------
(* A request only goes on *)

PhaseRank == [new |-> 3, reading |-> 2, waiting |-> 1, answered |-> 0]

\* What may become of a request in one step: it goes on to a later phase, what its
\* client was told stays, it is forwarded once and handled once, and the timer that
\* was started for it is not set back.
GoesOn(q, p) ==
    /\ PhaseRank[p.phase] <= PhaseRank[q.phase]
    /\ q.phase = "answered" => p.told = q.told
    /\ p.upstream # q.upstream =>
          \/ q.upstream = "none" /\ p.upstream = "sent"
          \/ q.upstream = "sent" /\ p.upstream \in {"done", "refused", "failed", "lost"}
    /\ p.effects # q.effects => q.upstream = "sent" /\ p.upstream # "sent"
    /\ q.phase # "new" /\ p.phase # "answered" => p.elapsed >= q.elapsed

\* While the time of a request runs it is used up by every tick.
RequestsOnlyGoOn ==
    [][ \A r \in Requests :
          /\ GoesOn(requests[r], requests'[r])
          /\ /\ Tick
             /\ requests[r].phase \in {"reading", "waiting"} /\ requests[r].via = "proxy"
             /\ requests[r].elapsed <= ProxyTimeout
             => requests'[r].elapsed = requests[r].elapsed + 1 ]_vars

LEMMA StaysAsItIs == \A q \in Request : GoesOn(q, q)
BY TimesAssumption DEF GoesOn, Request, PhaseRank

\* Every change that is made to a request lets it go on.
LEMMA ChangesGoOn ==
  ASSUME NEW q \in Request
  PROVE  /\ q.phase # "answered" =>
              \A what : GoesOn(q, [q EXCEPT !.phase = "answered", !.told = what, !.elapsed = 0])
         /\ q.phase = "new" =>
              /\ \A a : GoesOn(q, [q EXCEPT !.phase = "reading", !.elapsed = 0, !.authentic = a])
              /\ q.upstream = "none" =>
                   GoesOn(q, [q EXCEPT !.via = "direct", !.phase = "waiting", !.upstream = "sent"])
         /\ q.phase = "reading" /\ q.upstream = "none" =>
              GoesOn(q, [q EXCEPT !.phase = "waiting", !.upstream = "sent"])
         /\ q.upstream = "sent" =>
              /\ \A o \in {"refused", "lost"} : GoesOn(q, [q EXCEPT !.upstream = o])
              /\ \A o \in {"done", "failed"}, n \in Nat :
                    GoesOn(q, [q EXCEPT !.upstream = o, !.effects = n])
         /\ \A n \in Nat : n >= q.elapsed => GoesOn(q, [q EXCEPT !.elapsed = n])
<1>1. q.elapsed \in Nat /\ q.phase \in {"new", "reading", "waiting", "answered"}
  BY TimesAssumption DEF Request
<1> USE <1>1 DEF GoesOn, PhaseRank, Request
<1>2. q.phase # "answered" =>
        \A what : GoesOn(q, [q EXCEPT !.phase = "answered", !.told = what, !.elapsed = 0])
  OBVIOUS
<1>3. q.phase = "new" =>
        /\ \A a : GoesOn(q, [q EXCEPT !.phase = "reading", !.elapsed = 0, !.authentic = a])
        /\ q.upstream = "none" =>
             GoesOn(q, [q EXCEPT !.via = "direct", !.phase = "waiting", !.upstream = "sent"])
  OBVIOUS
<1>4. q.phase = "reading" /\ q.upstream = "none" =>
        GoesOn(q, [q EXCEPT !.phase = "waiting", !.upstream = "sent"])
  OBVIOUS
<1>5. q.upstream = "sent" =>
        /\ \A o \in {"refused", "lost"} : GoesOn(q, [q EXCEPT !.upstream = o])
        /\ \A o \in {"done", "failed"}, n \in Nat :
              GoesOn(q, [q EXCEPT !.upstream = o, !.effects = n])
  OBVIOUS
<1>6. \A n \in Nat : n >= q.elapsed => GoesOn(q, [q EXCEPT !.elapsed = n])
  OBVIOUS
<1>7. QED BY <1>2, <1>3, <1>4, <1>5, <1>6

\* The step of one request.
LEMMA RequestGoesOn ==
  ASSUME DoorInv, NEW r \in Requests,
         \/ \E v \in Visitors, sameOrigin \in BOOLEAN :
               TurnedAway(r, v, sameOrigin) \/ LetIn(r, v, sameOrigin)
         \/ Proceed(r)
  PROVE  \A s \in Requests : GoesOn(requests[s], requests'[s])
<1> DEFINE q == requests[r]
<1>0. q \in Request /\ (q.phase \in {"new", "reading"} => q.upstream = "none")
  BY DEF DoorInv, AnswerInv, TypeOK
<1>1. ASSUME NEW p, Update(r, p), GoesOn(q, p)
      PROVE  \A s \in Requests : GoesOn(requests[s], requests'[s])
  <2>1. \A s \in Requests :
          /\ requests[s] \in Request
          /\ requests'[s] = IF s = r THEN p ELSE requests[s]
    BY <1>1 DEF Update, DoorInv, TypeOK
  <2>2. QED BY <1>1, <2>1, StaysAsItIs
<1>2. CASE q.phase # "answered" /\ \E what : Update(r, Tell(r, what))
  BY <1>0, <1>1, <1>2, ChangesGoOn DEF Tell
<1>3. CASE \E v \in Visitors, sameOrigin \in BOOLEAN : LetIn(r, v, sameOrigin)
  BY <1>0, <1>1, <1>3, ChangesGoOn DEF LetIn, IsNext
<1>4. CASE BodyArrives(r)
  BY <1>0, <1>1, <1>2, <1>4, ChangesGoOn DEF BodyArrives
<1>5. CASE GoesDirect(r)
  BY <1>0, <1>1, <1>5, ChangesGoOn DEF GoesDirect, IsNext
<1>6. CASE ApiMisses(r)
  BY <1>0, <1>1, <1>6, ChangesGoOn DEF ApiMisses
<1>7. CASE ApiHandles(r)
  <2>1. q.upstream = "sent" /\ \A acts \in {0, 1} : q.effects + acts \in Nat
    BY <1>0, <1>7 DEF ApiHandles, Request
  <2>2. \A outcome \in {"done", "failed"}, acts \in {0, 1} :
          GoesOn(q, [q EXCEPT !.upstream = outcome, !.effects = @ + acts])
    BY <1>0, <2>1, ChangesGoOn
  <2>3. GoesOn(q, [q EXCEPT !.upstream = "refused"])
    BY <1>0, <2>1, ChangesGoOn
  <2>4. QED BY <1>1, <1>7, <2>2, <2>3 DEF ApiHandles
<1>8. QED
  BY <1>2, <1>3, <1>4, <1>5, <1>6, <1>7
     DEF Proceed, TurnedAway, IsNext, BodyBreaksOff, AnswerArrives, TimesOut, Breaks

\* Time and restarts.
LEMMA TimeGoesOn ==
  ASSUME DoorInv, Tick \/ Restart, NEW r \in Requests
  PROVE  /\ GoesOn(requests[r], requests'[r])
         /\ /\ Tick
            /\ requests[r].phase \in {"reading", "waiting"} /\ requests[r].via = "proxy"
            /\ requests[r].elapsed <= ProxyTimeout
            => requests'[r].elapsed = requests[r].elapsed + 1
<1> DEFINE q == requests[r]
           n == Older(q.elapsed, ProxyTimeout + 1)
<1>0. q \in Request /\ q.elapsed \in Nat
  BY TimesAssumption DEF DoorInv, TypeOK, Request
<1>1. /\ n \in Nat /\ n >= q.elapsed
      /\ q.elapsed <= ProxyTimeout => n = q.elapsed + 1
      /\ [q EXCEPT !.elapsed = n].elapsed = n
  BY <1>0, TimesAssumption DEF Older, Request
<1>2. \/ requests'[r] = q
      \/ requests'[r] = [q EXCEPT !.elapsed = n]
      \/ q.phase # "answered" /\ requests'[r] = Tell(r, "unknown")
  BY DEF Tick, Restart
<1>3. Tick /\ q.phase \in {"reading", "waiting"} /\ q.via = "proxy" =>
        requests'[r] = [q EXCEPT !.elapsed = n]
  BY DEF Tick
<1> HIDE DEF n
<1>4. GoesOn(q, requests'[r])
  <2>1. CASE requests'[r] = q
    BY <1>0, <2>1, StaysAsItIs
  <2>2. CASE requests'[r] = [q EXCEPT !.elapsed = n]
    BY <1>0, <1>1, <2>2, ChangesGoOn
  <2>3. CASE q.phase # "answered" /\ requests'[r] = Tell(r, "unknown")
    <3>1. \A what : GoesOn(q, [q EXCEPT !.phase = "answered", !.told = what, !.elapsed = 0])
      BY <1>0, <2>3, ChangesGoOn
    <3>2. QED BY <2>3, <3>1 DEF Tell
  <2>4. QED BY <1>2, <2>1, <2>2, <2>3
<1>5. QED BY <1>1, <1>3, <1>4

\* A client hears of its request once, the API is asked and acts at most once, and
\* the time that a request has in the proxy runs out, whatever the API and the
\* visitors do; this is the safety half of RequestEnds (server.js, app.use /api).
THEOREM RequestsOnlyGoOnCorrect == Spec => RequestsOnlyGoOn
<1>1. DoorInv /\ [Next]_vars =>
        [ \A r \in Requests :
          /\ GoesOn(requests[r], requests'[r])
          /\ /\ Tick
             /\ requests[r].phase \in {"reading", "waiting"} /\ requests[r].via = "proxy"
             /\ requests[r].elapsed <= ProxyTimeout
             => requests'[r].elapsed = requests[r].elapsed + 1 ]_vars
  <2> SUFFICES ASSUME DoorInv, Next, NEW r \in Requests
               PROVE  /\ GoesOn(requests[r], requests'[r])
                      /\ /\ Tick
                         /\ requests[r].phase \in {"reading", "waiting"}
                         /\ requests[r].via = "proxy"
                         /\ requests[r].elapsed <= ProxyTimeout
                         => requests'[r].elapsed = requests[r].elapsed + 1
    OBVIOUS
  <2>1. CASE Tick \/ Restart
    BY <2>1, TimeGoesOn
  <2>2. CASE ~Tick
    <3>1. requests[r] \in Request
      BY DEF DoorInv, TypeOK
    <3>2. CASE UNCHANGED requests
      BY <2>2, <3>1, <3>2, StaysAsItIs
    <3>3. LoginFails \/ LoginAnswered \/ (\E v \in Visitors : LoginSucceeds(v) \/ Logout(v))
            => UNCHANGED requests
      BY DEF LoginFails, LoginAnswered, LoginSucceeds, Logout
    <3>4. QED BY <2>1, <2>2, <3>2, <3>3, RequestGoesOn DEF Next, Visit
  <2>3. QED BY <2>1, <2>2
<1>2. QED BY <1>1, DoorInvariant, PTL DEF Spec, RequestsOnlyGoOn
=============================================================================
