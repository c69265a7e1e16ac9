------------------------------ MODULE FrontDoor ------------------------------
(***************************************************************************)
(* The front-end server between the browsers and the API: the access-key   *)
(* gate with its limit on failed logins, the session cookie, the reverse   *)
(* proxy with its timeout, and the API's check that a request comes from   *)
(* this proxy.                                                             *)
(*                                                                         *)
(*  - Times are kept as ages and remaining lifetimes, which Tick moves;    *)
(*    there is no clock to run out.                                        *)
(*  - The visitors share one address: the limit on failed logins is kept   *)
(*    per address, and addresses do not interact.  An address is what      *)
(*    clientIp returns, which is what X-Forwarded-For says (trust proxy).  *)
(*  - A request is forwarded at most once, and the API acts on it or not,  *)
(*    whatever the proxy has answered in the meantime.                     *)
(*  - A restart of the server empties its memory and breaks its            *)
(*    connections; a session is a signed token and survives.               *)
(***************************************************************************)
EXTENDS Naturals

CONSTANTS
    Deployments,      \* the configurations considered
    Visitors,         \* browsers behind one address
    LoginWindow,      \* LOGIN_WINDOW_MS (10 minutes)
    LoginMaxAttempts, \* LOGIN_MAX_ATTEMPTS (10)
    SessionTtl,       \* sessionTtlMs (12 hours)
    ProxyTimeout,     \* PROXY_TIMEOUT_MS (60 seconds)
    MaxPausing,       \* bound of the model: failed logins answered at a time
    MaxRequests,      \* bound of the model: requests to the API
    MaxRestarts       \* bound of the model: restarts of the server

\* What the environment of the two hosts says.  azure: WEBSITE_SITE_NAME is
\* set.  accessKey: DEMO_ACCESS_KEY is set.  proxySecret, apiSecret:
\* MEETING_MINUTES_PROXY_SECRET of the server and of the API, "" when unset.
\* auth: how the API identifies the user, from MEETING_MINUTES_AUTH_MODE and
\* the environment's name.
Secret == {"", "current", "former"}
Deployment == [azure : BOOLEAN, accessKey : BOOLEAN, apiOrigin : BOOLEAN,
               proxySecret : Secret, apiSecret : Secret,
               auth : {"demo", "local", "easyAuth"}]

ASSUME DeploymentsAssumption == Deployments \subseteq Deployment
ASSUME WindowAssumption == LoginWindow \in Nat /\ LoginMaxAttempts \in Nat \ {0}
ASSUME TimesAssumption == SessionTtl \in Nat /\ ProxyTimeout \in Nat
ASSUME BoundsAssumption ==
    MaxPausing \in Nat /\ MaxRequests \in Nat /\ MaxRestarts \in Nat

Requests == 1..MaxRequests

VARIABLES
    deployment, \* the configuration, fixed
    attempts,   \* the entry of loginAttempts; count 0: there is none
    stretch,    \* history: the wrong keys compared in a stretch of time
    pausing,    \* failed logins that wait for their answer
    session,    \* session[v]: how long v's cookie is still valid, 0: no cookie
    requests,   \* requests[r]: one request to the API
    restarts    \* how often the server was restarted

gateVars == <<attempts, stretch, pausing, session>>
vars == <<deployment, gateVars, requests, restarts>>

-----------------------------------------------------------------------------
(* Types *)

\* via: through the proxy, or straight to the API's address.  phase: "reading"
\* the body is read, "waiting" for the API.  upstream: what became of the
\* request that was forwarded.  told: what the client learns; "denied" names the
\* door that was shut, "unknown" is a 502, a 504, a broken connection or an error
\* of the API, which may have acted before it.  effects: how often the API acted.
\* authentic: the visitor had a session when the request was let in.
Request == [via : {"proxy", "direct"}, phase : {"new", "reading", "waiting", "answered"},
            elapsed : 0..(ProxyTimeout + 1),
            upstream : {"none", "sent", "done", "refused", "failed", "lost"},
            told : {"nothing", "ok", "denied", "unknown"},
            effects : Nat, authentic : BOOLEAN]

New == [via |-> "proxy", phase |-> "new", elapsed |-> 0, upstream |-> "none",
        told |-> "nothing", effects |-> 0, authentic |-> FALSE]

NoAttempts == [count |-> 0, age |-> 0]

\* A stretch of time that begins now.  It is a history variable: it may begin
\* with any tick, so what holds of it holds of every stretch, and nothing but
\* properties reads it.
NewStretch == [count |-> 0, age |-> 0]

TypeOK ==
    /\ deployment \in Deployment
    /\ attempts \in [count : Nat, age : 0..(LoginWindow + 1)]
    /\ stretch \in [count : Nat, age : 0..LoginWindow]
    /\ pausing \in 0..MaxPausing
    /\ session \in [Visitors -> 0..SessionTtl]
    /\ requests \in [Requests -> Request]
    /\ restarts \in 0..MaxRestarts

Init ==
    /\ deployment \in Deployments
    /\ attempts = NoAttempts
    /\ stretch = NewStretch
    /\ pausing = 0
    /\ session = [v \in Visitors |-> 0]
    /\ requests = [r \in Requests |-> New]
    /\ restarts = 0

-----------------------------------------------------------------------------
(* The gate *)

\* misconfiguredOnAzure: everything but /healthz is answered with 503.
Misconfigured ==
    /\ deployment.azure
    /\ \/ ~deployment.accessKey
       \/ deployment.proxySecret = ""
       \/ ~deployment.apiOrigin

\* Mutant: the window is never over.
ExpiredNever == attempts.count = 0

\* No entry, or one whose first attempt is longer ago than the window.
Expired == attempts.count = 0 \/ attempts.age > LoginWindow

TooManyAttempts == ~Expired /\ attempts.count >= LoginMaxAttempts

\* recordFailedAttempt: the window starts with the first attempt in it.
RecordFailedAttempt ==
    attempts' = IF Expired THEN [count |-> 1, age |-> 0]
                           ELSE [attempts EXCEPT !.count = @ + 1]

\* A wrong key is counted in the stretch; a right key or a restart begins anew.
SeesWrongKey == stretch' = [stretch EXCEPT !.count = @ + 1]
ForgetsWrongKeys == stretch' = [stretch EXCEPT !.count = 0]

\* POST /login gets as far as comparing the key; refused logins (429) change
\* nothing and are not counted.
ComparesKey ==
    /\ ~Misconfigured
    /\ deployment.accessKey
    /\ ~TooManyAttempts

\* Mutant: the failed attempt is recorded after the pause.
LoginFailsRecordedLater ==
    /\ \/ /\ ComparesKey
          /\ pausing < MaxPausing
          /\ pausing' = pausing + 1
          /\ SeesWrongKey
          /\ UNCHANGED attempts
       \/ /\ pausing > 0
          /\ pausing' = pausing - 1
          /\ RecordFailedAttempt
          /\ UNCHANGED stretch
    /\ UNCHANGED <<deployment, session, requests, restarts>>

\* A wrong key: compared and recorded in one go, answered after half a second.
LoginFails ==
    /\ ComparesKey
    /\ pausing < MaxPausing
    /\ pausing' = pausing + 1
    /\ RecordFailedAttempt
    /\ SeesWrongKey
    /\ UNCHANGED <<deployment, session, requests, restarts>>

LoginAnswered ==
    /\ pausing > 0
    /\ pausing' = pausing - 1
    /\ UNCHANGED <<deployment, attempts, stretch, session, requests, restarts>>

\* createSessionToken and setSessionCookie: the token and its cookie expire
\* together.
SetSessionCookie(v) == session' = [session EXCEPT ![v] = SessionTtl]

\* verifySessionToken: the browser still holds a token that has not expired.
HasSession(v) == session[v] > 0

\* Mutant: the new lifetime is added to what is left of the old one.
LoginSucceedsProlongs(v) ==
    /\ ComparesKey
    /\ attempts' = NoAttempts
    /\ ForgetsWrongKeys
    /\ session' = [session EXCEPT ![v] = @ + SessionTtl]
    /\ UNCHANGED <<deployment, pausing, requests, restarts>>

\* The right key: the address starts anew, the browser gets a cookie.
LoginSucceeds(v) ==
    /\ ComparesKey
    /\ attempts' = NoAttempts
    /\ ForgetsWrongKeys
    /\ SetSessionCookie(v)
    /\ UNCHANGED <<deployment, pausing, requests, restarts>>

\* The cookie is cleared; the token itself stays valid, but nobody holds it.
Logout(v) ==
    /\ ~Misconfigured
    /\ session' = [session EXCEPT ![v] = 0]
    /\ UNCHANGED <<deployment, attempts, stretch, pausing, requests, restarts>>

IsAuthenticated(v) == deployment.accessKey => HasSession(v)

-----------------------------------------------------------------------------
(* The proxy *)

Update(r, request) ==
    /\ requests' = [requests EXCEPT ![r] = request]
    /\ UNCHANGED <<deployment, gateVars, restarts>>

\* The client is answered, and the timer is cleared.
Tell(r, what) ==
    [requests[r] EXCEPT !.phase = "answered", !.told = what, !.elapsed = 0]

\* Request r is the next one to be made.
IsNext(r) ==
    /\ requests[r].phase = "new"
    /\ \A s \in Requests : s < r => requests[s].phase # "new"

\* 503, 401, 502 without an origin, or 403: nothing is forwarded.  sameOrigin:
\* isSameOriginWrite, or the request is a GET or HEAD.
TurnedAway(r, v, sameOrigin) ==
    /\ IsNext(r)
    /\ \/ Misconfigured
       \/ ~IsAuthenticated(v)
       \/ ~deployment.apiOrigin
       \/ ~sameOrigin
    /\ Update(r, Tell(r, "denied"))

\* The request is let in; the timer starts before its body is read.
LetIn(r, v, sameOrigin) ==
    /\ IsNext(r)
    /\ ~Misconfigured
    /\ IsAuthenticated(v)
    /\ deployment.apiOrigin
    /\ sameOrigin
    /\ Update(r, [requests[r] EXCEPT !.phase = "reading", !.elapsed = 0,
                                     !.authentic = HasSession(v)])

\* readRawBody ends.  The timer does not stop the reading: when it has fired,
\* fetch gives up at once and nothing is forwarded (504).
BodyArrives(r) ==
    /\ requests[r].phase = "reading"
    /\ \/ /\ requests[r].elapsed <= ProxyTimeout
          /\ Update(r, [requests[r] EXCEPT !.phase = "waiting", !.upstream = "sent"])
       \/ /\ requests[r].elapsed >= ProxyTimeout
          /\ Update(r, Tell(r, "unknown"))

\* The connection breaks while the body is read: the client went away, the
\* host's own limit on a request closed it, or the body is too large (req.destroy
\* closes the connection on which 413 would be sent).
BodyBreaksOff(r) ==
    /\ requests[r].phase = "reading"
    /\ Update(r, Tell(r, "unknown"))

\* What the client makes of the API's answer.  upload-complete resolves the
\* caller outside its error boundary: there a refusal is a 500.
Meaning == [done |-> {"ok"}, refused |-> {"denied", "unknown"}, failed |-> {"unknown"}]

\* The API's own answer is passed on: its headers and its body arrived in time.
AnswerArrives(r) ==
    /\ requests[r].phase = "waiting"
    /\ requests[r].upstream \in DOMAIN Meaning
    /\ requests[r].via = "proxy" => requests[r].elapsed <= ProxyTimeout
    /\ \E what \in Meaning[requests[r].upstream] : Update(r, Tell(r, what))

\* Mutant: the request is sent again when its time is up.
TimesOutSendsAgain(r) ==
    /\ requests[r].phase = "waiting"
    /\ requests[r].via = "proxy"
    /\ requests[r].elapsed >= ProxyTimeout
    /\ Update(r, [requests[r] EXCEPT !.upstream = "sent", !.elapsed = 0])

\* Mutant: the signal is not passed to fetch.
TimesOutNever(r) == FALSE /\ UNCHANGED vars

\* The timer fires: 504, while the request that was forwarded goes on.
TimesOut(r) ==
    /\ requests[r].phase = "waiting"
    /\ requests[r].via = "proxy"
    /\ requests[r].elapsed >= ProxyTimeout
    /\ Update(r, Tell(r, "unknown"))

\* The connection to the API, or to the client, breaks: 502, or no answer.
Breaks(r) ==
    /\ requests[r].phase = "waiting"
    /\ Update(r, Tell(r, "unknown"))

-----------------------------------------------------------------------------
(* The API *)

\* A request to the API's own address carries no secret.
GoesDirect(r) ==
    /\ IsNext(r)
    /\ Update(r, [requests[r] EXCEPT !.via = "direct", !.phase = "waiting",
                                     !.upstream = "sent"])

Provided(r) == IF requests[r].via = "proxy" THEN deployment.proxySecret ELSE ""

\* Mutant: an unset secret is no reason to refuse.
SecretAcceptedWhenUnset(r) ==
    deployment.apiSecret = "" \/ Provided(r) = deployment.apiSecret

\* _require_proxy_secret.
SecretAccepted(r) ==
    IF deployment.apiSecret = "" THEN ~deployment.azure
                                 ELSE Provided(r) = deployment.apiSecret

\* The header x-ms-client-principal; "broken" cannot be parsed or lacks an
\* identifier.
Principals == {"none", "valid", "broken"}

\* resolve_auth_context, once the secret is accepted.
Identified(principal) ==
    \/ deployment.auth = "demo"
    \/ principal = "valid"
    \/ deployment.auth = "local" /\ principal = "none"

\* A handler of the API takes the request: it is refused at the API's own door,
\* or it acts and says so, or it answers an error, before or after it acted.
ApiHandles(r) ==
    /\ requests[r].upstream = "sent"
    /\ \E principal \in Principals :
          \/ /\ ~SecretAccepted(r) \/ ~Identified(principal)
             /\ Update(r, [requests[r] EXCEPT !.upstream = "refused"])
          \/ /\ SecretAccepted(r)
             /\ Identified(principal)
             /\ \E outcome \in {"done", "failed"}, acts \in {0, 1} :
                   /\ outcome = "done" => acts = 1
                   /\ Update(r, [requests[r] EXCEPT !.upstream = outcome,
                                                   !.effects = @ + acts])

\* The request never gets there.
ApiMisses(r) ==
    /\ requests[r].upstream = "sent"
    /\ Update(r, [requests[r] EXCEPT !.upstream = "lost"])

-----------------------------------------------------------------------------
(* Time and restarts *)

Older(age, cap) == IF age < cap THEN age + 1 ELSE age

Tick ==
    /\ attempts' = IF attempts.count = 0 THEN attempts
                   ELSE [attempts EXCEPT !.age = Older(@, LoginWindow + 1)]
    /\ \/ stretch' = NewStretch
       \/ stretch.age < LoginWindow /\ stretch' = [stretch EXCEPT !.age = @ + 1]
    /\ session' = [v \in Visitors |-> IF session[v] > 0 THEN session[v] - 1 ELSE 0]
    /\ requests' = [r \in Requests |->
          IF requests[r].phase \in {"reading", "waiting"} /\ requests[r].via = "proxy"
            THEN [requests[r] EXCEPT !.elapsed = Older(@, ProxyTimeout + 1)]
            ELSE requests[r]]
    /\ UNCHANGED <<deployment, pausing, restarts>>

\* The server starts again: loginAttempts is empty, every connection is broken,
\* and what was forwarded goes on.
Restart ==
    /\ restarts < MaxRestarts
    /\ restarts' = restarts + 1
    /\ attempts' = NoAttempts
    /\ ForgetsWrongKeys
    /\ pausing' = 0
    /\ requests' = [r \in Requests |->
          IF requests[r].phase \in {"reading", "waiting"} /\ requests[r].via = "proxy"
            THEN Tell(r, "unknown") ELSE requests[r]]
    /\ UNCHANGED <<deployment, session>>

Visit(v) ==
    \/ LoginSucceeds(v) \/ Logout(v)
    \/ \E r \in Requests, sameOrigin \in BOOLEAN :
          TurnedAway(r, v, sameOrigin) \/ LetIn(r, v, sameOrigin)

Proceed(r) ==
    \/ BodyArrives(r) \/ BodyBreaksOff(r) \/ AnswerArrives(r) \/ TimesOut(r)
    \/ Breaks(r) \/ GoesDirect(r) \/ ApiHandles(r) \/ ApiMisses(r)

Next ==
    \/ LoginFails
    \/ LoginAnswered
    \/ \E v \in Visitors : Visit(v)
    \/ \E r \in Requests : Proceed(r)
    \/ Tick
    \/ Restart

Spec == Init /\ [][Next]_vars

\* Time passes, a timer that is due fires, and the body of a request ends or its
\* connection is closed (the host limits the time for it); neither the API nor
\* a visitor is obliged to anything.
FairSpec ==
    /\ Spec
    /\ WF_vars(Tick)
    /\ \A r \in Requests : /\ WF_vars(BodyArrives(r) \/ BodyBreaksOff(r))
                           /\ WF_vars(TimesOut(r))

-----------------------------------------------------------------------------
(* Properties *)

\* What the client is told is true, although the API goes on with a request the
\* proxy has answered: "ok" means that the API acted on it exactly once, a door
\* that was shut that it did not and never will, and anything else at most once.
AnswersAreTrue ==
    \A r \in Requests :
        /\ requests[r].effects <= 1
        /\ requests[r].told = "ok" => requests[r].effects = 1
        /\ requests[r].told = "denied" =>
              /\ requests[r].effects = 0
              /\ requests[r].upstream \in {"none", "refused"}

\* On Azure the API acts only on requests that a visitor with a session sent
\* through the proxy, whatever the two hosts have or lack in their settings.
FailsClosed ==
    \A r \in Requests :
        deployment.azure /\ requests[r].effects > 0 =>
            requests[r].via = "proxy" /\ requests[r].authentic

\* An address is refused only for as many wrong keys as the limit says, all of
\* them since the last right key and in the stretch, as long as the window, that
\* ends now; and however failed logins, their pauses and the ends of the windows
\* fall together, no stretch of this length sees twice the limit, since it
\* overlaps with at most two of the windows that are counted.  This is so of each
\* entry of loginAttempts; one client may use several, by the headers it sends.
LimitIsKept ==
    /\ TooManyAttempts /\ stretch.age = LoginWindow => stretch.count >= LoginMaxAttempts
    /\ stretch.count < 2 * LoginMaxAttempts

\* An address that is refused is let in again, however often it tries.
LockoutEnds == TooManyAttempts ~> ~TooManyAttempts

\* Every request that was let in is answered, although the API may never answer.
RequestEnds ==
    \A r \in Requests :
        requests[r].phase = "reading" ~> requests[r].phase = "answered"
=============================================================================
