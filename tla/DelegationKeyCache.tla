------------------------- MODULE DelegationKeyCache -------------------------
(***************************************************************************)
(* The user delegation key an AzureBlobSasIssuer keeps.                    *)
(*                                                                         *)
(* The requests that create a job run in threads and share the issuer of   *)
(* the one JobService.  Each takes the time first, and then waits for the  *)
(* lock under which the cached key is examined and replaced, so what it    *)
(* compares the key with may be old.  The URL is signed with the key       *)
(* after the lock was released.  (An activity builds an issuer of its own  *)
(* for a read URL: that issuer has one caller and no cached key.)          *)
(*                                                                         *)
(* Times are minutes.  The five minutes by which keys and URLs start       *)
(* early, and everything else of a URL, are left out.                      *)
(***************************************************************************)
EXTENDS Naturals, TLAPS

CONSTANTS
    Threads,       \* concurrent callers
    NoThread,      \* the lock is free
    Ttls,          \* lifetimes asked for: 30 and 120 minutes for uploads
    MinRemaining,  \* 15: what a cached key must have left to be used again
    KeyLifetime,   \* 60: the least lifetime a new key is requested for
    MaxTime        \* bound of the model

ASSUME ThreadAssumption == NoThread \notin Threads
ASSUME TtlAssumption == Ttls \subseteq Nat \ {0}
ASSUME LifetimeAssumption ==
    MinRemaining \in Nat /\ KeyLifetime \in Nat /\ MinRemaining <= KeyLifetime
ASSUME TimeAssumption == MaxTime \in Nat

VARIABLES
    clock,
    keyExpiry,  \* expires_at of the cached key, 0: none
    lock,       \* holder of _lock
    pc,         \* pc[t]: where caller t is
    now,        \* now[t]: the time t took
    sasExpiry,  \* sasExpiry[t]: required_expiry, when its URL is to expire
    signer      \* signer[t]: when the key expires that t was given

vars == <<clock, keyExpiry, lock, pc, now, sasExpiry, signer>>

TypeOK ==
    /\ clock \in 0..MaxTime
    /\ keyExpiry \in Nat
    /\ lock \in Threads \cup {NoThread}
    /\ pc \in [Threads -> {"idle", "waiting", "examining", "requesting", "signing"}]
    /\ now \in [Threads -> 0..MaxTime]
    /\ sasExpiry \in [Threads -> Nat]
    /\ signer \in [Threads -> Nat]

Init ==
    /\ clock = 0
    /\ keyExpiry = 0
    /\ lock = NoThread
    /\ pc = [t \in Threads |-> "idle"]
    /\ now = [t \in Threads |-> 0]
    /\ sasExpiry = [t \in Threads |-> 0]
    /\ signer = [t \in Threads |-> 0]

-----------------------------------------------------------------------------
Tick ==
    /\ clock < MaxTime
    /\ clock' = clock + 1
    /\ UNCHANGED <<keyExpiry, lock, pc, now, sasExpiry, signer>>

\* Mutant: the two times are swapped.
CreateSasSwapped(t) ==
    /\ pc[t] = "idle"
    /\ \E ttl \in Ttls : now' = [now EXCEPT ![t] = clock + ttl]
    /\ sasExpiry' = [sasExpiry EXCEPT ![t] = clock]
    /\ pc' = [pc EXCEPT ![t] = "waiting"]
    /\ UNCHANGED <<clock, keyExpiry, lock, signer>>

\* create_upload_sas, create_read_sas: up to the lock.
CreateSas(t) ==
    /\ pc[t] = "idle"
    /\ \E ttl \in Ttls : sasExpiry' = [sasExpiry EXCEPT ![t] = clock + ttl]
    /\ now' = [now EXCEPT ![t] = clock]
    /\ pc' = [pc EXCEPT ![t] = "waiting"]
    /\ UNCHANGED <<clock, keyExpiry, lock, signer>>

\* Mutant: the lock is not taken.
AcquireNothing(t) ==
    /\ pc[t] = "waiting"
    /\ pc' = [pc EXCEPT ![t] = "examining"]
    /\ UNCHANGED <<clock, keyExpiry, lock, now, sasExpiry, signer>>

Acquire(t) ==
    /\ pc[t] = "waiting"
    /\ lock = NoThread
    /\ lock' = t
    /\ pc' = [pc EXCEPT ![t] = "examining"]
    /\ UNCHANGED <<clock, keyExpiry, now, sasExpiry, signer>>

\* Mutant: how long the URL is to live is not looked at.
UsableForNow(t) == keyExpiry > now[t] + MinRemaining

\* The cached key outlives the URL, and is not about to expire.
Usable(t) ==
    /\ keyExpiry # 0
    /\ keyExpiry > now[t] + MinRemaining
    /\ keyExpiry >= sasExpiry[t]

\* Leave _get_user_delegation_key with the key that expires at e.
Return(t, e) ==
    /\ signer' = [signer EXCEPT ![t] = e]
    /\ lock' = NoThread
    /\ pc' = [pc EXCEPT ![t] = "signing"]

Reuse(t) ==
    /\ pc[t] = "examining"
    /\ Usable(t)
    /\ Return(t, keyExpiry)
    /\ UNCHANGED <<clock, keyExpiry, now, sasExpiry>>

Request(t) ==
    /\ pc[t] = "examining"
    /\ ~Usable(t)
    /\ pc' = [pc EXCEPT ![t] = "requesting"]
    /\ UNCHANGED <<clock, keyExpiry, lock, now, sasExpiry, signer>>

\* max(required_expiry, now + timedelta(hours=1))
NewExpiry(t) == IF sasExpiry[t] >= now[t] + KeyLifetime
                  THEN sasExpiry[t] ELSE now[t] + KeyLifetime

\* The service hands out a key; it replaces the cached one.
Obtain(t) ==
    /\ pc[t] = "requesting"
    /\ keyExpiry' = NewExpiry(t)
    /\ Return(t, NewExpiry(t))
    /\ UNCHANGED <<clock, now, sasExpiry>>

\* Mutant: the request is repeated under the lock until it succeeds.
RequestFailsAndRepeats(t) ==
    /\ pc[t] = "requesting"
    /\ pc' = [pc EXCEPT ![t] = "examining"]
    /\ UNCHANGED <<clock, keyExpiry, lock, now, sasExpiry, signer>>

\* The service fails: the lock is released, the cached key stays.
RequestFails(t) ==
    /\ pc[t] = "requesting"
    /\ lock' = NoThread
    /\ pc' = [pc EXCEPT ![t] = "idle"]
    /\ UNCHANGED <<clock, keyExpiry, now, sasExpiry, signer>>

\* generate_blob_sas
Sign(t) ==
    /\ pc[t] = "signing"
    /\ pc' = [pc EXCEPT ![t] = "idle"]
    /\ UNCHANGED <<clock, keyExpiry, lock, now, sasExpiry, signer>>

Next == \/ Tick
        \/ \E t \in Threads : \/ CreateSas(t) \/ Acquire(t) \/ Reuse(t) \/ Request(t)
                              \/ Obtain(t) \/ RequestFails(t) \/ Sign(t)

Spec == Init /\ [][Next]_vars

\* What a caller does under the lock takes place: the request for a key is answered
\* or times out in the client library.  Nobody needs to call, and nothing is
\* assumed of the order in which the lock is given to those who wait.
FairSpec ==
    /\ Spec
    /\ \A t \in Threads : WF_vars(Reuse(t) \/ Request(t) \/ Obtain(t) \/ RequestFails(t))

-----------------------------------------------------------------------------
(* Properties *)

\* A URL never outlives the key it is signed with (the storage service would
\* refuse it before the time the client was told).
SasWithinKey == \A t \in Threads : pc[t] = "signing" => sasExpiry[t] <= signer[t]

\* A cached key is only replaced by one that lives longer: a caller that took
\* the time long ago does not displace the key of a later one.
KeyLivesLonger == [][keyExpiry' # keyExpiry => keyExpiry' > keyExpiry]_vars

\* Whoever gets the lock gives it back, with a key or after a request that failed:
\* one failure of the service does not leave every later create_job waiting.
LockIsGivenBack == \A t \in Threads : lock = t ~> lock # t

-----------------------------------------------------------------------------
(* Proofs, for any threads and any lifetimes *)

\* The safety half of LockIsGivenBack: the lock is held exactly by the caller that
\* examines or replaces the key, who can always go on; no way out of
\* _get_user_delegation_key leaves it behind, and nobody releases another's.
LockIsInUse ==
    \A t \in Threads : lock = t <=> pc[t] \in {"examining", "requesting"}

\* Besides, who replaces the key found none, one about to expire, or one too short
\* for its URL.
CacheInv ==
    /\ TypeOK
    /\ LockIsInUse
    /\ \A t \in Threads : pc[t] = "requesting" => ~Usable(t)
    /\ SasWithinKey

LEMMA InitCache == Init => CacheInv
BY TimeAssumption, ThreadAssumption DEF Init, CacheInv, TypeOK, SasWithinKey, LockIsInUse

LEMMA NewExpiryType ==
    ASSUME TypeOK, NEW t \in Threads
    PROVE  NewExpiry(t) \in Nat /\ sasExpiry[t] <= NewExpiry(t)
           /\ now[t] + KeyLifetime <= NewExpiry(t)
BY LifetimeAssumption, TimeAssumption DEF TypeOK, NewExpiry

LEMMA NextCache == CacheInv /\ [Next]_vars => CacheInv'
<1> SUFFICES ASSUME CacheInv, [Next]_vars PROVE CacheInv'
  OBVIOUS
<1> USE TimeAssumption, ThreadAssumption DEF CacheInv, TypeOK, SasWithinKey, Usable, LockIsInUse
<1>1. CASE Tick
  BY <1>1 DEF Tick
<1>2. ASSUME NEW t \in Threads, CreateSas(t) PROVE CacheInv'
  <2>1. sasExpiry' \in [Threads -> Nat]
    BY <1>2, TtlAssumption DEF CreateSas
  <2> QED
    BY <1>2, <2>1 DEF CreateSas
<1>3. ASSUME NEW t \in Threads, Acquire(t) PROVE CacheInv'
  BY <1>3 DEF Acquire
<1>4. ASSUME NEW t \in Threads, Reuse(t) PROVE CacheInv'
  BY <1>4 DEF Reuse, Return
<1>5. ASSUME NEW t \in Threads, Request(t) PROVE CacheInv'
  BY <1>5 DEF Request
<1>6. ASSUME NEW t \in Threads, Obtain(t) PROVE CacheInv'
  BY <1>6, NewExpiryType DEF Obtain, Return
<1>7. ASSUME NEW t \in Threads, RequestFails(t) PROVE CacheInv'
  BY <1>7 DEF RequestFails
<1>8. ASSUME NEW t \in Threads, Sign(t) PROVE CacheInv'
  BY <1>8 DEF Sign
<1>9. CASE UNCHANGED vars
  BY <1>9 DEF vars
<1> QED
  BY <1>1, <1>2, <1>3, <1>4, <1>5, <1>6, <1>7, <1>8, <1>9 DEF Next

LEMMA CacheInvariant == Spec => []CacheInv
BY InitCache, NextCache, PTL DEF Spec

\* Every variable keeps its type, whatever the clocks of the callers read: an
\* expiry is never computed from a value a caller has not read.
THEOREM TypeCorrect == Spec => []TypeOK
<1>1. CacheInv => TypeOK
  BY DEF CacheInv
<1> QED
  BY <1>1, CacheInvariant, PTL

\* Whoever holds the lock is between the check and the replacement of the key, and
\* whoever is there holds it: two callers never examine the key at a time, and the
\* lock is not left behind (_get_user_delegation_key).
THEOREM LockIsInUseCorrect == Spec => []LockIsInUse
<1>1. CacheInv => LockIsInUse
  BY DEF CacheInv
<1> QED
  BY <1>1, CacheInvariant, PTL

\* A URL expires no later than the key it is signed with, for any number of
\* concurrent callers (create_upload_sas, create_read_sas).
THEOREM SasWithinKeyCorrect == Spec => []SasWithinKey
<1>1. CacheInv => SasWithinKey
  BY DEF CacheInv
<1> QED
  BY <1>1, CacheInvariant, PTL

\* The cached key is only ever replaced by one that lives longer
\* (_get_user_delegation_key).
THEOREM KeyLivesLongerCorrect == Spec => KeyLivesLonger
<1>1. CacheInv /\ [Next]_vars => [keyExpiry' # keyExpiry => keyExpiry' > keyExpiry]_vars
  <2> SUFFICES ASSUME CacheInv, Next, keyExpiry' # keyExpiry
               PROVE  keyExpiry' > keyExpiry
    BY DEF vars
  <2>1. PICK t \in Threads : Obtain(t)
    BY DEF Next, Tick, CreateSas, Acquire, Reuse, Request, RequestFails, Sign
  <2>2. /\ keyExpiry' = NewExpiry(t) /\ NewExpiry(t) \in Nat
        /\ sasExpiry[t] <= NewExpiry(t) /\ now[t] + KeyLifetime <= NewExpiry(t)
    BY <2>1, NewExpiryType DEF Obtain, CacheInv
  <2>3. \/ keyExpiry = 0
        \/ keyExpiry <= now[t] + MinRemaining
        \/ keyExpiry < sasExpiry[t]
    BY <2>1, LifetimeAssumption, TimeAssumption DEF Obtain, CacheInv, TypeOK, Usable
  <2> QED
    BY <2>2, <2>3, LifetimeAssumption, TimeAssumption DEF CacheInv, TypeOK
<1> QED
  BY <1>1, CacheInvariant, PTL DEF Spec, KeyLivesLonger
=============================================================================
