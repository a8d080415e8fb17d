----------------------------- MODULE BlizzardClient ----------------------------
(***************************************************************************)
(* Concurrent GETs through one BlizzardAPIClient                           *)
(* (integrations/blizzard/client.py): the shared cache in Redis, the       *)
(* application token that all calls share behind a lock                    *)
(* (integrations/blizzard/oauth.py), the semaphore, and the retries.  A    *)
(* coroutine is interrupted only where it awaits, so a step of a call is   *)
(* all it does between two awaits.                                         *)
(***************************************************************************)
EXTENDS Naturals, FiniteSets

CONSTANTS Calls, NoCall,
          Keys,          \* cache keys: a path with its query
          Users,         \* players whose own token a call may carry
          MaxRetries,    \* BLIZZARD_MAX_RETRIES
          Concurrency,   \* BLIZZARD_MAX_CONCURRENCY
          MaxEvents      \* bound on expiries, revocations and changes at Battle.net

Public  == "public"      \* a call with the application token, or its payload
Viewers == Users \cup {Public}
Answers == {"none", "served", "absent", "rejected", "throttled", "refused"}

ASSUME ClientAssumption ==
  /\ MaxRetries \in Nat \ {0}
  /\ Concurrency \in Nat \ {0}
  /\ MaxEvents \in Nat
  /\ NoCall \notin Calls
  /\ Users \cap {Public, "none", "empty", "missing", "failed", "unavailable", "cancelled"} = {}

VARIABLES
  appToken,   \* _app_token; 0 when there is none or it has expired by the clock
  lock,       \* the call that holds the lock of get_app_token
  accepted,   \* application tokens Battle.net accepts
  exists,     \* the keys for which Battle.net has a resource
  cached,     \* what Redis holds under each key
  ask,        \* key, viewer and cacheability of each call
  phase, tok, attempt, reauthorized, answer, result,
  fetches,    \* token requests sent so far; also the name of the latest token
  lost,       \* token expiries, revocations and token requests without a token
  dropped,    \* tokens dropped by invalidate_app_token
  wasMissing, \* the keys that Battle.net has not had at some time
  events

oauth   == <<appToken, lock, fetches>>
remote  == <<accepted, exists, wasMissing, events>>
locals  == <<ask, attempt, reauthorized, answer>>
history == <<lost, dropped>>
clientVars    == <<oauth, remote, locals, history, cached, phase, tok, result>>

ClientInit ==
  /\ appToken = 0
  /\ lock = NoCall
  /\ accepted = {}
  /\ exists \in SUBSET Keys
  /\ cached = [k \in Keys |-> "empty"]
  /\ ask \in [Calls -> [key : Keys, viewer : Viewers, cache : BOOLEAN]]
  /\ phase = [c \in Calls |-> "start"]
  /\ tok = [c \in Calls |-> 0]
  /\ attempt = [c \in Calls |-> 0]
  /\ reauthorized = [c \in Calls |-> FALSE]
  /\ answer = [c \in Calls |-> "none"]
  /\ result = [c \in Calls |-> "none"]
  /\ fetches = 0
  /\ lost = 0
  /\ dropped = 0
  /\ wasMissing = Keys \ exists
  /\ events = 0

MoveOn(c, step) == phase' = [phase EXCEPT ![c] = step]
Personal(c) == ask[c].viewer \in Users

\* effective_ttl: a response to a user's token is never cached.
Cacheable(c) == ask[c].cache /\ ~ Personal(c)

Return(c, value) ==
  /\ result' = [result EXCEPT ![c] = value]
  /\ MoveOn(c, "done")
  /\ UNCHANGED tok

\* get: the cache first.  A Redis error is a miss.
CacheHit(c) ==
  /\ phase[c] = "start"
  /\ Cacheable(c)
  /\ cached[ask[c].key] # "empty"
  /\ Return(c, cached[ask[c].key])
  /\ UNCHANGED <<oauth, remote, locals, history, cached>>

CacheMiss(c) ==
  /\ phase[c] = "start"
  /\ MoveOn(c, "token")
  /\ UNCHANGED <<oauth, remote, locals, history, cached, tok, result>>

\* get_app_token: the token before the lock.
TakeToken(c) ==
  /\ phase[c] = "token"
  /\ IF Personal(c)
       THEN MoveOn(c, "slot") /\ UNCHANGED tok
     ELSE IF appToken # 0
       THEN MoveOn(c, "slot") /\ tok' = [tok EXCEPT ![c] = appToken]
     ELSE MoveOn(c, "lock") /\ UNCHANGED tok
  /\ UNCHANGED <<oauth, remote, locals, history, cached, result>>

\* Mutant: a token is fetched without looking again.
AcquireBlindly(c) ==
  /\ phase[c] = "lock"
  /\ lock = NoCall
  /\ lock' = c
  /\ fetches' = fetches + 1
  /\ MoveOn(c, "fetch")
  /\ UNCHANGED <<appToken, tok, remote, locals, history, cached, result>>

\* The lock is free: another call may have refreshed while this one waited.
Acquire(c) ==
  /\ phase[c] = "lock"
  /\ lock = NoCall
  /\ IF appToken # 0
       THEN /\ tok' = [tok EXCEPT ![c] = appToken]
            /\ MoveOn(c, "slot")
            /\ UNCHANGED <<lock, fetches>>
       ELSE /\ lock' = c
            /\ fetches' = fetches + 1
            /\ MoveOn(c, "fetch")
            /\ UNCHANGED tok
  /\ UNCHANGED <<appToken, remote, locals, history, cached, result>>

Unlock(c) == lock' = IF lock = c THEN NoCall ELSE lock

FetchToken(c) ==
  /\ phase[c] = "fetch"
  /\ appToken' = fetches
  /\ accepted' = accepted \cup {fetches}
  /\ tok' = [tok EXCEPT ![c] = fetches]
  /\ Unlock(c)
  /\ MoveOn(c, "slot")
  /\ UNCHANGED <<fetches, exists, wasMissing, events, locals, history, cached, result>>

\* Mutant: the failed request leaves the lock taken.
FetchFailsLocked(c) ==
  /\ phase[c] = "fetch"
  /\ lost' = lost + 1
  /\ Return(c, "failed")
  /\ UNCHANGED <<oauth, dropped, remote, locals, cached>>

\* The token endpoint fails, or its answer is lost.
FetchFails(c) ==
  /\ phase[c] = "fetch"
  /\ lost' = lost + 1
  /\ Return(c, "failed")
  /\ Unlock(c)
  /\ UNCHANGED <<appToken, fetches, dropped, remote, locals, cached>>

Sending == {c \in Calls : phase[c] = "answered"}

\* What Battle.net may answer; a timeout or a transport error is retried like
\* a 429.
Replies(c) ==
  {"throttled", "refused"} \cup
    IF ~ Personal(c) /\ tok[c] \notin accepted THEN {"rejected"}
    ELSE IF ask[c].key \in exists THEN {"served"}
    ELSE {"absent"}

\* The request is sent when the semaphore has a place, and answered.
Send(c) ==
  /\ phase[c] = "slot"
  /\ Cardinality(Sending) < Concurrency
  /\ \E reply \in Replies(c) : answer' = [answer EXCEPT ![c] = reply]
  /\ MoveOn(c, "answered")
  /\ UNCHANGED <<oauth, remote, ask, attempt, reauthorized, history, cached, tok, result>>

\* The next iteration of the loop, or the error after it.
Again(c) ==
  IF attempt[c] + 1 < MaxRetries
    THEN /\ attempt' = [attempt EXCEPT ![c] = @ + 1]
         /\ MoveOn(c, "token")
         /\ UNCHANGED <<tok, result>>
    ELSE Return(c, "unavailable") /\ UNCHANGED attempt

Throttled(c) ==
  /\ phase[c] = "answered"
  /\ answer[c] = "throttled"
  /\ Again(c)
  /\ UNCHANGED <<oauth, remote, ask, reauthorized, answer, history, cached>>

\* 401: the first time the token is dropped, whichever token was rejected.
Rejected(c) ==
  /\ phase[c] = "answered"
  /\ answer[c] = "rejected"
  /\ IF reauthorized[c]
       THEN /\ Return(c, "failed")
            /\ UNCHANGED <<attempt, reauthorized, appToken, dropped>>
       ELSE /\ reauthorized' = [reauthorized EXCEPT ![c] = TRUE]
            /\ appToken' = 0
            /\ dropped' = dropped + 1
            /\ Again(c)
  /\ UNCHANGED <<lock, fetches, remote, ask, answer, lost, cached>>

\* Mutant: a refusal is taken for a missing resource.
RefusedIsMissing(c) ==
  /\ phase[c] = "answered"
  /\ answer[c] = "refused"
  /\ Return(c, "missing")
  /\ UNCHANGED <<oauth, remote, locals, history, cached>>

\* 403, a user's 401, any other status, or a body that is not JSON.
Refused(c) ==
  /\ phase[c] = "answered"
  /\ answer[c] = "refused"
  /\ Return(c, "failed")
  /\ UNCHANGED <<oauth, remote, locals, history, cached>>

\* Mutant: every payload is cached.
PayloadShared(c) ==
  /\ result' = [result EXCEPT ![c] = IF answer[c] = "served" THEN ask[c].viewer ELSE "missing"]
  /\ MoveOn(c, IF ask[c].cache THEN "store" ELSE "done")
  /\ UNCHANGED tok

Payload(c) ==
  /\ result' = [result EXCEPT ![c] = IF answer[c] = "served" THEN ask[c].viewer ELSE "missing"]
  /\ MoveOn(c, IF Cacheable(c) THEN "store" ELSE "done")
  /\ UNCHANGED tok

Answered(c) ==
  /\ phase[c] = "answered"
  /\ answer[c] \in {"served", "absent"}
  /\ Payload(c)
  /\ UNCHANGED <<oauth, remote, locals, history, cached>>

\* The cache keeps the payload, or that there is none.  A Redis error is
\* ignored.
Store(c) ==
  /\ phase[c] = "store"
  /\ \/ cached' = [cached EXCEPT ![ask[c].key] = result[c]]
     \/ UNCHANGED cached
  /\ MoveOn(c, "done")
  /\ UNCHANGED <<oauth, remote, locals, history, tok, result>>

\* The task is cancelled where it awaits; async with releases what it holds.
Cancel(c) ==
  /\ phase[c] # "done"
  /\ Return(c, "cancelled")
  /\ Unlock(c)
  /\ lost' = IF phase[c] = "fetch" THEN lost + 1 ELSE lost
  /\ UNCHANGED <<appToken, fetches, dropped, remote, locals, cached>>

Step(c) ==
  \/ CacheHit(c) \/ CacheMiss(c) \/ TakeToken(c) \/ Acquire(c)
  \/ FetchToken(c) \/ FetchFails(c) \/ Send(c)
  \/ Throttled(c) \/ Rejected(c) \/ Refused(c) \/ Answered(c) \/ Store(c)

Event == events < MaxEvents /\ events' = events + 1

\* is_expired: the cached token is within a minute of its end.
TokenExpires ==
  /\ Event
  /\ appToken # 0
  /\ appToken' = 0
  /\ lost' = lost + 1
  /\ UNCHANGED <<lock, fetches, accepted, exists, wasMissing, locals, dropped, cached>>
  /\ UNCHANGED <<phase, tok, result>>

\* Battle.net stops accepting a token before its stated end.
TokenRevoked ==
  /\ Event
  /\ \E t \in accepted : accepted' = accepted \ {t}
  /\ lost' = lost + 1
  /\ UNCHANGED <<oauth, exists, wasMissing, locals, dropped, cached, phase, tok, result>>

\* A resource appears or disappears.
Change ==
  /\ Event
  /\ \E k \in Keys :
       /\ exists' = IF k \in exists THEN exists \ {k} ELSE exists \cup {k}
       /\ wasMissing' = IF k \in exists THEN wasMissing \cup {k} ELSE wasMissing
  /\ UNCHANGED <<oauth, accepted, locals, history, cached, phase, tok, result>>

\* Redis drops an entry at the end of its life.
Evict ==
  /\ \E k \in Keys : cached' = [cached EXCEPT ![k] = "empty"]
  /\ UNCHANGED <<oauth, remote, locals, history, phase, tok, result>>

ClientNext ==
  \/ \E c \in Calls : Step(c) \/ Cancel(c)
  \/ TokenExpires \/ TokenRevoked \/ Change \/ Evict

ClientSpec == ClientInit /\ [][ClientNext]_clientVars

\* The event loop runs every task that is ready; every await on the network
\* ends by its timeout; asyncio's locks serve their waiters in turn.
ClientFairSpec ==
  /\ ClientSpec
  /\ \A c \in Calls : WF_clientVars(Step(c)) /\ SF_clientVars(Acquire(c)) /\ SF_clientVars(Send(c))

-------------------------------------------------------------------------------
(* Properties. *)

ClientTypeOK ==
  /\ appToken \in 0 .. fetches
  /\ lock \in Calls \cup {NoCall}
  /\ accepted \subseteq 1 .. fetches
  /\ exists \subseteq Keys
  /\ cached \in [Keys -> {"empty", "missing"} \cup Viewers]
  /\ ask \in [Calls -> [key : Keys, viewer : Viewers, cache : BOOLEAN]]
  /\ phase \in [Calls -> {"start", "token", "lock", "fetch", "slot", "answered", "store", "done"}]
  /\ tok \in [Calls -> 0 .. fetches]
  /\ attempt \in [Calls -> 0 .. MaxRetries - 1]
  /\ reauthorized \in [Calls -> BOOLEAN]
  /\ answer \in [Calls -> Answers]
  /\ result \in [Calls -> {"none", "missing", "failed", "unavailable", "cancelled"} \cup Viewers]
  /\ fetches \in Nat
  /\ lost \in Nat
  /\ dropped \in Nat
  /\ wasMissing \subseteq Keys
  /\ events \in 0 .. MaxEvents

\* Every token request is owed to something: the start, a token that expired
\* or was revoked, a token request that brought none, or a 401.
FetchesAreOwed == fetches <= 1 + lost + dropped

\* A player's data reaches only that player, and the shared cache never.
DataIsPrivate ==
  /\ \A k \in Keys : cached[k] \notin Users
  /\ \A c \in Calls : result[c] \in Users => result[c] = ask[c].viewer

\* "Missing" is only said, and only remembered, of what Battle.net did not
\* have at some time: never of a resource whose requests failed.
MissingWasMissing ==
  /\ \A k \in Keys : cached[k] = "missing" => k \in wasMissing
  /\ \A c \in Calls : result[c] = "missing" => ask[c].key \in wasMissing

\* The semaphore, the lock and the retries let every call end.
CallsEnd == \A c \in Calls : <>(phase[c] = "done")

===============================================================================
