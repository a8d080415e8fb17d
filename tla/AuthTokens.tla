------------------------------- MODULE AuthTokens ------------------------------
(***************************************************************************)
(* Refresh tokens (services/auth.py, core/security.py) and the deny list   *)
(* in Redis that revokes them (core/redis.py): login mints one, refresh    *)
(* exchanges one for another, logout revokes one.  A request reads the     *)
(* list and writes it in separate calls.  Time counts half seconds, as     *)
(* exp, and the life of a key, are whole seconds while the clock is not.   *)
(***************************************************************************)
EXTENDS Naturals

CONSTANTS Requests,
          MaxTokens,   \* bound on the tokens minted
          Lifetime,    \* REFRESH_TOKEN_EXPIRE_DAYS, in seconds
          Horizon,     \* bound on the clock, in half seconds
          MaxFaults    \* bound on Redis errors, missing users and lost requests

ASSUME AuthAssumption ==
  /\ MaxTokens \in Nat
  /\ Lifetime \in Nat \ {0}
  /\ Horizon \in Nat
  /\ MaxFaults \in Nat

Tokens == 1 .. MaxTokens

VARIABLES
  now,       \* the clock
  issued,    \* how many refresh tokens exist
  exp,       \* when each expires
  denied,    \* until when its key is in the deny list
  pc,        \* step of each request
  tok,       \* the token each request presents; 0 for none
  late,      \* whether it was revoked before the request looked
  revoked,   \* tokens that a request has revoked
  faults

service == <<now, issued, exp>>
request == <<pc, tok, late>>
authVars == <<service, denied, request, revoked, faults>>

AuthInit ==
  /\ now = 0
  /\ issued = 0
  /\ exp = [t \in Tokens |-> 0]
  /\ denied = [t \in Tokens |-> 0]
  /\ pc = [r \in Requests |-> "idle"]
  /\ tok = [r \in Requests |-> 0]
  /\ late = [r \in Requests |-> FALSE]
  /\ revoked = {}
  /\ faults = 0

GoTo(r, step) == pc' = [pc EXCEPT ![r] = step]
Fault == faults < MaxFaults /\ faults' = faults + 1

\* The request ends, with a response or an error.
Finish(r) ==
  /\ GoTo(r, "idle")
  /\ tok' = [tok EXCEPT ![r] = 0]
  /\ late' = [late EXCEPT ![r] = FALSE]

WholeSeconds(n) == (n \div 2) * 2

\* create_refresh_token: exp is cut to whole seconds.
Mint ==
  /\ issued < MaxTokens
  /\ issued' = issued + 1
  /\ exp' = [exp EXCEPT ![issued + 1] = WholeSeconds(now + 2 * Lifetime)]
  /\ UNCHANGED now

Login ==
  /\ Mint
  /\ UNCHANGED <<denied, request, revoked, faults>>

\* decode_token: a token is accepted until it expires.
Valid(t) == t \in 1 .. issued /\ now < exp[t]

Decode(r, t, step) ==
  /\ pc[r] = "idle"
  /\ Valid(t)
  /\ GoTo(r, step)
  /\ tok' = [tok EXCEPT ![r] = t]
  /\ UNCHANGED <<service, denied, late, revoked, faults>>

BeginRefresh(r, t) == Decode(r, t, "check")
BeginLogout(r, t)  == Decode(r, t, "logout")

\* is_revoked: the key exists.  A Redis error counts as revoked.
Listed(t) == now < denied[t]

CheckPasses(r) ==
  /\ pc[r] = "check"
  /\ ~ Listed(tok[r])
  /\ late' = [late EXCEPT ![r] = tok[r] \in revoked]
  /\ GoTo(r, "user")
  /\ UNCHANGED <<service, denied, tok, revoked, faults>>

CheckRefuses(r) ==
  /\ pc[r] = "check"
  /\ \/ Listed(tok[r]) /\ UNCHANGED faults
     \/ Fault
  /\ Finish(r)
  /\ UNCHANGED <<service, denied, revoked>>

\* The account is loaded; it may be gone or inactive.
LoadUser(r) ==
  /\ pc[r] = "user"
  /\ GoTo(r, "revoke")
  /\ UNCHANGED <<service, denied, tok, late, revoked, faults>>

NoUser(r) ==
  /\ pc[r] = "user"
  /\ Fault
  /\ Finish(r)
  /\ UNCHANGED <<service, denied, revoked>>

\* Mutant: the key lives for one second.
DenyShortly(t) == denied' = [denied EXCEPT ![t] = now + 2]

\* revoke: SET key EX ttl, unless less than a second is left.
Deny(t) ==
  LET ttl == WholeSeconds(exp[t] - now)
  IN  denied' = IF now < exp[t] /\ ttl > 0 THEN [denied EXCEPT ![t] = now + ttl] ELSE denied

\* refresh goes on to issue the pair, logout is done.
Revoke(r) ==
  /\ pc[r] \in {"revoke", "logout"}
  /\ Deny(tok[r])
  /\ revoked' = revoked \cup {tok[r]}
  /\ IF pc[r] = "revoke" THEN GoTo(r, "issue") /\ UNCHANGED <<tok, late>> ELSE Finish(r)
  /\ UNCHANGED <<service, faults>>

\* The SET fails, or its reply is lost: the error goes to the client.
RevokeFails(r) ==
  /\ pc[r] \in {"revoke", "logout"}
  /\ Deny(tok[r]) \/ UNCHANGED denied
  /\ Fault
  /\ Finish(r)
  /\ UNCHANGED <<service, revoked>>

\* issue_tokens.
Issue(r) ==
  /\ pc[r] = "issue"
  /\ Mint
  /\ Finish(r)
  /\ UNCHANGED <<denied, revoked, faults>>

\* The process dies, or the client is gone.
Lost(r) ==
  /\ pc[r] # "idle"
  /\ Fault
  /\ Finish(r)
  /\ UNCHANGED <<service, denied, revoked>>

Tick ==
  /\ now < Horizon
  /\ now' = now + 1
  /\ UNCHANGED <<issued, exp, denied, request, revoked, faults>>

Step(r) ==
  \/ \E t \in Tokens : BeginRefresh(r, t) \/ BeginLogout(r, t)
  \/ CheckPasses(r) \/ CheckRefuses(r) \/ LoadUser(r) \/ NoUser(r)
  \/ Revoke(r) \/ RevokeFails(r) \/ Issue(r) \/ Lost(r)

AuthNext == Login \/ Tick \/ \E r \in Requests : Step(r)

AuthSpec == AuthInit /\ [][AuthNext]_authVars

-------------------------------------------------------------------------------
(* Properties. *)

AuthTypeOK ==
  /\ now \in 0 .. Horizon
  /\ issued \in 0 .. MaxTokens
  /\ exp \in [Tokens -> Nat]
  /\ denied \in [Tokens -> Nat]
  /\ pc \in [Requests -> {"idle", "check", "user", "revoke", "issue", "logout"}]
  /\ tok \in [Requests -> 0 .. issued]
  /\ \A r \in Requests : pc[r] # "idle" => tok[r] # 0
  /\ late \in [Requests -> BOOLEAN]
  /\ revoked \subseteq 1 .. issued
  /\ faults \in 0 .. MaxFaults

\* A refresh that looks at the deny list after the token was revoked does not
\* get a pair, except in the token's last second.
RevokedIsRefused ==
  \A r \in Requests : pc[r] \in {"user", "revoke", "issue"} /\ late[r] => now + 2 > exp[tok[r]]

===============================================================================
