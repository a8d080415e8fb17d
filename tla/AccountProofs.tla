----------------------------- MODULE AccountProofs -----------------------------
(***************************************************************************)
(* What TLAPS proves of a user's account: of the refresh tokens and their  *)
(* deny list (AuthTokens), for any requests, tokens, lifetimes and faults, *)
(* and of the link to a Battle.net account (OAuthLink), for any users,     *)
(* accounts, states and callbacks: the invariants of the runs, and that    *)
(* OAuthLink implements LinkRegistry.                                      *)
(***************************************************************************)
EXTENDS AuthTokens, OAuthLink, TLAPS

-------------------------------------------------------------------------------
(* Refresh tokens.                                                         *)


\* A revoked token is listed up to its last second.
ListedLong == \A t \in revoked : denied[t] + 2 > exp[t] \/ now + 2 > exp[t]

AuthInv == AuthTypeOK /\ ListedLong /\ RevokedIsRefused

Steps == {"idle", "check", "user", "revoke", "issue", "logout"}

-------------------------------------------------------------------------------
(* Whole seconds lose less than one second. *)

LEMMA WholeSecondsBound ==
  ASSUME NEW n \in Nat
  PROVE  /\ WholeSeconds(n) \in Nat
         /\ WholeSeconds(n) <= n
         /\ n < WholeSeconds(n) + 2
  BY DEF WholeSeconds

LEMMA AuthInitInv == AuthInit => AuthInv
  BY AuthAssumption DEF AuthInit, AuthInv, AuthTypeOK, Tokens, ListedLong, RevokedIsRefused

\* A new token leaves the others as they are.
LEMMA MintType ==
  ASSUME AuthTypeOK, Mint
  PROVE  /\ issued' = issued + 1 /\ issued' \in 0 .. MaxTokens
         /\ now' = now
         /\ exp' \in [Tokens -> Nat]
         /\ \A t \in 1 .. issued : exp'[t] = exp[t]
<1>1. WholeSeconds(now + 2 * Lifetime) \in Nat
  BY WholeSecondsBound, AuthAssumption DEF AuthTypeOK
<1>2. issued \in Nat /\ issued + 1 \in Tokens
  BY AuthAssumption DEF AuthTypeOK, Mint, Tokens
<1> QED
  BY <1>1, <1>2, AuthAssumption DEF AuthTypeOK, Mint, Tokens

\* A key that is set lives past the token's last second, and one that is not
\* set is not needed.
LEMMA DenyLasts ==
  ASSUME AuthTypeOK, NEW t \in 1 .. issued, Deny(t)
  PROVE  /\ denied' \in [Tokens -> Nat]
         /\ \A u \in Tokens \ {t} : denied'[u] = denied[u]
         /\ denied'[t] + 2 > exp[t] \/ now + 2 > exp[t]
<1> DEFINE ttl == WholeSeconds(exp[t] - now)
<1>1. t \in Tokens /\ exp[t] \in Nat /\ now \in Nat
  BY AuthAssumption DEF AuthTypeOK, Tokens
<1>2. CASE now < exp[t]
  <2>1. ttl \in Nat /\ exp[t] - now < ttl + 2
    BY <1>1, <1>2, WholeSecondsBound
  <2> HIDE DEF ttl
  <2>2. CASE ttl > 0
    <3>1. denied' = [denied EXCEPT ![t] = now + ttl]
      BY <1>2, <2>2 DEF Deny, ttl
    <3>2. denied'[t] = now + ttl
      BY <1>1, <3>1 DEF AuthTypeOK
    <3> QED
      BY <1>1, <2>1, <3>1, <3>2 DEF AuthTypeOK
  <2>3. CASE ~ (ttl > 0)
    <3>1. denied' = denied
      BY <2>3 DEF Deny, ttl
    <3> QED
      BY <1>1, <2>1, <2>3, <3>1 DEF AuthTypeOK
  <2> QED
    BY <2>2, <2>3
<1>3. CASE ~ (now < exp[t])
  BY <1>1, <1>3 DEF Deny, AuthTypeOK
<1> QED
  BY <1>2, <1>3

\* Ending a request leaves nothing of it.
LEMMA FinishType ==
  ASSUME AuthTypeOK, NEW r \in Requests, Finish(r), issued' \in Nat, issued <= issued'
  PROVE  /\ pc' \in [Requests -> Steps]
         /\ tok' \in [Requests -> 0 .. issued']
         /\ \A q \in Requests : pc'[q] # "idle" => tok'[q] # 0
         /\ late' \in [Requests -> BOOLEAN]
         /\ pc'[r] = "idle"
         /\ \A q \in Requests \ {r} : pc'[q] = pc[q] /\ tok'[q] = tok[q] /\ late'[q] = late[q]
<1>1. issued \in Nat
  BY AuthAssumption DEF AuthTypeOK
<1>2. \A n \in 0 .. issued : n \in 0 .. issued'
  BY <1>1
<1> QED
  BY <1>1, <1>2 DEF AuthTypeOK, Finish, GoTo, Steps

-------------------------------------------------------------------------------
(* Each step. *)

LEMMA FaultType ==
  ASSUME AuthTypeOK, Fault \/ UNCHANGED faults
  PROVE  faults' \in 0 .. MaxFaults
  BY AuthAssumption DEF AuthTypeOK, Fault

\* Requests that did not move are refused as before, while time goes on.
LEMMA QuietRefused ==
  ASSUME AuthTypeOK, RevokedIsRefused, NEW q \in Requests,
         pc'[q] = pc[q], tok'[q] = tok[q], late'[q] = late[q],
         \A t \in 1 .. issued : exp'[t] = exp[t], now' \in Nat, now <= now'
  PROVE  pc'[q] \in {"user", "revoke", "issue"} /\ late'[q] => now' + 2 > exp'[tok'[q]]
<1>1. CASE pc[q] \in {"user", "revoke", "issue"} /\ late[q]
  <2>1. now + 2 > exp[tok[q]]
    BY <1>1 DEF RevokedIsRefused
  <2>2. tok[q] \in 1 .. issued
    BY <1>1, AuthAssumption DEF AuthTypeOK
  <2>3. tok[q] \in Tokens /\ now \in Nat
    BY <2>2, AuthAssumption DEF AuthTypeOK, Tokens
  <2>4. exp[tok[q]] \in Nat
    BY <2>3 DEF AuthTypeOK
  <2> QED
    BY <2>1, <2>2, <2>3, <2>4
<1>2. CASE ~ (pc[q] \in {"user", "revoke", "issue"} /\ late[q])
  BY <1>2
<1> QED
  BY <1>1, <1>2

\* The deny list still covers what was revoked: it stays as it is, or the key
\* of one token is set again.
LEMMA StillListed ==
  ASSUME AuthTypeOK, ListedLong, now' \in Nat, now <= now', revoked' = revoked,
         \A t \in 1 .. issued : exp'[t] = exp[t],
         UNCHANGED denied \/ (now' = now /\ \E t \in 1 .. issued : Deny(t))
  PROVE  ListedLong'
<1> SUFFICES ASSUME NEW u \in revoked
             PROVE  denied'[u] + 2 > exp'[u] \/ now' + 2 > exp'[u]
  BY DEF ListedLong
<1>1. /\ u \in 1 .. issued /\ u \in Tokens
      /\ exp'[u] = exp[u] /\ exp[u] \in Nat /\ denied[u] \in Nat /\ now \in Nat
      /\ denied[u] + 2 > exp[u] \/ now + 2 > exp[u]
  BY AuthAssumption DEF AuthTypeOK, Tokens, ListedLong
<1>2. CASE UNCHANGED denied
  BY <1>1, <1>2
<1>3. ASSUME now' = now, NEW t \in 1 .. issued, Deny(t)
      PROVE  denied'[u] + 2 > exp'[u] \/ now' + 2 > exp'[u]
  <2>1. CASE u = t
    BY <1>1, <1>3, <2>1, DenyLasts
  <2>2. CASE u # t
    BY <1>1, <1>3, <2>2, DenyLasts
  <2> QED
    BY <2>1, <2>2
<1> QED
  BY <1>2, <1>3

\* Revoking t adds it to what the list covers.
LEMMA NowListed ==
  ASSUME AuthTypeOK, ListedLong, NEW t \in 1 .. issued, Deny(t), revoked' = revoked \cup {t}, UNCHANGED service
  PROVE  ListedLong'
<1> SUFFICES ASSUME NEW u \in revoked'
             PROVE  denied'[u] + 2 > exp'[u] \/ now' + 2 > exp'[u]
  BY DEF ListedLong
<1>1. UNCHANGED <<now, exp>>
  BY DEF service
<1>2. CASE u = t
  BY <1>1, <1>2, DenyLasts
<1>3. CASE u # t
  <2>1. u \in revoked /\ u \in Tokens
    BY <1>3, AuthAssumption DEF AuthTypeOK, Tokens
  <2>2. denied'[u] = denied[u]
    BY <1>3, <2>1, DenyLasts
  <2> QED
    BY <1>1, <2>1, <2>2 DEF ListedLong
<1> QED
  BY <1>2, <1>3

\* One request moves, the others are refused as before.
LEMMA StillRefused ==
  ASSUME AuthTypeOK, RevokedIsRefused, NEW r \in Requests,
         \A q \in Requests \ {r} : pc'[q] = pc[q] /\ tok'[q] = tok[q] /\ late'[q] = late[q],
         \A t \in 1 .. issued : exp'[t] = exp[t], now' \in Nat, now <= now',
         pc'[r] \in {"user", "revoke", "issue"} /\ late'[r] => now' + 2 > exp'[tok'[r]]
  PROVE  RevokedIsRefused'
<1> SUFFICES ASSUME NEW q \in Requests
             PROVE  pc'[q] \in {"user", "revoke", "issue"} /\ late'[q] => now' + 2 > exp'[tok'[q]]
  BY DEF RevokedIsRefused
<1>1. CASE q = r
  BY <1>1
<1>2. CASE q # r
  BY <1>2, QuietRefused
<1> QED
  BY <1>1, <1>2

\* A request ends while the clock and the tokens stay.
LEMMA FinishInv ==
  ASSUME AuthInv, NEW r \in Requests, Finish(r), UNCHANGED service, faults' \in 0 .. MaxFaults,
         \/ UNCHANGED <<denied, revoked>>
         \/ UNCHANGED revoked /\ Deny(tok[r]) /\ tok[r] # 0
         \/ revoked' = revoked \cup {tok[r]} /\ Deny(tok[r]) /\ tok[r] # 0
  PROVE  AuthInv'
<1>1. /\ AuthTypeOK /\ ListedLong /\ RevokedIsRefused
      /\ issued \in Nat /\ now \in Nat /\ UNCHANGED <<now, issued, exp>>
  BY AuthAssumption DEF AuthInv, AuthTypeOK, service
<1>2. tok[r] # 0 => tok[r] \in 1 .. issued
  BY <1>1 DEF AuthTypeOK
<1>3. denied' \in [Tokens -> Nat]
  BY <1>1, <1>2, DenyLasts DEF AuthTypeOK
<1>4. revoked' \subseteq 1 .. issued
  BY <1>1, <1>2 DEF AuthTypeOK
<1>5. /\ pc' \in [Requests -> Steps]
      /\ tok' \in [Requests -> 0 .. issued']
      /\ \A q \in Requests : pc'[q] # "idle" => tok'[q] # 0
      /\ late' \in [Requests -> BOOLEAN]
      /\ pc'[r] = "idle"
      /\ \A q \in Requests \ {r} : pc'[q] = pc[q] /\ tok'[q] = tok[q] /\ late'[q] = late[q]
  BY <1>1, FinishType
<1>6. AuthTypeOK'
  BY <1>1, <1>3, <1>4, <1>5 DEF AuthTypeOK, Steps
<1>7. ListedLong'
  BY <1>1, <1>2, StillListed, NowListed
<1>8. RevokedIsRefused'
  BY <1>1, <1>5, StillRefused
<1> QED
  BY <1>6, <1>7, <1>8 DEF AuthInv

\* A request goes on, keeping its token and what it saw.
LEMMA GoOnInv ==
  ASSUME AuthInv, NEW r \in Requests, pc[r] \in {"user", "revoke"}, NEW step \in {"revoke", "issue"}, GoTo(r, step),
         UNCHANGED <<service, tok, late, faults>>,
         \/ UNCHANGED <<denied, revoked>>
         \/ revoked' = revoked \cup {tok[r]} /\ Deny(tok[r])
  PROVE  AuthInv'
<1>1. /\ AuthTypeOK /\ ListedLong /\ RevokedIsRefused
      /\ issued \in Nat /\ now \in Nat /\ UNCHANGED <<now, issued, exp>>
  BY AuthAssumption DEF AuthInv, AuthTypeOK, service
<1>2. tok[r] \in 1 .. issued
  BY <1>1 DEF AuthTypeOK
<1>3. denied' \in [Tokens -> Nat] /\ revoked' \subseteq 1 .. issued
  BY <1>1, <1>2, DenyLasts DEF AuthTypeOK
<1>4. pc' = [pc EXCEPT ![r] = step] /\ pc' \in [Requests -> Steps]
  BY <1>1 DEF AuthTypeOK, GoTo, Steps
<1>5. AuthTypeOK'
  BY <1>1, <1>2, <1>3, <1>4 DEF AuthTypeOK, Steps
<1>6. ListedLong'
  BY <1>1, <1>2, StillListed, NowListed
<1>7. late[r] => now + 2 > exp[tok[r]]
  BY <1>1 DEF RevokedIsRefused
<1>8. RevokedIsRefused'
  BY <1>1, <1>4, <1>7, StillRefused DEF AuthTypeOK
<1> QED
  BY <1>5, <1>6, <1>8 DEF AuthInv

LEMMA DecodeInv ==
  ASSUME AuthInv, NEW r \in Requests, NEW t \in Tokens, NEW step \in {"check", "logout"}, Decode(r, t, step)
  PROVE  AuthInv'
<1>1. /\ AuthTypeOK /\ ListedLong /\ RevokedIsRefused
      /\ issued \in Nat /\ now \in Nat /\ UNCHANGED <<now, issued, exp, denied, late, revoked, faults>>
  BY AuthAssumption DEF AuthInv, AuthTypeOK, service, Decode
<1>2. t \in 1 .. issued
  BY DEF Decode, Valid
<1>3. /\ pc' = [pc EXCEPT ![r] = step] /\ pc' \in [Requests -> Steps]
      /\ tok' = [tok EXCEPT ![r] = t] /\ tok' \in [Requests -> 0 .. issued]
  BY <1>1, <1>2 DEF AuthTypeOK, Decode, GoTo, Steps
<1>4. AuthTypeOK'
  BY <1>1, <1>2, <1>3 DEF AuthTypeOK, Steps
<1>5. ListedLong'
  BY <1>1, StillListed
<1>6. RevokedIsRefused'
  BY <1>1, <1>3, StillRefused DEF AuthTypeOK
<1> QED
  BY <1>4, <1>5, <1>6 DEF AuthInv

\* Here the list decides: a revoked token that is not listed is in its last
\* second.
LEMMA CheckInv ==
  ASSUME AuthInv, NEW r \in Requests, CheckPasses(r)
  PROVE  AuthInv'
<1>1. /\ AuthTypeOK /\ ListedLong /\ RevokedIsRefused
      /\ issued \in Nat /\ now \in Nat /\ UNCHANGED <<now, issued, exp, denied, tok, revoked, faults>>
  BY AuthAssumption DEF AuthInv, AuthTypeOK, service, CheckPasses
<1>2. tok[r] \in 1 .. issued /\ tok[r] \in Tokens
  BY <1>1, AuthAssumption DEF AuthTypeOK, CheckPasses, Tokens
<1>3. exp[tok[r]] \in Nat /\ denied[tok[r]] \in Nat
  BY <1>1, <1>2 DEF AuthTypeOK
<1>4. tok[r] \in revoked => now + 2 > exp[tok[r]]
  <2>1. denied[tok[r]] <= now
    BY <1>1, <1>3 DEF CheckPasses, Listed
  <2> QED
    BY <1>1, <1>3, <2>1 DEF ListedLong
<1>5. /\ pc' = [pc EXCEPT ![r] = "user"] /\ pc' \in [Requests -> Steps]
      /\ late' = [late EXCEPT ![r] = tok[r] \in revoked]
  BY <1>1 DEF AuthTypeOK, CheckPasses, GoTo, Steps
<1>6. late' \in [Requests -> BOOLEAN] /\ late'[r] = (tok[r] \in revoked)
  <2> DEFINE seen == tok[r] \in revoked
  <2>1. late \in [Requests -> BOOLEAN] /\ late' = [late EXCEPT ![r] = seen]
    BY <1>1, <1>5 DEF AuthTypeOK
  <2>2. seen \in BOOLEAN
    OBVIOUS
  <2> HIDE DEF seen
  <2>3. late' \in [Requests -> BOOLEAN] /\ late'[r] = seen
    BY <2>1, <2>2, Zenon
  <2> QED
    BY <2>3 DEF seen
<1>7. \A q \in Requests \ {r} : pc'[q] = pc[q] /\ tok'[q] = tok[q] /\ late'[q] = late[q]
  BY <1>1, <1>5 DEF AuthTypeOK
<1>8. AuthTypeOK'
  BY <1>1, <1>2, <1>5, <1>6 DEF AuthTypeOK, Steps
<1>9. ListedLong'
  BY <1>1, StillListed
<1>10. RevokedIsRefused'
  BY <1>1, <1>4, <1>6, <1>7, StillRefused
<1> QED
  BY <1>8, <1>9, <1>10 DEF AuthInv

\* A login leaves every request and every token as it was.
LEMMA LoginInv ==
  ASSUME AuthInv, Login
  PROVE  AuthInv'
<1>1. /\ AuthTypeOK /\ ListedLong /\ RevokedIsRefused
      /\ issued \in Nat /\ now \in Nat /\ UNCHANGED <<denied, pc, tok, late, revoked, faults>>
  BY AuthAssumption DEF AuthInv, AuthTypeOK, request, Login
<1>2. /\ issued' = issued + 1 /\ issued' \in 0 .. MaxTokens
      /\ now' = now
      /\ exp' \in [Tokens -> Nat]
      /\ \A t \in 1 .. issued : exp'[t] = exp[t]
  BY <1>1, MintType DEF Login
<1>3. \A n \in 0 .. issued : n \in 0 .. issued'
  BY <1>1, <1>2
<1>4. AuthTypeOK'
  BY <1>1, <1>2, <1>3 DEF AuthTypeOK
<1>5. ListedLong'
  BY <1>1, <1>2, StillListed
<1>6. RevokedIsRefused'
  BY <1>1, <1>2, QuietRefused DEF RevokedIsRefused
<1> QED
  BY <1>4, <1>5, <1>6 DEF AuthInv

LEMMA IssueInv ==
  ASSUME AuthInv, NEW r \in Requests, Issue(r)
  PROVE  AuthInv'
<1>1. /\ AuthTypeOK /\ ListedLong /\ RevokedIsRefused
      /\ issued \in Nat /\ now \in Nat /\ UNCHANGED <<denied, revoked, faults>>
  BY AuthAssumption DEF AuthInv, AuthTypeOK, Issue
<1>2. /\ issued' = issued + 1 /\ issued' \in 0 .. MaxTokens
      /\ now' = now
      /\ exp' \in [Tokens -> Nat]
      /\ \A t \in 1 .. issued : exp'[t] = exp[t]
  BY <1>1, MintType DEF Issue
<1>3. faults' \in 0 .. MaxFaults
  BY <1>1 DEF AuthTypeOK
<1>4. /\ pc' \in [Requests -> Steps]
      /\ tok' \in [Requests -> 0 .. issued']
      /\ \A q \in Requests : pc'[q] # "idle" => tok'[q] # 0
      /\ late' \in [Requests -> BOOLEAN]
      /\ pc'[r] = "idle"
      /\ \A q \in Requests \ {r} : pc'[q] = pc[q] /\ tok'[q] = tok[q] /\ late'[q] = late[q]
  <2>1. issued' \in Nat /\ issued <= issued'
    BY <1>1, <1>2
  <2> QED
    BY <1>1, <2>1, FinishType DEF Issue
<1>5. \A n \in 0 .. issued : n \in 0 .. issued'
  BY <1>1, <1>2
<1>6. AuthTypeOK'
  BY <1>1, <1>2, <1>3, <1>4, <1>5 DEF AuthTypeOK, Steps
<1>7. ListedLong'
  BY <1>1, <1>2, StillListed
<1>8. RevokedIsRefused'
  BY <1>1, <1>2, <1>4, StillRefused
<1> QED
  BY <1>6, <1>7, <1>8 DEF AuthInv

\* Time brings tokens closer to their end.
LEMMA TickInv ==
  ASSUME AuthInv, Tick
  PROVE  AuthInv'
<1>1. /\ AuthTypeOK /\ ListedLong /\ RevokedIsRefused
      /\ UNCHANGED <<issued, exp, denied, pc, tok, late, revoked, faults>>
  BY DEF AuthInv, Tick, request
<1>2. now \in Nat /\ now' = now + 1 /\ now' \in 0 .. Horizon
  BY <1>1, AuthAssumption DEF AuthTypeOK, Tick
<1>3. AuthTypeOK'
  BY <1>1, <1>2 DEF AuthTypeOK
<1>4. ListedLong'
  BY <1>1, <1>2, StillListed
<1>5. RevokedIsRefused'
  BY <1>1, <1>2, QuietRefused DEF RevokedIsRefused
<1> QED
  BY <1>3, <1>4, <1>5 DEF AuthInv

LEMMA StepInv ==
  ASSUME AuthInv, NEW r \in Requests, Step(r)
  PROVE  AuthInv'
<1>1. /\ Fault \/ UNCHANGED faults => faults' \in 0 .. MaxFaults
      /\ pc[r] # "idle" => tok[r] # 0
  BY FaultType DEF AuthInv, AuthTypeOK
<1>2. ASSUME NEW t \in Tokens, BeginRefresh(r, t) \/ BeginLogout(r, t)
      PROVE  AuthInv'
  BY <1>2, DecodeInv DEF BeginRefresh, BeginLogout
<1>3. CASE CheckPasses(r)
  BY <1>3, CheckInv
<1>4. CASE CheckRefuses(r)
  BY <1>1, <1>4, FinishInv DEF CheckRefuses
<1>5. CASE LoadUser(r)
  BY <1>5, GoOnInv DEF LoadUser
<1>6. CASE NoUser(r)
  BY <1>1, <1>6, FinishInv DEF NoUser
<1>7. CASE Revoke(r)
  <2>1. CASE pc[r] = "revoke"
    BY <1>7, <2>1, GoOnInv DEF Revoke
  <2>2. CASE pc[r] = "logout"
    BY <1>1, <1>7, <2>2, FinishInv DEF Revoke
  <2> QED
    BY <1>7, <2>1, <2>2 DEF Revoke
<1>8. CASE RevokeFails(r)
  BY <1>1, <1>8, FinishInv DEF RevokeFails
<1>9. CASE Issue(r)
  BY <1>9, IssueInv
<1>10. CASE Lost(r)
  BY <1>1, <1>10, FinishInv DEF Lost
<1> QED
  BY <1>2, <1>3, <1>4, <1>5, <1>6, <1>7, <1>8, <1>9, <1>10 DEF Step

LEMMA AuthInvIsInductive == AuthInv /\ [AuthNext]_authVars => AuthInv'
<1>1. ASSUME AuthInv, UNCHANGED authVars
      PROVE  AuthInv'
  BY <1>1 DEF AuthInv, AuthTypeOK, ListedLong, RevokedIsRefused, authVars, service, request
<1> QED
  BY <1>1, LoginInv, TickInv, StepInv DEF AuthNext

\* The state is well formed in every behavior.
THEOREM AuthTypeCorrect == AuthSpec => []AuthTypeOK
<1>1. AuthInv => AuthTypeOK
  BY DEF AuthInv
<1> QED
  BY AuthInitInv, AuthInvIsInductive, <1>1, PTL DEF AuthSpec

\* A refresh that looks at the deny list after its token was revoked is
\* refused, up to the last second of the token's life.
THEOREM RevocationHolds == AuthSpec => []RevokedIsRefused
<1>1. AuthInv => RevokedIsRefused
  BY DEF AuthInv
<1> QED
  BY AuthInitInv, AuthInvIsInductive, <1>1, PTL DEF AuthSpec

-------------------------------------------------------------------------------
(* Account links.                                                          *)


\* A state in Redis is its starter's and with no callback; a callback that
\* is served has taken the state of its user.
StatesApart ==
  /\ \A s \in States : pending[s] # None => pending[s] = starter[s]
  /\ \A c \in InFlight : /\ cb[c].state \in States
                         /\ cb[c].user \in Users /\ cb[c].user = starter[cb[c].state]
                         /\ pending[cb[c].state] = None

\* No two callbacks are served for one state.
Exclusive == \A c, d \in InFlight : c # d => cb[c].state # cb[d].state

\* What a callback writes is a row of its user; only a new one was not read.
Targets ==
  \A c \in Callbacks :
    /\ cb[c].pc \in {"named", "unowned", "found", "written"} => cb[c].bnet \in Bnets
    /\ cb[c].pc \in {"found", "written"} =>
         cb[c].row = cb[c].user /\ (cb[c].id = None <=> cb[c].read = None)

\* Open writes are of different rows, which stay, and of different accounts
\* where they send one, which then no other row has.
WritesApart ==
  \A c \in Callbacks : cb[c].pc = "written" =>
    /\ links[cb[c].row].id = cb[c].id
    /\ Sends(c) => Owners(cb[c].bnet) \ {cb[c].row} = {}
    /\ \A d \in Callbacks \ {c} : cb[d].pc = "written" =>
         /\ cb[d].row # cb[c].row
         /\ Sends(c) /\ Sends(d) => cb[d].bnet # cb[c].bnet

Inv ==
  /\ TypeOK /\ StatesApart /\ Exclusive /\ Targets /\ WritesApart
  /\ LinksAreUnique /\ GrantBelongsToStarter

-------------------------------------------------------------------------------

LEMMA InitInv == Init => Inv
  BY NoneAssumption
  DEF Init, Inv, TypeOK, StatesApart, Exclusive, Targets, WritesApart, LinksAreUnique,
      GrantBelongsToStarter, Idle, NoRow, Rows, InFlight

\* Ending a callback keeps the invariant, whatever becomes of Redis as long
\* as no state is put there.
LEMMA EndKeeps ==
  ASSUME Inv, NEW c \in Callbacks, NEW outcome \in {"linked", "failed"}, End(c, outcome),
         starter' = starter, links' = links, pending' \in [States -> Users \cup {None}],
         \A s \in States : pending'[s] = pending[s] \/ pending'[s] = None
  PROVE  Inv'
<1>1. cb'[c] = [Idle EXCEPT !.pc = outcome] /\ \A d \in Callbacks \ {c} : cb'[d] = cb[d]
  BY DEF Inv, TypeOK, End
<1>2. InFlight' = InFlight \ {c}
  BY <1>1 DEF InFlight, Idle
<1>3. TypeOK'
  BY DEF Inv, TypeOK, End, Idle
<1>4. StatesApart' /\ Exclusive'
  BY <1>1, <1>2 DEF Inv, StatesApart, Exclusive, InFlight, TypeOK
<1>5. Targets'
  BY <1>1 DEF Inv, Targets, Idle
<1>6. WritesApart'
  BY <1>1 DEF Inv, WritesApart, Sends, Owners, Idle
<1> QED
  BY <1>3, <1>4, <1>5, <1>6 DEF Inv, LinksAreUnique, GrantBelongsToStarter

\* A callback that goes on keeps its state and its user.
LEMMA GoOn ==
  ASSUME Inv, NEW c \in InFlight, NEW r, cb' = [cb EXCEPT ![c] = r],
         r.pc \in {"named", "unowned", "found", "written"},
         r.state = cb[c].state, r.user = cb[c].user, starter' = starter, pending' = pending
  PROVE  /\ cb'[c] = r /\ \A d \in Callbacks \ {c} : cb'[d] = cb[d]
         /\ InFlight' = InFlight /\ StatesApart' /\ Exclusive'
<1>1. c \in Callbacks /\ cb'[c] = r /\ \A d \in Callbacks \ {c} : cb'[d] = cb[d]
  BY DEF Inv, TypeOK, InFlight
<1>2. InFlight' = InFlight
  BY <1>1 DEF InFlight
<1> QED
  BY <1>1, <1>2 DEF Inv, StatesApart, Exclusive, InFlight

LEMMA BeginKeeps ==
  ASSUME Inv, NEW u \in Users, NEW s \in States, Begin(u, s)
  PROVE  Inv'
<1>1. /\ starter'[s] = u /\ pending'[s] = u
      /\ \A t \in States \ {s} : starter'[t] = starter[t] /\ pending'[t] = pending[t]
      /\ links' = links /\ cb' = cb
  BY DEF Inv, TypeOK, Begin
<1>2. \A c \in InFlight : cb[c].state # s
  BY NoneAssumption DEF Inv, StatesApart, Begin
<1>3. TypeOK'
  BY DEF Inv, TypeOK, Begin
<1> QED
  BY <1>1, <1>2, <1>3
  DEF Inv, StatesApart, Exclusive, Targets, WritesApart, LinksAreUnique, GrantBelongsToStarter,
      InFlight, Sends, Owners

LEMMA TakeKeeps ==
  ASSUME Inv, NEW c \in Callbacks, NEW s \in States, Take(c, s)
  PROVE  Inv'
<1> DEFINE r == [cb[c] EXCEPT !.pc = "taken", !.state = s, !.user = pending[s]]
<1>1. cb'[c] = r /\ \A d \in Callbacks \ {c} : cb'[d] = cb[d]
  BY DEF Inv, TypeOK, Take
<1>2. pending[s] \in Users /\ pending[s] = starter[s] /\ cb[c].pc = "idle"
  BY DEF Inv, TypeOK, StatesApart, Take
<1>3. r.pc = "taken" /\ r.state = s /\ r.user = pending[s]
  BY DEF Inv, TypeOK
<1>4. pending'[s] = None /\ \A t \in States \ {s} : pending'[t] = pending[t]
  BY DEF Inv, TypeOK, Take
<1>5. cb' = [cb EXCEPT ![c] = r] /\ starter' = starter /\ links' = links
  BY DEF Take
<1>11. TypeOK'
  <2>1. r \in [pc : {"taken"}, state : States, user : Users, bnet : Bnets \cup {None},
              row : Users \cup {None}, id : Callbacks \cup {None}, read : Bnets \cup {None}]
    BY <1>2 DEF Inv, TypeOK
  <2>2. pending' \in [States -> Users \cup {None}]
    BY DEF Inv, TypeOK, Take
  <2> HIDE DEF r
  <2> QED
    BY <1>5, <2>1, <2>2 DEF Inv, TypeOK
<1> HIDE DEF r
<1>6. InFlight' = InFlight \cup {c} /\ c \notin InFlight
  BY <1>1, <1>2, <1>3 DEF InFlight
<1>7. \A d \in InFlight : d # c /\ d \in Callbacks /\ cb[d].state # s
  BY <1>2, <1>6, NoneAssumption DEF Inv, StatesApart, Take, InFlight
<1>8. StatesApart'
  <2>1. \A t \in States : pending'[t] # None => pending'[t] = starter'[t]
    BY <1>4, <1>5 DEF Inv, StatesApart
  <2>2. \A d \in InFlight : /\ cb'[d].state \in States /\ cb'[d].user \in Users
                            /\ cb'[d].user = starter'[cb'[d].state] /\ pending'[cb'[d].state] = None
    BY <1>1, <1>4, <1>5, <1>7 DEF Inv, StatesApart
  <2>3. /\ cb'[c].state \in States /\ cb'[c].user \in Users
        /\ cb'[c].user = starter'[cb'[c].state] /\ pending'[cb'[c].state] = None
    BY <1>1, <1>2, <1>3, <1>4, <1>5
  <2> QED
    BY <1>6, <2>1, <2>2, <2>3 DEF StatesApart
<1>9. Exclusive'
  BY <1>1, <1>3, <1>6, <1>7 DEF Inv, Exclusive
<1>10. Targets' /\ WritesApart'
  BY <1>1, <1>3, <1>5 DEF Inv, Targets, WritesApart, Sends, Owners
<1> QED
  BY <1>5, <1>8, <1>9, <1>10, <1>11 DEF Inv, LinksAreUnique, GrantBelongsToStarter

\* A callback that goes on and does not write keeps the invariant.
LEMMA SearchKeeps ==
  ASSUME Inv, NEW c \in InFlight, NEW r, cb' = [cb EXCEPT ![c] = r],
         r \in [pc : {"named", "unowned", "found"}, state : States, user : Users,
                bnet : Bnets, row : Users \cup {None}, id : Callbacks \cup {None}, read : Bnets \cup {None}],
         r.state = cb[c].state, r.user = cb[c].user, r.pc = "found" => r.row = r.user /\ (r.id = None <=> r.read = None),
         UNCHANGED <<starter, pending, links>>
  PROVE  Inv'
<1>1. /\ cb'[c] = r /\ \A d \in Callbacks \ {c} : cb'[d] = cb[d]
      /\ InFlight' = InFlight /\ StatesApart' /\ Exclusive'
  BY GoOn
<1>2. TypeOK'
  BY DEF Inv, TypeOK
<1>3. Targets' /\ WritesApart'
  BY <1>1 DEF Inv, Targets, WritesApart, Sends, Owners
<1> QED
  BY <1>1, <1>2, <1>3 DEF Inv, LinksAreUnique, GrantBelongsToStarter

LEMMA ExchangeKeeps ==
  ASSUME Inv, NEW c \in Callbacks, Exchange(c)
  PROVE  Inv'
<1>1. CASE Fail(c)
  BY <1>1, EndKeeps DEF Exchange, Fail, Inv, TypeOK
<1>2. CASE \E b \in Bnets : cb' = [cb EXCEPT ![c].pc = "named", ![c].bnet = b]
  <2>1. PICK b \in Bnets : cb' = [cb EXCEPT ![c].pc = "named", ![c].bnet = b]
    BY <1>2
  <2> DEFINE r == [cb[c] EXCEPT !.pc = "named", !.bnet = b]
  <2>2. c \in InFlight
    BY DEF Exchange, InFlight
  <2>3. cb[c].state \in States /\ cb[c].user \in Users
    BY <2>2 DEF Inv, StatesApart
  <2>4. cb' = [cb EXCEPT ![c] = r]
    BY <2>1
  <2>5. r \in [pc : {"named", "unowned", "found"}, state : States, user : Users,
               bnet : Bnets, row : Users \cup {None}, id : Callbacks \cup {None}, read : Bnets \cup {None}]
        /\ r.state = cb[c].state /\ r.user = cb[c].user /\ r.pc = "named"
    BY <2>3 DEF Inv, TypeOK
  <2> HIDE DEF r
  <2> QED
    BY <2>2, <2>4, <2>5, SearchKeeps DEF Exchange
<1> QED
  BY <1>1, <1>2 DEF Exchange

\* A row has an account exactly if it is there.
RowRead(row) == /\ row.id \in Callbacks \cup {None} /\ row.bnet \in Bnets \cup {None}
                /\ (row.id = None <=> row.bnet = None)

LEMMA ReadRow ==
  ASSUME Inv, NEW u \in Users
  PROVE  RowRead(links[u])
<1>1. links[u] \in Rows \/ links[u] = NoRow
  BY DEF Inv, TypeOK
<1>2. CASE links[u] \in Rows
  BY <1>2, NoneAssumption DEF Rows, RowRead
<1>3. CASE links[u] = NoRow
  BY <1>3 DEF NoRow, RowRead
<1> QED
  BY <1>1, <1>2, <1>3

LEMMA FindOwnerKeeps ==
  ASSUME Inv, NEW c \in Callbacks, FindOwner(c)
  PROVE  Inv'
<1>1. c \in InFlight
  BY DEF FindOwner, InFlight
<1>2. cb[c].state \in States /\ cb[c].user \in Users /\ cb[c].bnet \in Bnets
  BY <1>1 DEF Inv, StatesApart, Targets, FindOwner
<1>3. CASE Fail(c)
  BY <1>3, EndKeeps DEF FindOwner, Fail, Inv, TypeOK
<1>4. CASE cb' = [cb EXCEPT ![c].pc = "unowned"]
  <2> DEFINE r == [cb[c] EXCEPT !.pc = "unowned"]
  <2>1. cb' = [cb EXCEPT ![c] = r]
    BY <1>4
  <2>2. r \in [pc : {"named", "unowned", "found"}, state : States, user : Users,
               bnet : Bnets, row : Users \cup {None}, id : Callbacks \cup {None}, read : Bnets \cup {None}]
        /\ r.state = cb[c].state /\ r.user = cb[c].user /\ r.pc = "unowned"
    BY <1>2 DEF Inv, TypeOK
  <2> HIDE DEF r
  <2> QED
    BY <1>1, <2>1, <2>2, SearchKeeps DEF FindOwner
<1>5. CASE Found(c, cb[c].user)
  <2> DEFINE r == [cb[c] EXCEPT !.pc = "found", !.row = cb[c].user, !.id = links[cb[c].user].id,
                                !.read = links[cb[c].user].bnet]
  <2>1. cb' = [cb EXCEPT ![c] = r]
    BY <1>5 DEF Found
  <2>2. RowRead(links[cb[c].user])
    BY <1>2, ReadRow
  <2>3. r \in [pc : {"named", "unowned", "found"}, state : States, user : Users,
               bnet : Bnets, row : Users \cup {None}, id : Callbacks \cup {None}, read : Bnets \cup {None}]
        /\ r.state = cb[c].state /\ r.user = cb[c].user /\ r.row = r.user
        /\ (r.id = None <=> r.read = None)
    BY <1>2, <2>2 DEF Inv, TypeOK, RowRead
  <2> HIDE DEF r
  <2> QED
    BY <1>1, <2>1, <2>3, SearchKeeps DEF FindOwner
<1> QED
  BY <1>3, <1>4, <1>5 DEF FindOwner

LEMMA FindMineKeeps ==
  ASSUME Inv, NEW c \in Callbacks, FindMine(c)
  PROVE  Inv'
<1>1. c \in InFlight
  BY DEF FindMine, InFlight
<1>2. cb[c].state \in States /\ cb[c].user \in Users /\ cb[c].bnet \in Bnets
  BY <1>1 DEF Inv, StatesApart, Targets, FindMine
<1> DEFINE r == [cb[c] EXCEPT !.pc = "found", !.row = cb[c].user, !.id = links[cb[c].user].id,
                              !.read = links[cb[c].user].bnet]
<1>3. cb' = [cb EXCEPT ![c] = r]
  BY DEF FindMine, Found
<1>4. RowRead(links[cb[c].user])
  BY <1>2, ReadRow
<1>5. r \in [pc : {"named", "unowned", "found"}, state : States, user : Users,
             bnet : Bnets, row : Users \cup {None}, id : Callbacks \cup {None}, read : Bnets \cup {None}]
      /\ r.state = cb[c].state /\ r.user = cb[c].user /\ r.row = r.user
      /\ (r.id = None <=> r.read = None)
  BY <1>2, <1>4 DEF Inv, TypeOK, RowRead
<1> HIDE DEF r
<1> QED
  BY <1>1, <1>3, <1>5, SearchKeeps DEF FindMine

LEMMA WriteKeeps ==
  ASSUME Inv, NEW c \in Callbacks, Write(c)
  PROVE  Inv'
<1>1. CASE Refused(c)
  BY <1>1, EndKeeps DEF Write, Fail, Inv, TypeOK
<1>2. CASE ~ Refused(c)
  <2> DEFINE r == [cb[c] EXCEPT !.pc = "written"]
  <2>1. c \in InFlight /\ cb' = [cb EXCEPT ![c] = r]
    BY <1>2 DEF Write, InFlight
  <2>2. /\ r.pc = "written" /\ r.state = cb[c].state /\ r.user = cb[c].user
        /\ r.bnet = cb[c].bnet /\ r.row = cb[c].row /\ r.id = cb[c].id /\ r.read = cb[c].read
    BY DEF Inv, TypeOK
  <2>3. TypeOK'
    BY <2>1 DEF Inv, TypeOK, Write
  <2> HIDE DEF r
  <2>4. /\ cb'[c] = r /\ \A d \in Callbacks \ {c} : cb'[d] = cb[d]
        /\ StatesApart' /\ Exclusive'
    BY <2>1, <2>2, GoOn DEF Write
  <2>5. links' = links /\ cb[c].pc = "found"
    BY DEF Write
  <2>6. Targets'
    BY <2>2, <2>4, <2>5 DEF Inv, Targets
  <2>7. /\ links[cb[c].row].id = cb[c].id
        /\ Sends(c) => Owners(cb[c].bnet) \ {cb[c].row} = {}
    BY <1>2 DEF Refused
  <2>8. \A d \in Callbacks \ {c} : cb[d].pc = "written" =>
          cb[d].row # cb[c].row /\ (Sends(c) /\ Sends(d) => cb[d].bnet # cb[c].bnet)
    BY DEF Write, Blockers
  <2>10. \A d \in Callbacks : /\ Sends(d)' = Sends(d) /\ cb'[d].row = cb[d].row
                              /\ cb'[d].bnet = cb[d].bnet /\ cb'[d].id = cb[d].id
                              /\ d # c => cb'[d].pc = cb[d].pc
    BY <2>2, <2>4 DEF Sends
  <2>11. \A b : Owners(b)' = Owners(b)
    BY <2>5 DEF Owners
  <2>12. \A d, e \in Callbacks : d # e /\ cb'[d].pc = "written" /\ cb'[e].pc = "written" =>
           cb[d].row # cb[e].row /\ (Sends(d) /\ Sends(e) => cb[d].bnet # cb[e].bnet)
    BY <2>8, <2>10 DEF Inv, WritesApart
  <2>13. \A d \in Callbacks : cb'[d].pc = "written" =>
           /\ links[cb[d].row].id = cb[d].id
           /\ Sends(d) => Owners(cb[d].bnet) \ {cb[d].row} = {}
    BY <2>7, <2>10 DEF Inv, WritesApart
  <2>9. WritesApart'
    BY <2>5, <2>10, <2>11, <2>12, <2>13 DEF WritesApart
  <2> QED
    BY <2>3, <2>4, <2>5, <2>6, <2>9 DEF Inv, LinksAreUnique, GrantBelongsToStarter
<1> QED
  BY <1>1, <1>2

\* The row a commit publishes.
LEMMA CommitRow ==
  ASSUME Inv, NEW c \in Callbacks, Commit(c)
  PROVE  /\ cb[c].row \in Users /\ cb[c].row = cb[c].user /\ cb[c].bnet \in Bnets
         /\ links' \in [Users -> Rows \cup {NoRow}]
         /\ Sends(c) => links'[cb[c].row].bnet = cb[c].bnet
         /\ ~Sends(c) => /\ links'[cb[c].row].bnet = links[cb[c].row].bnet
                         /\ links[cb[c].row].bnet # None
         /\ links'[cb[c].row].by = cb[c].user /\ links'[cb[c].row].grant = cb[c].bnet
         /\ \A u \in Users \ {cb[c].row} : links'[u] = links[u]
<1> DEFINE id == IF cb[c].id = None THEN c ELSE cb[c].id
           bnet == IF Sends(c) THEN cb[c].bnet ELSE links[cb[c].row].bnet
<1>1. c \in InFlight /\ cb[c].pc = "written"
  BY DEF Commit, InFlight
<1>2. /\ cb[c].row \in Users /\ cb[c].row = cb[c].user /\ cb[c].bnet \in Bnets
      /\ (cb[c].id = None <=> cb[c].read = None) /\ links[cb[c].row].id = cb[c].id
  BY <1>1 DEF Inv, Targets, StatesApart, WritesApart
<1>3. id \in Callbacks
  BY DEF Inv, TypeOK
<1>4. ~Sends(c) => links[cb[c].row].bnet \in Bnets
  BY <1>2, ReadRow, NoneAssumption DEF Sends, RowRead
<1>5. bnet \in Bnets /\ (~Sends(c) => links[cb[c].row].bnet # None)
  BY <1>2, <1>4, NoneAssumption
<1>6. links' = [links EXCEPT ![cb[c].row] = [id |-> id, bnet |-> bnet, grant |-> cb[c].bnet, by |-> cb[c].user]]
  BY DEF Commit
<1> HIDE DEF id
<1>7. [id |-> id, bnet |-> bnet, grant |-> cb[c].bnet, by |-> cb[c].user] \in Rows
  <2> HIDE DEF bnet
  <2> QED
    BY <1>2, <1>3, <1>5 DEF Rows
<1>8. /\ links' \in [Users -> Rows \cup {NoRow}]
      /\ links'[cb[c].row] = [id |-> id, bnet |-> bnet, grant |-> cb[c].bnet, by |-> cb[c].user]
      /\ \A u \in Users \ {cb[c].row} : links'[u] = links[u]
  <2> HIDE DEF bnet
  <2> QED
    BY <1>2, <1>6, <1>7 DEF Inv, TypeOK
<1> QED
  BY <1>2, <1>5, <1>8

LEMMA CommitKeeps ==
  ASSUME Inv, NEW c \in Callbacks, Commit(c)
  PROVE  Inv'
<1>1. cb'[c] = [Idle EXCEPT !.pc = "linked"] /\ \A d \in Callbacks \ {c} : cb'[d] = cb[d]
  BY DEF Inv, TypeOK, Commit, End
<1>2. starter' = starter /\ pending' = pending /\ cb[c].pc = "written"
  BY DEF Commit
<1>3. InFlight' = InFlight \ {c}
  BY <1>1 DEF InFlight, Idle
<1>4. TypeOK'
  BY <1>2, CommitRow DEF Inv, TypeOK, Commit, End, Idle
<1>5. StatesApart' /\ Exclusive' /\ Targets'
  BY <1>1, <1>2, <1>3 DEF Inv, StatesApart, Exclusive, Targets, Idle, InFlight
<1>6. Sends(c) => \A u \in Users \ {cb[c].row} : links[u].bnet # cb[c].bnet
  BY <1>2 DEF Inv, WritesApart, Owners
<1>7. LinksAreUnique'
  <2> SUFFICES ASSUME NEW u \in Users, NEW v \in Users, u # v, links'[u] # NoRow
               PROVE  links'[u].bnet # links'[v].bnet
    BY DEF LinksAreUnique
  <2>0. links'[u].bnet # None
    BY CommitRow, NoneAssumption DEF Rows
  <2>1. CASE Sends(c)
    BY <2>0, <2>1, <1>6, CommitRow DEF Inv, LinksAreUnique
  <2>2. CASE ~Sends(c)
    <3>1. links'[u].bnet = links[u].bnet /\ links'[v].bnet = links[v].bnet
      BY <2>2, CommitRow
    <3>2. links[u] # NoRow
      BY <2>0, <3>1 DEF NoRow
    <3> QED
      BY <3>1, <3>2 DEF Inv, LinksAreUnique
  <2> QED
    BY <2>1, <2>2
<1>8. GrantBelongsToStarter'
  BY CommitRow DEF Inv, GrantBelongsToStarter
<1>9. WritesApart'
  <2> SUFFICES ASSUME NEW d \in Callbacks, cb'[d].pc = "written"
               PROVE  /\ links'[cb'[d].row].id = cb'[d].id
                      /\ Sends(d)' => (Owners(cb[d].bnet))' \ {cb'[d].row} = {}
                      /\ \A e \in Callbacks \ {d} : cb'[e].pc = "written" =>
                           /\ cb'[e].row # cb'[d].row
                           /\ Sends(d)' /\ Sends(e)' => cb'[e].bnet # cb'[d].bnet
    BY DEF WritesApart
  <2>1. d # c /\ cb'[d] = cb[d] /\ Sends(d)' = Sends(d)
    BY <1>1 DEF Idle, Sends
  <2>2. /\ links[cb[d].row].id = cb[d].id /\ cb[d].row # cb[c].row /\ cb[d].row \in Users
        /\ Sends(d) => Owners(cb[d].bnet) \ {cb[d].row} = {}
        /\ Sends(c) /\ Sends(d) => cb[d].bnet # cb[c].bnet
    BY <1>2, <2>1 DEF Inv, WritesApart, Targets, StatesApart, InFlight
  <2>3. \A e \in Callbacks \ {d} : cb'[e].pc = "written" => e # c /\ cb'[e] = cb[e] /\ Sends(e)' = Sends(e)
    BY <1>1 DEF Idle, Sends
  <2>4. Sends(d) => \A u \in Users : links'[u].bnet = cb[d].bnet => links[u].bnet = cb[d].bnet
    BY <2>2, CommitRow
  <2>5. Sends(d)' => (Owners(cb[d].bnet))' \ {cb'[d].row} = {}
    BY <2>1, <2>2, <2>4 DEF Owners
  <2>6. links'[cb'[d].row].id = cb'[d].id
    BY <2>1, <2>2, CommitRow
  <2> QED
    BY <2>1, <2>3, <2>5, <2>6 DEF Inv, WritesApart
<1> QED
  BY <1>4, <1>5, <1>7, <1>8, <1>9 DEF Inv

LEMMA DisconnectKeeps ==
  ASSUME Inv, NEW u \in Users, Disconnect(u)
  PROVE  Inv'
<1>1. links' \in [Users -> Rows \cup {NoRow}] /\ links'[u] = NoRow
      /\ \A v \in Users \ {u} : links'[v] = links[v]
  BY DEF Inv, TypeOK, Disconnect
<1>2. UNCHANGED <<starter, pending, cb>>
  BY DEF Disconnect
<1>3. TypeOK' /\ StatesApart' /\ Exclusive' /\ Targets'
  BY <1>1, <1>2 DEF Inv, TypeOK, StatesApart, Exclusive, Targets, InFlight
<1>4. \A c \in Callbacks : cb[c].pc = "written" => cb[c].bnet \in Bnets
  BY DEF Inv, Targets
<1>8. \A c \in Callbacks : cb[c].pc = "written" => cb[c].row # u /\ cb[c].row \in Users
  BY DEF Disconnect, Inv, Targets, StatesApart, InFlight
<1>9. \A c \in Callbacks, v \in Users :
        cb[c].pc = "written" /\ links'[v].bnet = cb[c].bnet => links[v].bnet = cb[c].bnet
  BY <1>1, <1>4, NoneAssumption DEF NoRow
<1>5. WritesApart'
  BY <1>1, <1>2, <1>8, <1>9 DEF Inv, WritesApart, Sends, Owners
<1>6. \A v \in Users : links[v] # NoRow => links[v].bnet # None
  BY NoneAssumption DEF Inv, TypeOK, Rows
<1>7. LinksAreUnique'
  BY <1>1, <1>6 DEF Inv, LinksAreUnique, NoRow
<1> QED
  BY <1>1, <1>3, <1>5, <1>7 DEF Inv, GrantBelongsToStarter

LEMMA NextInv == Inv /\ [Next]_vars => Inv'
<1> SUFFICES ASSUME Inv, [Next]_vars PROVE Inv'
  OBVIOUS
<1>1. CASE UNCHANGED vars
  BY <1>1
  DEF vars, Inv, TypeOK, StatesApart, Exclusive, Targets, WritesApart, LinksAreUnique,
      GrantBelongsToStarter, InFlight, Sends, Owners
<1>2. ASSUME NEW s \in States, Expire(s) PROVE Inv'
  <2>1. TypeOK' /\ StatesApart'
    BY <1>2 DEF Inv, TypeOK, StatesApart, InFlight, Expire
  <2> QED
    BY <1>2, <2>1
    DEF Expire, Inv, Exclusive, Targets, WritesApart, LinksAreUnique, GrantBelongsToStarter,
        InFlight, Sends, Owners
<1>3. ASSUME NEW c \in Callbacks, NEW s \in States, TakeFails(c, s) PROVE Inv'
  BY <1>3, EndKeeps DEF TakeFails, Fail, Inv, TypeOK
<1>4. ASSUME NEW c \in Callbacks, Crash(c) PROVE Inv'
  BY <1>4, EndKeeps DEF Crash, Fail, Inv, TypeOK
<1> QED
  BY <1>1, <1>2, <1>3, <1>4, BeginKeeps, TakeKeeps, ExchangeKeeps, FindOwnerKeeps, FindMineKeeps,
     WriteKeeps, CommitKeeps, DisconnectKeeps
  DEF Next, Serve

\* The inductive invariant.
LEMMA Invariance == Spec => []Inv
  BY InitInv, NextInv, PTL DEF Spec

\* Type correctness of OAuthLink.
THEOREM TypeCorrect == Spec => []TypeOK
<1>1. Inv => TypeOK
  BY DEF Inv
<1> QED
  BY <1>1, Invariance, PTL

\* No Battle.net account is ever linked to two users.
THEOREM Unique == Spec => []LinksAreUnique
<1>1. Inv => LinksAreUnique
  BY DEF Inv
<1> QED
  BY <1>1, Invariance, PTL

\* The grant on a row was always obtained through a state its user began.
THEOREM OwnGrants == Spec => []GrantBelongsToStarter
<1>1. Inv => GrantBelongsToStarter
  BY DEF Inv
<1> QED
  BY <1>1, Invariance, PTL

-------------------------------------------------------------------------------
(* OAuthLink implements LinkRegistry. *)

\* What a reader of the registry sees of a consent link.
OpenFor(s) == IF starter[s] = None THEN "unused"
              ELSE IF pending[s] # None \/ s \in Held THEN starter[s]
              ELSE "spent"

\* A callback in flight holds its state open for its user.
LEMMA HeldOpen ==
  ASSUME Inv, NEW c \in InFlight
  PROVE  /\ cb[c].state \in States /\ cb[c].state \in Held
         /\ OpenFor(cb[c].state) = cb[c].user /\ cb[c].user \in Users
  BY NoneAssumption DEF Inv, StatesApart, Held, OpenFor

\* A callback that goes on changes nothing of the registry.
LEMMA SameHeld ==
  ASSUME Inv, Inv', NEW c \in Callbacks, c \in InFlight, c \in InFlight',
         \A d \in Callbacks \ {c} : cb'[d] = cb[d], cb'[c].state = cb[c].state
  PROVE  Held' = Held
<1>1. InFlight' = InFlight
  BY DEF InFlight
<1> QED
  BY <1>1 DEF Held, InFlight

\* A callback that ends gives its state up, and nothing else is given up.
LEMMA EndedHeld ==
  ASSUME Inv, NEW c \in InFlight, NEW outcome \in {"linked", "failed"}, End(c, outcome)
  PROVE  Held' = Held \ {cb[c].state}
<1>1. c \in Callbacks /\ cb'[c] = [Idle EXCEPT !.pc = outcome] /\ \A d \in Callbacks \ {c} : cb'[d] = cb[d]
  BY DEF Inv, TypeOK, End, InFlight
<1>2. InFlight' = InFlight \ {c}
  BY <1>1 DEF InFlight, Idle
<1>3. \A d \in InFlight \ {c} : cb[d].state # cb[c].state /\ cb'[d] = cb[d]
  BY <1>1 DEF Inv, Exclusive, InFlight
<1> QED
  BY <1>2, <1>3 DEF Held

\* The step of the registry when a state is given up.
LEMMA GivingUp ==
  ASSUME NEW s \in States, OpenFor(s) \in Users, (OpenFor(s))' = "spent",
         \A t \in States \ {s} : (OpenFor(t))' = OpenFor(t), links' = links
  PROVE  Registry!Next
<1>1. Registry!GiveUp(s)
  BY DEF Registry!GiveUp, OpenFor
<1> QED
  BY <1>1 DEF Registry!Next

\* And when nothing is.
LEMMA Stuttering ==
  ASSUME \A t \in States : (OpenFor(t))' = OpenFor(t), links' = links
  PROVE  UNCHANGED Registry!vars
  BY DEF Registry!vars, OpenFor

LEMMA FailRefines ==
  ASSUME Inv, NEW c \in InFlight, Fail(c), UNCHANGED <<starter, pending, links>>
  PROVE  Registry!Next
<1>1. PICK s \in States : s = cb[c].state
  BY HeldOpen
<1>2. Held' = Held \ {s}
  BY <1>1, EndedHeld DEF Fail
<1>3. pending[s] = None /\ starter[s] # None
  BY <1>1, NoneAssumption DEF Inv, StatesApart
<1>4. (OpenFor(s))' = "spent"
  BY <1>2, <1>3 DEF OpenFor
<1>5. \A t \in States \ {s} : (OpenFor(t))' = OpenFor(t)
  BY <1>2 DEF OpenFor
<1>6. OpenFor(s) \in Users
  BY <1>1, HeldOpen
<1> QED
  BY <1>4, <1>5, <1>6, GivingUp

LEMMA GoOnRefines ==
  ASSUME Inv, Inv', NEW c \in Callbacks, c \in InFlight, c \in InFlight',
         \A d \in Callbacks \ {c} : cb'[d] = cb[d], cb'[c].state = cb[c].state,
         UNCHANGED <<starter, pending, links>>
  PROVE  UNCHANGED Registry!vars
<1>1. Held' = Held
  BY SameHeld
<1> QED
  BY <1>1, Stuttering DEF OpenFor

LEMMA BeginRefines ==
  ASSUME Inv, NEW u \in Users, NEW s \in States, Begin(u, s)
  PROVE  Registry!Next
<1>1. Held' = Held /\ links' = links
  BY DEF Begin, Held, InFlight
<1>2. OpenFor(s) = "unused" /\ (OpenFor(s))' = u
  BY NoneAssumption DEF Begin, OpenFor, Inv, TypeOK
<1>3. \A t \in States \ {s} : (OpenFor(t))' = OpenFor(t)
  BY <1>1 DEF Begin, OpenFor, Inv, TypeOK
<1>4. Registry!Begin(u, s)
  BY <1>1, <1>2, <1>3 DEF Registry!Begin, OpenFor
<1> QED
  BY <1>4 DEF Registry!Next

LEMMA DropRefines ==
  ASSUME Inv, NEW s \in States, starter' = starter, links' = links, Held' = Held,
         pending' = [pending EXCEPT ![s] = None]
  PROVE  Registry!Next \/ UNCHANGED Registry!vars
<1>1. pending'[s] = None /\ \A t \in States \ {s} : pending'[t] = pending[t]
  BY DEF Inv, TypeOK
<1>2. \A t \in States \ {s} : (OpenFor(t))' = OpenFor(t)
  BY <1>1 DEF OpenFor
<1>3. CASE pending[s] = None
  <2>1. (OpenFor(s))' = OpenFor(s)
    BY <1>1, <1>3 DEF OpenFor
  <2> QED
    BY <1>2, <2>1, Stuttering
<1>4. CASE pending[s] # None
  <2>1. pending[s] \in Users /\ pending[s] = starter[s] /\ starter[s] # None
    BY <1>4, NoneAssumption DEF Inv, TypeOK, StatesApart
  <2>2. s \notin Held
    BY <1>4 DEF Inv, StatesApart, Held
  <2>3. OpenFor(s) \in Users /\ (OpenFor(s))' = "spent"
    BY <1>1, <1>4, <2>1, <2>2 DEF OpenFor
  <2> QED
    BY <1>2, <2>3, GivingUp
<1> QED
  BY <1>3, <1>4

LEMMA TakeRefines ==
  ASSUME Inv, NEW c \in Callbacks, NEW s \in States, Take(c, s)
  PROVE  UNCHANGED Registry!vars
<1>1. cb'[c].state = s /\ cb'[c].pc = "taken" /\ \A d \in Callbacks \ {c} : cb'[d] = cb[d]
  BY DEF Inv, TypeOK, Take
<1>2. InFlight' = InFlight \cup {c} /\ c \notin InFlight
  BY <1>1 DEF InFlight, Take
<1>3. Held' = Held \cup {s}
  BY <1>1, <1>2 DEF Held, InFlight
<1>4. pending'[s] = None /\ (\A t \in States \ {s} : pending'[t] = pending[t]) /\ starter' = starter
  BY DEF Inv, TypeOK, Take
<1>5. pending[s] # None /\ links' = links
  BY DEF Take
<1>6. \A t \in States : (OpenFor(t))' = OpenFor(t)
  BY <1>3, <1>4, <1>5 DEF OpenFor
<1> QED
  BY <1>5, <1>6, Stuttering

LEMMA CommitRefines ==
  ASSUME Inv, NEW c \in Callbacks, Commit(c)
  PROVE  Registry!Next
<1>1. c \in InFlight
  BY DEF Commit, InFlight
<1>2. PICK s \in States : s = cb[c].state
  BY <1>1, HeldOpen
<1>3. PICK u \in Users : u = cb[c].user
  BY <1>1, HeldOpen
<1>4. OpenFor(s) = u /\ cb[c].row = u
  BY <1>1, <1>2, <1>3, HeldOpen, CommitRow
<1>5. Held' = Held \ {s} /\ starter' = starter /\ pending' = pending
  BY <1>1, <1>2, EndedHeld DEF Commit
<1>6. pending[s] = None /\ starter[s] # None
  BY <1>1, <1>2, NoneAssumption DEF Inv, StatesApart
<1>7. (OpenFor(s))' = "spent" /\ \A t \in States \ {s} : (OpenFor(t))' = OpenFor(t)
  BY <1>5, <1>6 DEF OpenFor
<1>8. PICK b \in Bnets : b = cb[c].bnet
  BY CommitRow
<1>9. Sends(c) => Owners(b) \ {u} = {}
  BY <1>4, <1>8 DEF Inv, WritesApart, Commit
<1>11. \A v \in Users : links'[v].grant = IF v = u THEN b ELSE links[v].grant
  BY <1>4, <1>8, CommitRow
<1>12. [v \in Users |-> links'[v].grant] = [[v \in Users |-> links[v].grant] EXCEPT ![u] = b]
  BY <1>11
<1>13. Registry!Use(s, b)
  BY <1>4, <1>7, <1>12 DEF Registry!Use, OpenFor
<1>14. CASE Sends(c)
  <2>1. \A v \in Users : links'[v].bnet = IF v = u THEN b ELSE links[v].bnet
    BY <1>4, <1>8, <1>14, CommitRow
  <2>2. [v \in Users |-> links'[v].bnet] = [[v \in Users |-> links[v].bnet] EXCEPT ![u] = b]
    BY <2>1
  <2>3. \A v \in Users \ {u} : links[v].bnet # b
    BY <1>9, <1>14 DEF Owners
  <2>4. Registry!Link(s, b)
    BY <1>4, <1>13, <2>2, <2>3 DEF Registry!Link, OpenFor
  <2> QED
    BY <2>4, <1>8 DEF Registry!Next
<1>15. CASE ~Sends(c)
  <2>1. \A v \in Users : links'[v].bnet = links[v].bnet
    BY <1>4, <1>15, CommitRow
  <2>2. links[u].bnet # None
    BY <1>4, <1>15, CommitRow
  <2>3. Registry!Renew(s, b)
    BY <1>4, <1>13, <2>1, <2>2 DEF Registry!Renew, OpenFor
  <2> QED
    BY <2>3, <1>8 DEF Registry!Next
<1> QED
  BY <1>14, <1>15

LEMMA DisconnectRefines ==
  ASSUME Inv, NEW u \in Users, Disconnect(u)
  PROVE  Registry!Next
<1>1. links[u].bnet # None /\ links'[u] = NoRow /\ \A v \in Users \ {u} : links'[v] = links[v]
  BY NoneAssumption DEF Disconnect, Inv, TypeOK, Rows
<1>2. UNCHANGED <<starter, pending, cb>> /\ Held' = Held
  BY DEF Disconnect, Held, InFlight
<1>3. \A t \in States : (OpenFor(t))' = OpenFor(t)
  BY <1>2 DEF OpenFor
<1>4. NoRow.bnet = None /\ NoRow.grant = None
  BY DEF NoRow
<1>5. \A v \in Users : /\ links'[v].bnet = IF v = u THEN None ELSE links[v].bnet
                       /\ links'[v].grant = IF v = u THEN None ELSE links[v].grant
  BY <1>1, <1>4
<1>6. /\ [v \in Users |-> links'[v].bnet] = [[v \in Users |-> links[v].bnet] EXCEPT ![u] = None]
      /\ [v \in Users |-> links'[v].grant] = [[v \in Users |-> links[v].grant] EXCEPT ![u] = None]
  BY <1>5
<1>7. Registry!Unlink(u)
  BY <1>1, <1>3, <1>6 DEF Registry!Unlink, OpenFor
<1> QED
  BY <1>7 DEF Registry!Next

LEMMA ServeRefines ==
  ASSUME Inv, Inv', NEW c \in Callbacks, Serve(c)
  PROVE  Registry!Next \/ UNCHANGED Registry!vars
<1>1. c \in InFlight
  BY DEF Serve, Exchange, FindOwner, FindMine, Write, Commit, InFlight
<1>2. ASSUME ~ Commit(c), Fail(c) PROVE Registry!Next
  <2>1. UNCHANGED <<starter, pending, links>>
    BY <1>2 DEF Serve, Exchange, FindOwner, FindMine, Write
  <2> QED
    BY <1>1, <1>2, <2>1, FailRefines
<1>3. ASSUME ~ Commit(c), ~ Fail(c) PROVE UNCHANGED Registry!vars
  <2>1. UNCHANGED <<starter, pending, links>>
    BY <1>3 DEF Serve, Exchange, FindOwner, FindMine, Write
  <2>2. /\ cb'[c].pc \in {"named", "unowned", "found", "written"} /\ cb'[c].state = cb[c].state
        /\ \A d \in Callbacks \ {c} : cb'[d] = cb[d]
    <3>1. CASE Exchange(c)
      BY <1>3, <3>1 DEF Exchange, Inv, TypeOK
    <3>2. CASE FindOwner(c)
      BY <1>3, <3>2 DEF FindOwner, Found, Inv, TypeOK
    <3>3. CASE FindMine(c)
      BY <3>3 DEF FindMine, Found, Inv, TypeOK
    <3>4. CASE Write(c)
      BY <1>3, <3>4 DEF Write, Inv, TypeOK
    <3> QED
      BY <1>3, <3>1, <3>2, <3>3, <3>4 DEF Serve
  <2>3. c \in InFlight'
    BY <2>2 DEF InFlight
  <2> QED
    BY <1>1, <2>1, <2>2, <2>3, GoOnRefines
<1> QED
  BY <1>2, <1>3, CommitRefines

LEMMA NextRefines == Inv /\ Inv' /\ [Next]_vars => [Registry!Next]_(Registry!vars)
<1> SUFFICES ASSUME Inv, Inv', [Next]_vars
             PROVE  Registry!Next \/ UNCHANGED Registry!vars
  OBVIOUS
<1>1. CASE UNCHANGED vars
  BY <1>1, Stuttering DEF vars, OpenFor, Held, InFlight
<1>2. ASSUME NEW s \in States, Expire(s) PROVE Registry!Next \/ UNCHANGED Registry!vars
  <2>1. Held' = Held
    BY <1>2 DEF Expire, Held, InFlight
  <2> QED
    BY <1>2, <2>1, DropRefines DEF Expire
<1>3. ASSUME NEW c \in Callbacks, NEW s \in States, TakeFails(c, s)
      PROVE  Registry!Next \/ UNCHANGED Registry!vars
  <2>1. cb'[c] = [Idle EXCEPT !.pc = "failed"] /\ \A d \in Callbacks \ {c} : cb'[d] = cb[d]
    BY <1>3 DEF TakeFails, Fail, End, Inv, TypeOK
  <2>2. InFlight' = InFlight /\ c \notin InFlight
    BY <1>3, <2>1 DEF TakeFails, InFlight, Idle
  <2>3. Held' = Held
    BY <2>1, <2>2 DEF Held, InFlight
  <2> QED
    BY <1>3, <2>3, DropRefines DEF TakeFails
<1>4. ASSUME NEW c \in Callbacks, Crash(c) PROVE Registry!Next
  BY <1>4, FailRefines DEF Crash, InFlight
<1> QED
  BY <1>1, <1>2, <1>3, <1>4, BeginRefines, TakeRefines, ServeRefines, DisconnectRefines DEF Next

\* Every step of account linking is a step of the registry or none: a
\* consent link is used once at most, for the user who opened it, and links
\* an account or only renews the grant of the user's link.
THEOREM LinkingIsOnce == Spec => ImplementsRegistry
<1>1. Init => Registry!Init
  BY DEF Init, Registry!Init, NoRow
<1> QED
  BY <1>1, Invariance, NextRefines, PTL DEF Spec, ImplementsRegistry, Registry!Spec
===============================================================================
