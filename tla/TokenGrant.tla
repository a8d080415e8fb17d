------------------------------- MODULE TokenGrant ------------------------------
(***************************************************************************)
(* The grant of one Battle.net link, from the OAuth callback that stores   *)
(* it to the disconnect that deletes it (services/blizzard_tokens.py, the  *)
(* link service and the token endpoint client), under concurrent requests  *)
(* that each run in one transaction.  Grants are numbered as Battle.net    *)
(* issues them: n is both the n-th access token and the refresh token that *)
(* is new in the same reply; 0 stands for NULL.  A reply may bring no      *)
(* refresh token, and then store_grant leaves the older one beside the new *)
(* access token.                                                           *)
(***************************************************************************)
EXTENDS Naturals, FiniteSets

CONSTANTS Workers,     \* requests and scheduler sessions
          MaxGrants,   \* bound on the tokens Battle.net issues
          MaxFaults,   \* bound on outages, failures, crashes and key changes
          NoRow, Nothing, NoOne

ASSUME GrantAssumption ==
  /\ MaxGrants \in Nat
  /\ MaxFaults \in Nat
  /\ NoOne \notin Workers

Grants == 0 .. MaxGrants

\* lost: the tokens sealed under an encryption key that is gone.
Row == [access : Grants, refresh : Grants, active : BOOLEAN, lost : SUBSET {"access", "refresh"}]

ASSUME MarkerAssumption == {NoRow, Nothing} \cap Row = {} /\ NoRow # Nothing

VARIABLES
  honoured,  \* Battle.net: the refresh tokens it accepts
  issued,    \* Battle.net: how many tokens it has issued
  reply,     \* Battle.net: the refresh token each access token came with
  live,      \* the access tokens that are not within 60 s of their expiry
  row,       \* the committed blizzard_accounts row
  owner,     \* the transaction that holds the row's lock
  pc,        \* step of each worker
  seen,      \* the row as the worker loaded it
  got,       \* the access token the worker received
  put,       \* the worker's uncommitted row; NoRow deletes it
  faults

upstream == <<honoured, issued, reply>>
database == <<row, owner>>
vars     == <<upstream, live, database, pc, seen, got, put, faults>>

Init ==
  /\ honoured = {}
  /\ issued = 0
  /\ reply = [n \in 1 .. MaxGrants |-> 0]
  /\ live = {}
  /\ row = NoRow
  /\ owner = NoOne
  /\ pc = [w \in Workers |-> "idle"]
  /\ seen = [w \in Workers |-> NoRow]
  /\ got = [w \in Workers |-> 0]
  /\ put = [w \in Workers |-> Nothing]
  /\ faults = 0

GoTo(w, step) == pc' = [pc EXCEPT ![w] = step]
Fault == faults < MaxFaults /\ faults' = faults + 1

\* A step that only moves the worker on.
Move(w, from, to) ==
  /\ pc[w] = from
  /\ GoTo(w, to)
  /\ UNCHANGED <<upstream, live, database, seen, got, put>>

-------------------------------------------------------------------------------
(* get_access_token and _refresh. *)

\* get_account; without a row the request ends with 404.
Load(w, step) ==
  /\ pc[w] = "idle"
  /\ seen' = [seen EXCEPT ![w] = row]
  /\ GoTo(w, IF row = NoRow THEN "failing" ELSE step)
  /\ UNCHANGED <<upstream, live, database, got, put, faults>>

BeginUse(w) == Load(w, "token")

Cached(w) ==
  /\ seen[w].access \in live
  /\ "access" \notin seen[w].lost

CanRefresh(w) == seen[w].refresh # 0 /\ "refresh" \notin seen[w].lost

\* An inactive link is an error, a cached access token is used, and otherwise
\* the refresh token, if there is one and it can be decrypted.
GetAccessToken(w) ==
  /\ pc[w] = "token"
  /\ GoTo(w, IF ~ seen[w].active THEN "failing"
             ELSE IF Cached(w) THEN "use"
             ELSE IF CanRefresh(w) THEN "request"
             ELSE "deactivate")
  /\ UNCHANGED <<upstream, live, database, seen, got, put, faults>>

\* Battle.net issues a token, with the refresh token r, and goes on accepting
\* the refresh tokens in keep.
Issue(r, keep) ==
  /\ issued < MaxGrants
  /\ issued' = issued + 1
  /\ reply' = [reply EXCEPT ![issued + 1] = r]
  /\ honoured' = keep \cup ({r} \ {0})
  /\ live' = live \cup {issued + 1}

\* The refresh grant: the refresh token is rotated, the old one accepted or not
\* from then on, or it stays and the reply leaves it out.
IssueRefreshed(w) ==
  /\ pc[w] = "request"
  /\ seen[w].refresh \in honoured
  /\ \/ \E keep \in {honoured, honoured \ {seen[w].refresh}} : Issue(issued + 1, keep)
     \/ Issue(seen[w].refresh, honoured)
  /\ UNCHANGED <<database, seen, put>>

Refresh(w) ==
  /\ IssueRefreshed(w)
  /\ got' = [got EXCEPT ![w] = issued + 1]
  /\ GoTo(w, "store")
  /\ UNCHANGED faults

\* Battle.net answers and the answer is lost, or it does not answer: both are
\* an ExternalServiceError, like a refusal.
RefreshLost(w) == IssueRefreshed(w) /\ GoTo(w, "deactivate") /\ UNCHANGED got /\ Fault
RefreshUnavailable(w) == Move(w, "request", "deactivate") /\ Fault

\* The bound MaxGrants: Battle.net is not available any more.
RefreshEnds(w) == issued = MaxGrants /\ Move(w, "request", "deactivate") /\ UNCHANGED faults

\* Mutant: a refusal is tried again.
RefreshRetried(w) ==
  /\ Move(w, "request", "token")
  /\ seen[w].refresh \notin honoured
  /\ UNCHANGED faults

RefreshRefused(w) ==
  /\ Move(w, "request", "deactivate")
  /\ seen[w].refresh \notin honoured
  /\ UNCHANGED faults

-------------------------------------------------------------------------------
(* Writes: a flush that takes the row's lock, or waits for it. *)

Writes(w, value) ==
  /\ owner' = w
  /\ put' = [put EXCEPT ![w] = value]

\* An UPDATE or DELETE of a row that is gone raises StaleDataError.
Flush(w, from, value, to) ==
  /\ pc[w] = from
  /\ owner = NoOne
  /\ IF row = NoRow
     THEN UNCHANGED <<owner, put>> /\ GoTo(w, "failing")
     ELSE Writes(w, value) /\ GoTo(w, to)
  /\ UNCHANGED <<upstream, live, row, seen, got, faults>>

\* Mutant: a refresh token that is stored is kept.
StoredKeepsFirst(w, base) ==
  LET r == reply[got[w]]
  IN  [base EXCEPT !.access = got[w],
                   !.refresh = IF @ = 0 THEN r ELSE @,
                   !.lost = {}]

\* store_grant: only the columns that changed are written, so that the others
\* keep what another transaction committed meanwhile.
Stored(w, base) ==
  LET r == reply[got[w]]
  IN  [base EXCEPT !.access = got[w],
                   !.refresh = IF r = 0 THEN @ ELSE r,
                   !.lost = @ \ ({"access"} \cup (IF r = 0 THEN {} ELSE {"refresh"}))]

\* Mutant: the row is inserted again when it is gone.
StoreInserts(w) ==
  /\ pc[w] = "store"
  /\ owner = NoOne
  /\ Writes(w, Stored(w, IF row = NoRow THEN seen[w] ELSE row))
  /\ GoTo(w, "use")
  /\ UNCHANGED <<upstream, live, row, seen, got, faults>>

StoreGrant(w) == Flush(w, "store", Stored(w, row), "use")

\* _deactivate, whatever the reason; the AuthenticationError follows.
Deactivate(w) == Flush(w, "deactivate", [row EXCEPT !.active = FALSE, !.access = 0], "failing")

\* The rest of the request.
Use(w) == honoured # {} /\ Move(w, "use", "commit") /\ UNCHANGED faults
UseRefused(w) == honoured = {} /\ Move(w, "use", "failing") /\ UNCHANGED faults
UseFails(w) == Move(w, "use", "failing") /\ Fault

\* disconnect: revoke and delete.
BeginDisconnect(w) == Load(w, "delete")
Disconnect(w) == Flush(w, "delete", NoRow, "commit")

-------------------------------------------------------------------------------
(* complete: the callback of a user who has just consented. *)

\* exchange_code: a new authorization, with or without a refresh token, beside
\* the ones that Battle.net already honours.
ExchangeCode(w) ==
  /\ pc[w] = "idle"
  /\ \E r \in {0, issued + 1} : Issue(r, honoured)
  /\ got' = [got EXCEPT ![w] = issued + 1]
  /\ GoTo(w, "link")
  /\ UNCHANGED <<database, seen, put, faults>>

LinkFails(w) == Move(w, "link", "failing") /\ Fault

\* get_by_battlenet_id: create or update.
FindLink(w) ==
  /\ pc[w] = "link"
  /\ seen' = [seen EXCEPT ![w] = row]
  /\ GoTo(w, IF row = NoRow THEN "create" ELSE "relink")
  /\ UNCHANGED <<upstream, live, database, got, put, faults>>

Created == [access |-> 0, refresh |-> 0, active |-> TRUE, lost |-> {}]

\* The insert waits for one that is not committed, and collides with one that is.
CreateLink(w) ==
  /\ pc[w] = "create"
  /\ owner = NoOne
  /\ IF row = NoRow
     THEN Writes(w, Stored(w, Created)) /\ GoTo(w, "commit")
     ELSE UNCHANGED <<owner, put>> /\ GoTo(w, "failing")
  /\ UNCHANGED <<upstream, live, row, seen, got, faults>>

UpdateLink(w) == Flush(w, "relink", Stored(w, [row EXCEPT !.active = TRUE]), "commit")

-------------------------------------------------------------------------------
(* The end of a transaction. *)

Close(w) ==
  /\ owner' = IF owner = w THEN NoOne ELSE owner
  /\ GoTo(w, "idle")
  /\ seen' = [seen EXCEPT ![w] = NoRow]
  /\ got' = [got EXCEPT ![w] = 0]
  /\ put' = [put EXCEPT ![w] = Nothing]
  /\ UNCHANGED <<upstream, live>>

Publish(w) == row' = IF put[w] = Nothing THEN row ELSE put[w]

Commit(w) == pc[w] = "commit" /\ Publish(w) /\ Close(w) /\ UNCHANGED faults
Rollback(w) == pc[w] = "failing" /\ UNCHANGED row /\ Close(w) /\ UNCHANGED faults
Crash(w) == pc[w] # "idle" /\ UNCHANGED row /\ Close(w) /\ Fault

-------------------------------------------------------------------------------
(* Around the service. *)

\* The user withdraws the consent at Battle.net.
Revoke ==
  /\ honoured # {}
  /\ honoured' = {}
  /\ UNCHANGED <<issued, reply, live, database, pc, seen, got, put, faults>>

\* An access token comes within 60 s of its expiry.
Expire(n) ==
  /\ live' = live \ {n}
  /\ UNCHANGED <<upstream, database, pc, seen, got, put, faults>>

\* BLIZZARD_TOKEN_ENCRYPTION_KEY is changed, with the service stopped.
ChangeKey ==
  /\ \A w \in Workers : pc[w] = "idle"
  /\ row # NoRow
  /\ row' = [row EXCEPT !.lost = {"access", "refresh"}]
  /\ Fault
  /\ UNCHANGED <<upstream, live, owner, pc, seen, got, put>>

GetToken(w) ==
  \/ GetAccessToken(w) \/ Refresh(w) \/ RefreshRefused(w) \/ RefreshEnds(w)
  \/ StoreGrant(w) \/ Deactivate(w)
Linking(w) == FindLink(w) \/ CreateLink(w) \/ UpdateLink(w)
Advance(w) == GetToken(w) \/ Linking(w) \/ Use(w) \/ UseRefused(w) \/ Disconnect(w) \/ Commit(w) \/ Rollback(w)
Begin(w)   == BeginUse(w) \/ BeginDisconnect(w) \/ ExchangeCode(w)
Trouble(w) == RefreshLost(w) \/ RefreshUnavailable(w) \/ UseFails(w) \/ LinkFails(w) \/ Crash(w)

Next == \/ \E w \in Workers : Begin(w) \/ Advance(w) \/ Trouble(w)
        \/ Revoke
        \/ \E n \in live : Expire(n)
        \/ ChangeKey

\* A request that has begun goes on, its turn for the row's lock comes, time
\* passes, and the scheduler and the user's own requests keep using the link.
Fairness ==
  /\ \A w \in Workers : SF_vars(Advance(w)) /\ SF_vars(BeginUse(w))
  /\ \A n \in 1 .. MaxGrants : WF_vars(Expire(n) /\ n \in live)

Spec == Init /\ [][Next]_vars
FairSpec == Spec /\ Fairness

-------------------------------------------------------------------------------
(* Properties. *)

Steps == {"idle", "token", "request", "store", "use", "deactivate", "delete",
          "link", "create", "relink", "commit", "failing"}

TypeOK ==
  /\ honoured \in SUBSET (1 .. MaxGrants)
  /\ issued \in Grants
  /\ reply \in [1 .. MaxGrants -> Grants]
  /\ live \in SUBSET (1 .. MaxGrants)
  /\ row \in Row \cup {NoRow}
  /\ owner \in Workers \cup {NoOne}
  /\ pc \in [Workers -> Steps]
  /\ seen \in [Workers -> Row \cup {NoRow}]
  /\ got \in [Workers -> Grants]
  /\ put \in [Workers -> Row \cup {NoRow, Nothing}]
  /\ \A w \in Workers : put[w] # Nothing <=> owner = w
  /\ faults \in 0 .. MaxFaults

\* What _deactivate writes is never committed, since the error that follows it
\* rolls the request back: every committed link is active.
LinksStayActive == row # NoRow => row.active

\* The refresh token that the link has now.
Kept == IF row = NoRow THEN 0 ELSE row.refresh

\* A commit leaves the link active, and puts beside an access token the refresh
\* token of the same reply.  Only a reply that brought none keeps another one:
\* the one the link has at the commit, which may have come with an older access
\* token, and never the one a request loaded before another changed it.
GrantFollowsReply ==
  [][row' \notin {row, NoRow}
       => /\ row'.active
          /\ row'.access # 0
               => row'.refresh = IF reply[row'.access] # 0 THEN reply[row'.access] ELSE Kept]_vars

\* A link that was disconnected only comes back by a callback that found none:
\* a refresh that was under way does not store its tokens again.
NoResurrection ==
  [][row = NoRow /\ row' # NoRow
       => \E w \in Workers : pc[w] = "commit" /\ seen[w] = NoRow /\ got[w] # 0]_vars

\* Every request ends, the ones that wait for the row's lock included.
RequestsEnd == \A w \in Workers : pc[w] # "idle" ~> pc[w] = "idle"

===============================================================================
