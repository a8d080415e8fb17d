# Verification of wow-expert

TLA+ specifications of *wow-expert*: a FastAPI service over async PostgreSQL
sessions and Redis (`src/backend/app`), with a Battle.net client, a background
scheduler, a knowledge index, quest, travel and rotation advice for World of
Warcraft, and an overlay (`src/frontend/overlay`) that follows a player's events.
The specifications are checked with TLC on small instances; the theorems hold for
every value of the constants and are proved with TLAPS. Paths below are relative
to `src/backend/app` unless they start with `src/`.

- [The system](#the-system): components, state, operations, what is hard
- [Modules and code](#modules-and-code): how each module corresponds to the source
- [Runs](#runs): what TLC checks, the bounds, the fairness
- [Theorems](#theorems): what TLAPS proves, and along which argument
- [Where code and documentation disagree](#where-code-and-documentation-disagree)
- [What is not modelled](#what-is-not-modelled) and [the plan](#plan)

## The system

| component | state it keeps | operations | what is hard about it | what makes it correct | module |
|---|---|---|---|---|---|
| account synchronization (`services/blizzard_sync.py`, `repositories/`, `db/session.py`) | `sync_jobs`, `blizzard_accounts`, `characters`, `character_snapshots`; one transaction per request | import, full sync, one character's refresh | concurrent READ COMMITTED transactions, row locks and their deadlocks, partial failure in a gather, rollback of the failure record | a reader sees each run whole or not at all; what a job reports as synced is stored; nothing a dead worker leaves refuses the account | SyncJobs, AtomicSync |
| sync scheduler (`services/sync_scheduler.py`) | a Redis key; one task per replica | start, stop, sweep, claim, release | a lock with a time to live and an ownerless delete; crash, cancellation and lost reply around it; a batch that failing accounts can fill | one sweep at a time, orphaned keys expire, no account is starved | SyncScheduler |
| Battle.net grant (`services/blizzard_tokens.py`) | encrypted access and refresh token of a link | get token, refresh, store, deactivate, revoke | concurrent refreshes, rotation at Battle.net before the commit here, outages, key changes, disconnect under a refresh | a refresh token is of the same reply as the access token beside it or the one the link has, a disconnected link stays gone, requests end | TokenGrant |
| account linking (`services/blizzard_oauth.py`) | single-use OAuth states in Redis, `blizzard_accounts` | begin, callback, disconnect | duplicated callbacks; a state consumed before the exchange; two callbacks that look before either has inserted | a state is used at most once, for the user who began; no Battle.net account has two users | OAuthLink, LinkRegistry |
| authentication (`services/auth.py`, `core/security.py`) | deny list in Redis | register, login, refresh, logout, password change | check and write of the deny list are separate awaits; the entry's life is cut to whole seconds | a revoked token is refused as long as it would be valid | AuthTokens |
| Battle.net API client (`integrations/blizzard/client.py`, `oauth.py`) | cached application token, lock, semaphore, Redis cache | get, retry, 401 and 429 handling | calls share the token, the slots and the cache; cancellation at any await | no needless token request, no data of one player to another, every call ends | BlizzardClient |
| character roster (`services/character.py`, `repositories/character.py`, the import of `blizzard_sync.py`) | `characters` | create, update, delete, import | checks made on what was read before a concurrent commit; names that fold to one | what a user wrote survives an import; a request alone keeps limit, uniqueness and roles; an import alone is complete | Roster |
| knowledge ingestion (`knowledge/ingestion.py`, `vector_store.py`, `services/knowledge.py`) | documents, chunks, ingestion runs | ingest | batches with commits between, transactions left in error, rollbacks that take the audit row along, runs that wait for each other's rows | a reader sees batches whole and documents with their own chunks; a run recorded as completed has indexed what it listed | Ingestion, KnowledgeIndex |
| realtime overlay (`modules/realtime/`) and its client (`src/frontend/overlay/src`) | registry of connections, event queues, sequence numbers; the client's socket and timer | connect, publish, report, echo, reconnect, close | several tasks write to one socket; handlers, timers and `onclose` outlive what made them | every event once, in order, numbered without gaps; a closed client stays closed, a live one recovers | Overlay |
| quest graph (`quests/graph.py`, `models.py`, `seed_data.py`) | a graph built once | validate, status, what is missing, order | an iterative search with an explicit stack; answers relative to a progress made out of order | a cycle is reported exactly when there is one; the path told can be played | QuestLibrary, CycleSearch, QuestGraph |
| route optimizer (`quests/optimizer.py`) | none | plan a set of quests | zone runs merged and reordered after the topological sort | each quest once or left out; prerequisites first within a zone | QuestPlanner |
| travel router (`navigation/router.py`, `travel.py`, `world/zones.py`) | a graph of ways built once | best route, alternatives | a search that drops equals, requirements on ways, spells that leave from anywhere | the first route is the best there is, none means there is none | TravelNetwork, RouteSearch |
| rotation advisor (`modules/rotation/`) | none | live advice, page of a situation, cooldown and burst plan | forty hand-written tables, three computations of readiness | the answers agree with each other; who is free to act is told something to press | RotationProfiles, RotationAdvisor |
| cache and rate limiter (`core/redis.py`, `api/middleware.py`) | Redis keys | get, set, count | count and expiry in one pipeline | the window is never unbounded | cache in BlizzardClient |
| reasoning and player model, retrieval, gear, collections, coach, recommender, connectors, parsing, search, registry, AI provider, migrations | one profile row; none | - | pure scoring, external I/O, generated code, or mapping | - | [not modelled](#what-is-not-modelled) |

How they interact. A request handler gets one session from `get_db_session`,
which commits when the handler returns and rolls back when it raises. The
scheduler opens one session per account and does the same. A sync asks the
grant for a token (a flush to the account's row, in the *same* transaction), the
API client for the roster and each character's data, and writes characters,
snapshots, the job and the account's stamp in that transaction. So the database
locks connect account linking, the grant, the roster, the import and the
scheduler; Redis connects the scheduler's replicas, the OAuth states, the deny
list and the API client's cache; and Battle.net keeps state of its own (which
tokens it honours) that no rollback undoes. The optimizer asks the graph for an
order and the router for the cost between zones. The overlay and the ingestion
meet the rest only in the process and the database they run in.

## Modules and code

Each module states its own conventions in its header. Definitions keep the
names of the code where they can. A few definitions named as a variation of
another and commented "Mutant:" (`SetLockAlways`, `RollbackSkipped`, ...) are the
slips of the hand that the properties are tried against; no specification uses
them. An `MC` module gives the constants of a component their values for TLC, a
`Proofs` module holds its theorems.

### SyncJobs, AtomicSync - `services/blizzard_sync.py`

A *worker* is a session with its transaction: a request handler or the
scheduler. `pc` walks through `import_characters`, `run_account_sync` and
`sync_character`; `kind` is which of them was asked for (`resync` is a sync
without the import). Committed rows are `jobs`, `stamp` (`last_sync_at`, as the
run that wrote it), `syncError`, `known` (characters with a row) and `snap`
(snapshots, as the run that wrote them). A worker sees the committed rows and
its own (`Visible`), an update waits until nobody else has written the row
(`Free`), and `Commit` publishes everything at once. `DeadlockAbort` is
PostgreSQL breaking a cycle of such waits; `Crash` is a process that dies.

| action | code |
|---|---|
| `Begin`, `CheckRunning`, `CreateJob` | a session, `get_running`, the RUNNING job and its flush |
| `TokenValid`, `TokenRefreshed`, `TokenRefused` | `get_access_token`: usable, refreshed with a flush to the account's row, or refused |
| `FetchRoster`, `RosterFails`, `LookupCharacter`, `SkipCharacter`, `UpdateCharacter`, `InsertCharacter`, `StampImport` | `import_characters`, with the limit on new characters and the two unique-key outcomes of an insert |
| `ListCharacters`, `PickCharacter`, `PickNothing` | the characters of a sync, or the one of a refresh |
| `PromoteFields`, `WriteSnapshot`, `CharacterFails`, `CharacterCollides` | `sync_character`: update of the row, insert or update of the snapshot, a failed fetch, colliding flushes, a unique violation, which breaks the transaction |
| `FinishJob`, `StampAccount`, `RecordFailure` | the end of `run_account_sync` and its except clause |
| `Commit`, `Rollback`, `Crash`, `DeadlockAbort` | `get_db_session`, the scheduler's session, the database |

The tasks of one gather interleave: several characters can be between the
lookup and the write of their snapshot, and `CharacterCollides` is a task whose
flush meets another's in the shared session - it counts as failed, and its
pending row goes out with the next flush.

Abstracted: the payloads, the scopes fetched inside one character (they are one
outcome), the split of a roster into batches, the time `last_sync_at` holds.

`AtomicSync` is what a reader of the database may assume: a transaction is one
step - a finished job with its stamp and at least the snapshots it reports, or
an import, or one snapshot - or no step at all. `AtomicPublication` says that
SyncJobs implements it; its variables `jobs`, `stamp`, `known`, `snap` are
those of SyncJobs.

### SyncScheduler - `services/sync_scheduler.py`, `repositories/blizzard.py`

A *replica* runs `start`/`_run`/`run_once`; `stage` is its step: sleep, claim,
list, visit each account, release. `lock` and `ttl` are the Redis key: `Claim` sets it when it is
absent and `Release` deletes it *without comparing the value*, as the code does.
`ClaimLost` is a SET that Redis executed and whose reply was lost, or whose task
was cancelled; `Stop` cancels the task anywhere and runs the finally clause;
`Die` runs nothing. `Tick` is time: it ages the key and the sweeps, and nothing
keeps a sweep from outliving its key. `overran` is a history variable: since a
moment when nobody swept, a sweep has outlived its key. The order `list_stale` sorts by is the
relation `older`, NULL first. `Failing` accounts never get a successful sync -
their stamp stays. What one sync does inside is SyncJobs.

### TokenGrant - `services/blizzard_tokens.py`, `blizzard_oauth.py`, `integrations/blizzard/oauth.py`

One link, requests in concurrent transactions. Grants are numbered in the order
Battle.net issues them: `n` is the n-th access token and the refresh token that
is new in the same reply, 0 is NULL. A reply need not bring one, and then
`store_grant` leaves the older one beside the new access token. Battle.net is `honoured` (refresh tokens it accepts),
`issued` and `reply` (the refresh token that belongs to an access token: a new
one, the old one when a refresh does not rotate it, or 0 for none); the row carries which of its columns
are sealed under a key that is gone (`lost`). `seen` is the row as the session
loaded it - it stays as loaded, while an UPDATE changes columns of the row
as committed by then. `Refresh` is one HTTP exchange: new tokens with or without
rotation, an answer that is lost after Battle.net has acted (`RefreshLost`), an
outage, or a refusal. Every error leads to `Deactivate`, as in the code, and from
there to the rollback. Assumed of Battle.net: a new authorization does not
invalidate earlier refresh tokens, a withdrawn consent (`Revoke`) invalidates all.

### AuthTokens - `services/auth.py`, `core/security.py`, `core/redis.py`

`refresh` is `Decode`, `CheckPasses`/`CheckRefuses` (the deny list, failing
closed), `LoadUser`/`NoUser`, `Revoke`/`RevokeFails`, `Issue`: one action per
await, so that concurrent requests interleave as they do in the event loop.
Time counts half seconds: `exp` is cut to whole seconds at `Mint`, and `Deny`
cuts the life of the entry to whole seconds again and drops one of zero.
`late` remembers that the token had been revoked before this request looked.

### BlizzardClient - `integrations/blizzard/client.py`, `oauth.py`, `core/redis.py`

Calls of `get` on one client. A coroutine is interrupted only where it awaits,
so an action is what a call does between two awaits: look in the cache, take the
cached token, queue for the lock, fetch a token under it, wait for a slot of
the semaphore and send, then handle the answer (served, absent, rejected with
401, throttled or failed, refused) and store. `attempt` and `reauthorized` are
the loop's counters; a 401 on the last attempt drops the token and ends.
`Cancel` ends a call at any await. `TokenExpires`, `TokenRevoked`, `Change` and `Evict` are
the clock, Battle.net and Redis. Token requests are counted in `fetches`, and
what may have caused them in `lost` and `dropped`.

### OAuthLink, LinkRegistry - `services/blizzard_oauth.py`

`Begin` is `begin()`: a fresh state, stored in Redis for the user. A *callback*
is one request with its transaction: `Take` (GETDEL of the state; `TakeFails`
when Redis or the state is gone), `Exchange` (code for grant, and the Battle.net
account it names), `FindOwner` and `FindMine` (the two look-ups, which remember in
`read` the account the row had), `Write` (an
update of the row found or an insert, which waits for the callbacks in
`Blockers` and may be `Refused` by a unique constraint or a row that is gone) and
`Commit`. An update sends `battlenet_id` only when it differs from what was read
(`Sends`), and then alone meets the unique constraint on it; the tokens are always new
and always sent. So a row has the account it is linked to (`bnet`) and the
account its tokens are of (`grant`), and the two can differ. `Expire` is Redis dropping a state, `Crash` the end of a request
anywhere, `Disconnect` the deletion of a row. `by` is a history variable: the
user for whom the row's grant was obtained. The tokens themselves are TokenGrant's.

`LinkRegistry` is the promise: a consent link is unused, open for a user, or
spent, and an open one is used (`Use`) in one step, for its user, either to link an
account that no other user has (`Link`) or to renew the grant of a link that stays
as it is (`Renew`). `ImplementsRegistry`
maps a state that is in Redis *or* held by a callback on the way to "open".

### Roster - `services/character.py`, `services/blizzard_sync.py`, `repositories/`

A *request* is one READ COMMITTED transaction: it reads the committed `rows`
under its own writes (`View`), and `Commit` publishes the writes at once.

| action | code |
|---|---|
| `Create`, `Exists` | `create()`: valid pair of class and role, `count_for_owner`, then `exists_for_owner` whatever the case |
| `Update` | `update()`: the row read, the merged pair judged; a field not sent keeps the value read |
| `Delete` | `delete()` |
| `Import`, `Lookup` | `import_characters` and the look-up of `_upsert_character`: unknown class passed over, full roster ends the loop, two rows of one name raise |
| `Write` | the flush: waits for the row or name another open transaction has written (`Blockers`), may be refused, and sends only the columns that differ from what was read (`Merged`) |
| `Commit`, `Crash` | `get_db_session`; a cancelled request or a dead process |

A row's id is the request that made it and its character, so that a row deleted
and made again is another; `goals` stands for all fields only the user writes, as
the PATCH that wrote them. `alone` records that a request met no other.

### Ingestion, KnowledgeIndex - `knowledge/ingestion.py`, `knowledge/vector_store.py`

A *run* is `ingest()` in its own session, over the documents its connector lists
(`Listed`: all, or up to the limit it was started with): `Start` (the IngestionRun row),
`Fetch` (the next document, of the version its source has now), `Check` at a
full batch or the end (`_is_unchanged`), `NothingChanged` or `Embed`, then for
each changed document `Upsert` (the document) and `Replace` (its chunks), and
`CommitBatch`. `EmbedFails` rolls back, and with it the run's own row when
nothing was committed before; `WriteFails` leaves the transaction in error, in
which every later statement fails and `CommitLost` - PostgreSQL's COMMIT of such
a transaction - rolls back and raises nothing. A document that became current
since the batch was checked gets a new `fetched_at`, which the commit flushes
(`dirty`): that flush may wait for other runs' rows (`Wanted`, `Blockers`), and when it is
refused - in a transaction in error, or by a cycle of waits, `Deadlocked` - the
session is left waiting for a rollback, the commit of the except clause raises too,
and `ingest()` ends with an exception and nothing recorded (`CommitRaises`).
`SourceFails`, `Finish`, `Abort` and `Record` are the other ends of a run; `Edit` is the
source changing. All runs meet the documents in the source's order, but flush
`fetched_at` at the end of a batch, so that cycles of waits are possible.

`KnowledgeIndex` is what a reader relies on: the index changes by whole batches,
to versions the source has had. The mapping gives a document whose row and chunks
disagree a version that no source has, so that the refinement also says they never do.

### Overlay - `modules/realtime/`, `src/frontend/overlay/src/api/overlayClient.ts`, `App.tsx`

Both sides of a connection. The backend runs one coroutine at a time, from await
to await: `Join`, `Hello`, `Seed`, then the two tasks `Outbound` (the queue) and
`Inbound` (alerts, which `Echo` writes to the user's connections one await at a
time, then discarding the stale ones from the set it took before). The client's
`Mount`/`Unmount` are App.tsx's effect and its clean-up (React's StrictMode mounts
twice), `Reconnect` the timer, `OnOpen`/`OnClose` the socket's callbacks. `Drop` is
the network; each side learns of an end in its own time. Frames are delivered in
order until then.

### QuestLibrary, CycleSearch, QuestGraph, QuestPlanner - `quests/`

`QuestLibrary` is the data (the seed quests and chains, with what status and place
depend on). `CycleSearch` is the cycle search of `validate()`, over any library: one
action per turn of its loop (`NextRoot`, `VisitIsOver`, `FindCycle`, `Revisit`,
`Visit`), with its colours and its explicit stack. `QuestGraph` extends it: `Built`
ends the validation. A graph that passes serves a character who
plays (`Begin`, `PickUp`, `Complete`, `LevelUp`); `StatusFor`, `PathTo`
and `TopologicalOrder` are the answers, as functions of the progress.
`QuestPlanner` puts the graph and the router together: `OptimizeQuestRoute` is the
optimizer, `Travel` a journey on the router's advice.

A loop inside one answer is a recursive function of the number of its turns, from
which the answer takes the last: `Ordered` is Kahn's algorithm, whose list of ready
quests is always sorted when its head is taken, so that the head is `First`; `Traced`
the walk back to what is missing, all quests at one distance in one turn; `OrderZones`
the greedy tour, always on to the `Nearest` zone, from where the character is or,
where no place was given, from the zone of the first quest; `Merged` the legs one after the other.

### TravelNetwork, RouteSearch - `navigation/`, `world/zones.py`

All 112 zones and 262 ways with cost and requirements, each built as the code
builds them (both directions, portals, mage teleports). `FindRoute` is the search: the
frontier is the heap as a set of nodes, `Before` its order (cost, convenience, age),
`Turn` one turn of the loop (`Ended` at the destination, `Relax` the expansion), `Turns`
the loop. A node that is overtaken by a nearer one is dropped at once; the code leaves it
in the heap and skips it when it comes up. `RoutesAvoiding` bans each step of the best
route alone, the costliest first, and `FindRoutes` sorts what was found.

### RotationProfiles, RotationAdvisor - `modules/rotation/`

`RotationProfiles` is the forty tables with the fields the advisor decides by;
`RotationAdvisor` takes any tables as a constant, and MCRotationAdvisor gives it the
shipped ones. `Eligible`, `Pool`, `Advice`, `RotationFor`, `PlanReady`, ... are `engine.py`,
`Answer` is `RotationService.advise`. The advisor keeps nothing, so the only
variable is the fight, of which one aspect changes from request to request. A
sorted list is told by its order: `Ranked` puts the positions of a list in the
order of a relation, by priority and weight (`ByWeight`, of `advise`), by priority
(`ByPriorityAlone`, of `rotation_for`) or as they are listed (`Those`). No shipped
table gives a weight, so the two sorts agree on all of them.

## Runs

| run | instance | checks | states |
|---|---|---|---|
| `sync_transactions` | 2 workers, 1 account, 2 characters, 2 transactions of any kind | `NoUnfinishedJob`, `IsolatedWrites`, `SyncedHasSnapshot`, `AtomicPublication`, `EveryTransactionEnds` | 55k |
| `scheduler_sweeps` | 2 replicas, 3 accounts (1 failing), batches of 2, key of 2 ticks, 1 fault, overlong sweep or new link | `OneSweep`, `LockIsFreed`, `NoStarvation` | 143k |
| `grant_requests` | 2 workers, 2 grants, 1 fault | `GrantFollowsReply`, `NoResurrection`, `RequestsEnd` | 66k |
| `auth_safety` | 2 requests, 3 tokens of 2 s, 2.5 s of clock, 1 fault | `RevokedIsRefused` | 601k |
| `client_calls` | 2 calls, 1 key, 1 user, 2 attempts, 1 slot, 1 event | `FetchesAreOwed`, `DataIsPrivate`, `MissingWasMissing`, `CallsEnd` | 136k |
| `oauth_link` | 2 users, 2 Battle.net accounts, 3 states, 3 callbacks | `ImplementsRegistry`, `CallbacksEnd` | 199k |
| `roster` | 2 requests, a limit of 2, three names of which two fold to one, a profile of three | `EditsSurvive`, `AnomaliesNeedCompany`, `ImportIsComplete`, `RequestsEnd` | 28k |
| `ingestion` | 3 runs that list 3, 2 and 1 documents, batches of 2, 2 versions, 1 fault | `RecordedUnlessForgotten`, `CompletedMeansIndexed`, `ImplementsIndex`, `RunsEnd` | 454k |
| `overlay` | 2 connections, 2 mounts, 2 events, 1 alert, 1 lost connection, 1 seed frame | `StreamIsWhole`, `RegistryIsLive`, `ClosedStaysClosed`, `EventsArrive`, `Recovers` | 210k |
| `quest_plans` | the seed data, and all graphs of 3 quests under 5 sets of attributes; 3 characters, 3 levels, 7 destinations | `CyclesAreFound`, `PathIsPlayable`, `PlanIsSound`, `RoutesAreFastest` | 27k |
| `rotation_advice` | all 40 tables; 3 numbers of enemies, 3 pools, every cooldown alone, all or none | `AlwaysSomethingToPress`, `PlansAgree`, `MoreNeverHurts` | 14k |
| `sync_concurrent` | 2 workers, 1 account | `AtMostOneRunPerAccount`, violated: see [below](#where-code-and-documentation-disagree) | - |

What the properties say:

- **SyncJobs** - `NoUnfinishedJob`: no committed job is RUNNING, so a worker that
  dies cannot make `get_running` refuse an account for good. `SyncedHasSnapshot`:
  what a job reports as synced is stored, whatever failed beside it.
  `IsolatedWrites`: two transactions never hold uncommitted writes of the same
  row, and imports of one roster at once cannot duplicate a character.
  `AtomicPublication`: SyncJobs implements AtomicSync. `EveryTransactionEnds`:
  waits for rows end, cycles of them included.
- **SyncScheduler** - `OneSweep`: one replica sweeps at a time, through crashes,
  cancellations, lost replies and ownerless deletes, until a sweep outlives its key.
  Then a second may come in, and when the first deletes the second's key, a third;
  this ends with the first moment at which nobody sweeps, from which on exclusion
  holds again. `LockIsFreed`: the key does
  not stay for good. `NoStarvation`: a healthy account that is due is
  synchronized (or disconnected), while the failing ones leave room in the batch.
- **TokenGrant** - `GrantFollowsReply`: the refresh token that a commit leaves beside an
  access token came in the same reply; if that reply brought none, it is the one the
  link has at the commit, never one that a request loaded before another replaced it.
  And the link is active (`LinksStayActive`: no deactivation is ever
  committed, so an outage cannot disable a link, nor can a withdrawn consent, see
  below). `NoResurrection`: a deleted row only comes back by a callback that
  found none. `RequestsEnd`.
- **AuthTokens** - `RevokedIsRefused`: a refresh that looks at the deny list after
  the revocation gets no pair, but in the last second of the token, where the
  truncated entry may already be gone. A revocation whose write failed does not count as one:
  the request ends without a pair (`RevokeFails`), and nothing is said of the token.
- **BlizzardClient** - `FetchesAreOwed`: each token request has a cause: the start, an
  expired or revoked token, or a 401 - any 401, also one for a token that another call
  has replaced since, which the code answers by dropping the new one.
  `DataIsPrivate`: a response to a player's token reaches that player's calls and
  never the shared cache. `MissingWasMissing`: None is only returned or cached
  for what Battle.net did not have at some time. `CallsEnd`: every path gives
  lock and slot back.
- **OAuthLink** - `ImplementsRegistry`: callbacks that come twice, fail half way or
  look before another has inserted change nothing but by LinkRegistry's steps: a state is
  used once and for its own user, no Battle.net account has two, and a callback either links the account of its grant or
  leaves the link as it is and renews the grant - which then may be another account's,
  see below. `CallbacksEnd`.
- **Roster** - `EditsSurvive`: a field of the user changes only by the commit of the
  PATCH that carries it. `AnomaliesNeedCompany`: limit, uniqueness up to case and
  legality of the role break only when two requests overlap - of the anomalies that
  overlaps do produce (see below) it says no more than that it takes two.
  `ImportIsComplete`: an import that meets no other request stores the profile, unless
  it comes to a full roster, where the code stops. `RequestsEnd`.
- **Ingestion** - `CompletedMeansIndexed`: a run recorded as completed found each
  document that it listed unchanged or has committed it. `RecordedUnlessForgotten`:
  the outcome a caller is given is in the run's row, unless a rollback before the
  first commit took the row; a run that raises gives none. `ImplementsIndex`, `RunsEnd`.
- **Overlay** - `StreamIsWhole`: each connection's numbered frames are 1, 2, 3, ... and
  its events those published since it joined, once and in order, the rest being
  in its queue. `RegistryIsLive`, `ClosedStaysClosed`, `EventsArrive`, `Recovers`.
- **Quests** - `CyclesAreFound`: the search reports a cycle exactly when there is a set of
  quests each of which another of them, or itself, waits for; `PathIsPlayable`: each
  quest of a path is available when its turn comes;
  `PlanIsSound`: each quest is planned once or left out, and in one zone none before one
  it waits for. `RoutesAreFastest`: every route of an answer can be gone by the character
  who asks, none comes twice, and no way of as many edges as there are zones is faster
  than the first (`WithinEdges` computes the least seconds edge by edge, without a
  frontier); no route means no way.
- **Rotation** - `AlwaysSomethingToPress`: who stands still with nothing on cooldown is told
  something to press, against one enemy whatever the pool, with a full pool against
  any number - but for the three Priest tables against exactly two, where the advice is
  always empty. `PlansAgree`, and `MoreNeverHurts` as a step property.

Bounds. Every hazard above needs two actors, so there are two, and what they
contend for is single (one account, one link, one key, one slot, one user's
connections) to make them contend; a replayed callback needs a third. `MaxRuns`,
`MaxGrants`, `MaxTokens`, `Horizon`, `MaxVersion`, `MaxConns`, `MaxMounts` and
`MaxFaults`/`MaxEvents`/`MaxDrops` bound histories: two grants for one rotation;
three tokens for a chain of two refreshes; 5 half seconds outlive a token of two
seconds by the truncation both of `exp` and of the entry; three documents in
batches of two give a full batch and a rest, and three runs, each of which lists
fewer of the documents than the one before it, make a document current between
the check and the write of another run and lead into a cycle of waits, without a
fault; two mounts are StrictMode's. Two grants include the reply without a refresh token,
whose access token is stored beside the refresh token of the first; that a request keeps
the token which another has stored *since it loaded the row* takes a third grant,
which is too much for TLC, and rests on the theorem. The roster's limit of two is reached by one
insert. `quest_plans` bounds the travellers to the seed library before their first
quest and characters to three quests taken; the 64 graphs of three quests
contain every shape of cycle, diamond and chain of that size, and travel is
checked on the shipped network and not on small ones, since its equal costs are
what matters. One event in `scheduler_sweeps` is enough for a sweep that outlives its
key, for the deletion of the next one's key and for two young sweeps after it.

Deadlock is checked for the scheduler, the grant and the rotation advisor, whose
systems never stop. The other runs allow it: the requests, connections and clock
of the instance are bounded and the system really comes to rest when they are used
up. Symmetry is used only in `auth_safety`, which checks an invariant only.

The type invariants are proved (see below). TLC does not check them again:
they add nothing to what the theorems say for every instance. `TypeOK` of the cycle
search and of the rotation advisor and `PlannerTypeOK` are stated with their proofs.

Fairness, and what justifies it:

- `SyncJobs`, `OAuthLink`, `Roster`, `Ingestion`: weak fairness of each request's next
  step - the event loop runs ready tasks, HTTP requests have timeouts, and
  PostgreSQL grants a free row and aborts a member of a cycle (`DeadlockAbort`, `Deadlocked`;
  elsewhere the order of the statements excludes cycles, or the properties would
  fail). A run of Ingestion whose transaction is in error, or that waits in a
  cycle, goes on through the failures that follow from it. Beginning, failing and crashing are not fair.
- `SyncScheduler`: the clock and each replica's loop, weakly. Strongly: *some*
  replica that keeps trying claims a key that is free again and again, lists,
  and each healthy account's sync succeeds again and again; faults are bounded,
  so a sweep is not interrupted for ever. No replica in particular is favoured.
- `TokenGrant`: strong fairness of each worker's step, since the row lock is
  handed over in turn by PostgreSQL, and of beginning a request (the
  scheduler's next sweep, a user who comes back); access tokens expire.
- `BlizzardClient`: weak fairness of each call's step; strong fairness of
  acquiring the lock and a slot, since asyncio's `Lock` and `Semaphore` serve
  waiters first come, first served. Nothing is assumed of Battle.net's answers:
  the retries are bounded by the code.
- `Overlay`: weak fairness of each handler, of the socket's callbacks and of the timer.
- `AuthTokens`, quests and rotation have no liveness property.

## Theorems

Each `*Proofs` module extends the component it is about (SyncProofs, AccountProofs and
BattleNetProofs two each, QuestProofs QuestPlanner and what it is made of). The theorems are about
the specification, use no fairness, and hold for any sets of workers, replicas, calls,
callbacks, requests, documents, accounts, characters, tokens, quest libraries, zones asked
about and rotation tables, and any value of the bounds; what they assume is the `ASSUME` of the component
(natural bounds, distinct null values, finite sets of requests and names, the tables of
classes and roles, finite libraries that list their quests, a highest level that suffices for each of
them, costs and levels that are numbers, tables with numbers where numbers are
compared). TLC evaluates each of these on the instance of its run.

| module | theorem | says |
|---|---|---|
| SyncProofs | `TypeCorrect`, `NoUnfinishedJobs`, `SyncedHaveSnapshots`, `WritesAreIsolated` | of SyncJobs: `[]TypeOK`, `[]NoUnfinishedJob`, `[]SyncedHasSnapshot`, `[]IsolatedWrites` |
| | `PublicationIsAtomic` | `AtomicPublication`: SyncJobs implements AtomicSync |
| | `SweepTypeCorrect`, `SweepsAreExclusive` | of SyncScheduler: `[]SweepTypeOK`, `[]OneSweep` |
| BattleNetProofs | `TypeCorrect`, `LinksAreActive`, `GrantsFollowReplies`, `LinksAreNotResurrected` | of TokenGrant: `[]TypeOK`, `[]LinksStayActive`, `GrantFollowsReply`, `NoResurrection` |
| | `ClientTypeCorrect`, `RequestsHaveCause`, `PrivacyHolds`, `MissingHolds` | of BlizzardClient: `[]ClientTypeOK`, `[]FetchesAreOwed`, `[]DataIsPrivate`, `[]MissingWasMissing` |
| AccountProofs | `AuthTypeCorrect`, `RevocationHolds` | of AuthTokens: `[]AuthTypeOK`, `[]RevokedIsRefused` |
| | `TypeCorrect`, `Unique`, `OwnGrants` | of OAuthLink: `[]TypeOK`, `[]LinksAreUnique`, `[]GrantBelongsToStarter` |
| | `LinkingIsOnce` | `ImplementsRegistry`: OAuthLink implements LinkRegistry |
| RosterProofs | `TypeCorrect`, `UserEditsSurvive`, `AnomaliesTakeTwo` | `[]TypeOK`, `EditsSurvive`, `AnomaliesNeedCompany` |
| | `ImportsAreComplete` | `NamesDiffer` implies `ImportIsComplete`: Battle.net lists a character once |
| IngestionProofs | `TypeCorrect`, `OutcomeIsRecorded`, `CompletedRunsIndexed` | `[]TypeOK`, `[]RecordedUnlessForgotten`, `CompletedMeansIndexed` |
| | `Refinement` | `ImplementsIndex`: Ingestion implements KnowledgeIndex |
| OverlayProofs | `TypeCorrect`, `StreamsStayWhole`, `RegistryStaysLive`, `ClosedClientsStayClosed` | `[]TypeOK`, `[]StreamIsWhole`, `[]RegistryIsLive`, `[]ClosedStaysClosed` |
| QuestProofs | `TypeCorrect`, `VerdictsAreRight` | `[]TypeOK`, `[]CyclesAreFound`, of CycleSearch alone (`SearchSpec`) |
| | `PlannerTypeCorrect`, `CyclesAreAlwaysFound`, `PathsAreAlwaysPlayable`, `PlansAreAlwaysSound` | of QuestPlanner: `[]PlannerTypeOK`, `[]CyclesAreFound`, `[]PathIsPlayable`, `[]PlanIsSound` |
| | `RoutesAreAlwaysFastest`, `NoWayIsEverFaster` | `[]RoutesAreFastest`; `[]NoneIsFasterAtAll`: the same of ways of any length |
| RotationAdvisorProofs | `AnswersAgree` | `[]PlansAgree` |
| | `FreedomNeverHurts` | `NothingIsAvoided` implies `MoreNeverHurts`: no table has an ability that waits for a buff to end |

The arguments, and why each invariant needs its strengthening:

- **SyncJobs.** `TypeOK` alone is not inductive, because a commit writes the row of
  the worker's run: `Busy` adds that an open transaction has one. `JobPhases`
  says which kind of transaction reaches which step and that none commits a
  RUNNING job; `Written` that what is counted as synced was written, for rows the
  session can see; `Locked` that uncommitted writes are behind the row locks - two
  workers cannot both own a lock, hence `IsolatedWrites`. For the refinement,
  only `Commit` changes the committed tables (`OnlyCommitPublishes`), so every
  other step stutters, and `Shape`, `SyncReady`, `ImportReady`, `CharacterReady`
  and `FreshRuns` describe what a session holds when it commits, which is
  exactly one of AtomicSync's three steps.
- **SyncScheduler.** Ownership does not show in `Release`, which deletes whatever is
  there. `SweepHoldsLock` is why it is right all the same while no sweep has outlived its
  key: a sweep holds the key, and `ttl + age = LockTTL`, so that the key is there as long
  as `age < LockTTL`. A tick keeps the sum, a claim starts it, and nobody else can
  claim or delete while one sweeps. The inductive invariant is `~overran =>
  SweepHoldsLock`, and `Recovers` is the way back: the step that resets `overran` ends the
  only sweep there is, and without a sweep there is nothing to hold.
- **TokenGrant.** `Whole` holds of every uncommitted row, relative to the row as committed
  now: its refresh token is of the reply of its access token or, when that reply brought
  none, the committed one (`Kept`);
  a worker that has something to store has a token that was issued (`Holds`);
  and only a callback that found no link can turn no row into a row. The row
  lock gives that at most one worker has uncommitted writes (`OneWriter`), and
  `TypeOK` carries that a worker has them exactly when it owns the lock, so that the row
  stays as it was when they were written until they are committed (`RowChanges`,
  `Published`).
- **AuthTokens.** `ListedLong`: the entry of a revoked token ends less than a
  second before the token does, or the token is in its last second. It follows
  from the two truncations in `Mint` and `Deny` (`WholeSecondsBound`,
  `DenyLasts`), and survives a second revocation, which only moves the end later.
- **BlizzardClient.** `RequestsAreOwed`: while no token is cached and no call fetches,
  one cause is still unspent. It needs `FetcherHoldsLock`, which makes the fetch
  and its double check exclusive. `AnswersAreTrue` follows a response from
  `Send` to the result and the cache.
- **OAuthLink.** GETDEL is why a state is with one callback at most, and not in Redis
  while one holds it (`StatesApart`, `Exclusive`); the look-ups prove nothing by the time of the write, and
  uniqueness rests on `Blockers` and `Refused` alone: an uncommitted write excludes
  every other of the same row, or that sends the same account (`WritesApart`). An
  update that does not send the account leaves the one that is there, so a renewed grant
  can be of another account, and the linked accounts stay unique all the same.
- **Roster.** `Locks`: no two open requests hold one row. `Held`: a row that a
  request holds is one it makes or one that is there, with the user's fields *as
  committed now* unless the request is the PATCH that writes them. The second is not
  inductive without the first, since another's commit could change the row under it,
  nor without `Unborn`: an id of a request that is not done has no row yet, so an
  insert never meets one. `Merged` keeps `Held` since an import sends no user field
  that it did not read, and columns that do not differ are not sent.
  `AnomaliesNeedCompany` and `ImportIsComplete` rest on `Alone`: what a request that
  has met no other counted and read is still true of what it sees (`Solitary`), so
  the checks it made are checks of what it writes; and the entries of the profile an
  import has passed stand (`ImportedSoFar`), since a later entry of another name
  writes another row. Two entries whose names fold to one would overwrite each
  other: `NamesDiffer` is what Battle.net guarantees and the profile of the run has.
- **Ingestion.** `Whole`: committed documents and chunks agree. A run can commit only
  when each document it has written has its chunks (`Paired`) in versions the
  source has had (`Genuine`); with a transaction in error only `CommitLost` and
  `CommitRaises` are possible. `Audited` ties the run's row to what the session believes of it.
  `CompletedMeansIndexed` needs `Accounted`: unless an error was counted, a document
  that is not left to do is safe, or is pending, and then waits to be checked, is
  still to be written, or is written in this transaction - and a run with an error
  does not record completed.
- **Overlay.** `Streams`: the frames sent and the queue of a handler are one sequence -
  the events since it joined (`Backlog`), of which the numbered frames are a beginning
  without gaps (`NumbersOut`). It is inductive only for handlers whose connection
  lives, so `Wires` relates the two ends: a handler that has ended has lost its
  connection, and nothing is under way to a client without a running one - which also
  is `RegistryIsLive`, as every end of a handler discards it. `Ownership`: only a
  client's newest connection may be open, and a pending reconnect means that it is
  closed, so that a client that is unmounted, whose timer is cleared, has none.
- **The cycle search.** A quest may lie on the stack several times, and a grey colour
  says no more than that a visit has begun. `MarksAreGrey` says that it has not
  ended: the visits under way are the marks on the stack, once each. `HaveParents`:
  every entry was put there by the nearest mark below it, so from a grey quest met
  again a chain of prerequisites leads back to it, hence `ReportsAreTrue`.
  Conversely `VisitsCover` (what a visit under way waits for is finished or above it
  on the stack), `FinishedIsClosed` and `FinishedIsSound` (no set of finished quests
  waits for itself: the one that finished last would be waited for by one that had
  finished before) leave no cycle unreported once `NoneForgotten` says that all are
  finished. The library never changes, so the theorem speaks of every graph that
  is built; a step of QuestPlanner is a step of the search or leaves it alone.
- **Recursive definitions.** What a recursive function computes is proved in three steps,
  each a lemma of QuestProofs: the function exists (`StepsExist`: from a first value and a
  step, which both stay in a set; the set is what takes thought), so it satisfies its own
  equation; an invariant of its values holds of all (`Induction`, from a least number that
  fails); and after as many turns as there are members of a finite set nothing is left to
  do (`Listing`: a sequence that grows by a new member as long as there is one ends with
  all of them, each once).
- **Paths.** In a graph without a cycle some quest of every set waits for no other of it
  (`FirstIsReady`: else the set itself is a cycle, `WaitingIsCyclic`), so Kahn's algorithm
  never stops early and `OrderIsTopological`. The walk back adds a quest or is finished in
  every turn, so that after as many turns as there are quests it is closed
  (`MissingIsRight`): whatever a missing quest waits for is completed or missing too. The
  target is not among them, again for want of a cycle (`TargetIsNotMissing`). Each quest
  of the path then finds its prerequisites completed or before it (`PathIsOrdered`), and
  that is all `StatusFor` asks when the character is eligible and the level suffices.
- **Plans.** The zones of a tour are listed once each (`OrderZonesLists`), the legs cut
  the topological order into disjoint sets of places, and `NextStop` takes the least place
  of the first leg that is left (`NextStopIsLeast`), hence within a leg the order stays as
  it was (`MergedLists`), although runs of one zone are merged across others.
- **The router.** `RouteInv`: of the zones reached one node each is kept, and it is a way
  that can be gone (`NodesAreWays`); what is expanded is not farther than what is not
  (`ExpandedIsNearest`, for which costs must not be negative); and an edge that leaves an
  expanded node leads to a node at most as far as the edge says (`ExpandedIsRelaxed`).
  Each turn keeps it (`ExpandingKeeps`, `EndingKeeps`) and expands one node more
  (`HasTurned`), so after one turn more than there are zones the search has answered or its
  frontier is empty (`SearchEnds`). `Near` then holds of the origin and is handed on along
  every edge, by `WithinStays` along the ways `WithinEdges` counts and by `WayStays` along
  any: they are not shorter than the answer, and do not exist without one
  (`AnswerIsRight`, `RoutesLeadThere`). An alternative avoids an edge, so it is a way
  among those (`BanningLeavesFewer`).
- **The planner.** `PlannerInv` adds to the invariant of the search that a graph is served
  only when it is sound, that the seconds a plan uses are known from wherever the
  character is (`SecondsAreKnown`: the zones of the quests, the starts, and the
  destinations of those who travel), and that the last answer is the router's to the
  question as it would be asked now (`TripIsAnswered`): who travels gains no level, which is
  a bound of the model.
- **The rotation advisor.** The invariant is only that the fight is one of a table; the
  work is in the operators. `Ranked` is a bijection because a strict order on a finite
  set gives each member a rank of its own (`RanksAreTaken`); hence its entries
  (`AdviceEntries`) and its first, the best (`FirstIsBest`), from which `PlansAgree` and
  `MoreNeverHurts` follow. The hypothesis of `FreedomNeverHurts` is about tables: the code
  would accept others, for which an answer could get worse. MCRotationAdvisor
  assumes it of the forty shipped tables, where TLC evaluates it.

Only model-checked: the liveness properties (`EveryTransactionEnds`, `LockIsFreed`,
`NoStarvation`, `RequestsEnd`, `CallsEnd`, `CallbacksEnd`, `RunsEnd`, `EventsArrive`,
`Recovers`), since the prover has neither `ENABLED` nor the induction that fairness
arguments need; and a fact about shipped data, which does not hold of other data and
which TLC enumerates: `AlwaysSomethingToPress` of the forty tables. That the shipped network is
sound and its costs are numbers (`NetworkIsSound`, `TravelAssumption`) is also evaluated
and not proved.

## Where code and documentation disagree

Shown by a run that finds the statement violated: `sync_concurrent`. "Refuses to
start when a job is already running for the account" (`services/blizzard_sync.py:480`),
but the RUNNING job is committed with the end of its run, so `get_running` never sees
one of another transaction.

Met while modelling, in the models, and without a run of their own. Synchronization
and Battle.net:

- SyncJob is "An audit record of one synchronization run" (`db/models/blizzard.py:120`);
  the FAILED status is flushed and then rolled back by the exception raised next
  (`services/blizzard_sync.py:564`);
- "only one replica performs a sweep" (`services/sync_scheduler.py:3`) needs sweeps
  shorter than the key's life, which nothing ensures (`:163`): `OneSweep`
  gives exclusion up from the moment at which a sweep outlives its key until a moment
  at which nobody sweeps;
- "the account is deactivated ... rather than retried forever"
  (`src/backend/README.md:146`): the deactivation is flushed and then rolled back
  (`services/blizzard_tokens.py:107`) - `LinksStayActive` states the same; and an
  outage of the token endpoint is handled as a revoked grant (`:104`);
- the rotated refresh token is lost when the transaction that stores it rolls
  back after Battle.net has retired the old one (`services/blizzard_tokens.py:113`;
  `src/backend/README.md:145` has it persisted);
- a callback or a refresh whose reply brings no refresh token leaves the older one beside
  the new access token (`services/blizzard_tokens.py:49`), although the two may be of
  different authorizations;
- "A user's linked Battle.net account and its OAuth grant" (`db/models/blizzard.py:37`): a
  callback that found the row by its account does not send `battlenet_id`
  (`services/blizzard_oauth.py:110`, `repositories/base.py:58`), so that its tokens can
  land on a row that another callback of the same user has meanwhile moved to another
  account; the row then names one account and holds the tokens of the other. LinkRegistry
  has the step (`Renew`);
- "each refresh token is single-use" (`api/v1/endpoints/auth.py:53`): the deny list is
  read and written in two awaits (`services/auth.py:97`), and two refreshes at once
  both get a pair; an entry of the deny list may end up to a second before its token
  (`core/redis.py:108` says "until their natural expiry");
- "a burst of concurrent calls triggers exactly one token request"
  (`src/backend/README.md:151`): a 401 for an old token drops the new one
  (`integrations/blizzard/client.py:199`), and on the last attempt fails without
  trying another (`:200`, throttling and 401 share one budget);
- a run in which every character failed still stamps `last_sync_at`
  (`services/blizzard_sync.py:558`), while the scheduler speaks of the "last
  successful sync" (`services/sync_scheduler.py:4`); two imports may commit their
  stamps in the other order of their times (`services/blizzard_sync.py:186`);
- "no account is starved" (`repositories/blizzard.py:49`) holds only while fewer
  accounts fail for good than fit in a batch: they keep the oldest stamps.
  `NoStarvation` is checked with one failing account and a batch of two.

Roster:

- "a character can never be left in an illegal combination"
  (`schemas/character.py:68`): two concurrent PATCHes, of the class and of the role,
  leave one; `AnomaliesNeedCompany` says that it takes two;
- the limit and the uniqueness of a name up to case are overrun by concurrent
  requests in the same way, and two rows of one name then end every import with an
  exception (`repositories/character.py:76`);
- a full roster ends the import before the characters it already has are updated
  (`services/blizzard_sync.py:147`).

Ingestion:

- "Never raises for per-document failures" (`knowledge/ingestion.py:106`): a write that the
  server refuses in the first batch makes the run's own row vanish in a silent
  rollback, and its final update raises; when the `fetched_at` of a document that became current
  since the batch was checked cannot be flushed, the commit itself raises, and
  the except clause commits again without a rollback (`:155`), so that the exception
  leaves `ingest()` and nothing is recorded; in a later batch, `documents_written` counts what
  was rolled back;
- "every run is recorded" (`db/models/knowledge.py:148`): the rollback of a failed embedding
  in the first batch takes the audit row along, which is the exception
  `RecordedUnlessForgotten` makes.

Overlay:

- the frame's number is a "Monotonic sequence" (`modules/realtime/domain.py:39`), but
  echoed alerts carry 0; `StreamIsWhole` is about the numbered frames;
- a queue is subscribed and never removed (`modules/realtime/endpoints.py:68`): it grows
  with every event after its connection is gone;
- `close()` leaves the timer's handle set, and a late `onclose` of an old client can show
  "offline" while a new one is connected.

Quests and travel:

- "a quest is never scheduled before something it depends on"
  (`quests/optimizer.py:243`): legs are merged by zone and ordered by travel, so it is
  across zones, and when the prerequisite was itself left out. `PlanIsSound` states
  what does hold;
- `validate()` compares the factions of a quest and its prerequisite only when both
  are restricted, and not through a third;
- the search drops a way of equal cost although convenience decides among equals
  (`navigation/router.py:282`), so that the first route may be less convenient than another
  as fast: only its speed is checked;
- the optimizer looks at neither level nor eligibility, and its second check for a
  missing location is never reached.

Rotation:

- "Execute logic swaps in execute-priority abilities" (`modules/rotation/engine.py:21`):
  the phase only adds a word to the situation, and the warning at `:316` contradicts
  its own condition;
- "talent_hints will flag it" (`modules/rotation/engine.py:159`) is untrue for six of the
  seven abilities that need a talent;
- an area list without an ability for two enemies is not replaced by the
  single-target one: specializations 256, 257 and 258 against two get no suggestion, hence
  the exception in `AlwaysSomethingToPress`.

## What is not modelled

- *Pure functions over game data*: gear, collections, coach, recommendations, reasoning,
  waypoints, parsing. They have no state, and what they compute is weights and text.
- *Floating-point scoring*: retrieval, confidence, distances within a zone.
- *External I/O*: AI provider, knowledge connectors, search.
- *Generated code*: migrations.
- The look-up before insert of `repositories/personalization.py:33` (two first
  requests of one user collide on the unique constraint) and the limiter's fixed window.
- *In modelled components*: registration, password and profile changes write one
  row each (AuthTokens); `get_many` and `get_or_404` wrap `get`, and the delay of
  a retry is left to scheduling (BlizzardClient); `sync_account_collections`
  stores nothing (SyncJobs); a dry run writes nothing, and an
  embedding of another dimension than was asked for, which would fail before the insert of
  the chunks is sent and leave the document without any (`knowledge/vector_store.py:186`),
  is taken not to occur (Ingestion); a character that its owner deletes during a sync
  (SyncJobs; the deletion itself is in Roster); the content of frames, and the alerts that
  `_inbound` still answers after a failed send, which does not cancel it
  (`modules/realtime/endpoints.py:99`; no property sees the difference) (Overlay); the race
  of a character, which the progress never holds, so that it excludes no quest
  (QuestLibrary); listings and statistics (QuestGraph); wording of reasons (RotationAdvisor);
  a character's cached lists, which nothing reads (Roster).

## Plan

1. *Composition of TokenGrant with OAuthLink*, whose rows they share: a disconnect and a
   new link under a refresh are in TokenGrant for one link; several links would show that
   grants do not cross.
2. *Operators* for rank fusion, confidence and the limiter's window, over bounded inputs.
