----------------------------- MODULE SyncScheduler ----------------------------
(***************************************************************************)
(* The background scheduler (services/sync_scheduler.py): replicas that    *)
(* sweep the stale Battle.net accounts, one at a time by way of a Redis    *)
(* key set with NX and a time to live, and deleted without looking at its  *)
(* owner.  Each account is synchronized in a session of its own; what a    *)
(* run does inside is module SyncJobs, here it succeeds or fails.          *)
(*                                                                         *)
(* last_sync_at appears as the order it puts on the accounts: older holds  *)
(* <<b, a>> when b's stamp is before a's, NULL being before any stamp.     *)
(***************************************************************************)
EXTENDS Naturals, FiniteSets

CONSTANTS Replicas,
          Linkable,     \* the Battle.net accounts that may be linked
          Failing,      \* accounts whose every sync fails, e.g. a revoked grant
          BatchSize,    \* SYNC_BATCH_SIZE
          LockTTL,      \* the key's time to live, in ticks
          MaxEvents,    \* bound on crashes, shutdowns, lost Redis replies, overlong sweeps and new links
          NoReplica

ASSUME SchedulerAssumption ==
  /\ Failing \subseteq Linkable
  /\ BatchSize \in Nat \ {0}
  /\ LockTTL \in Nat \ {0}
  /\ MaxEvents \in Nat
  /\ NoReplica \notin Replicas

VARIABLES
  lock,      \* the replica whose value the Redis key holds
  ttl,       \* what is left of the key's time to live
  stage,     \* step of each replica's loop
  age,       \* ticks since the replica's sweep began, LockTTL standing for more
  batch,     \* accounts the sweep still has to visit
  current,   \* {} or {a}: the account being synchronized
  linked,    \* active accounts with a refresh token
  stale,     \* accounts past SYNC_STALE_AFTER_HOURS, or never synced
  older,     \* the order of last_sync_at
  events,    \* crashes, shutdowns, lost replies, overlong sweeps and new links so far
  overran    \* since a moment when nobody swept, a sweep has outlived its key

redis == <<lock, ttl>>
rows  == <<linked, stale, older>>
sweepVars  == <<redis, stage, age, batch, current, rows, events, overran>>

\* Between the claim of the lock and its release.
Sweeping(r) == stage[r] \in {"list", "visit", "syncing", "release"}

SweepInit ==
  /\ lock = NoReplica
  /\ ttl = 0
  /\ stage = [r \in Replicas |-> "off"]
  /\ age = [r \in Replicas |-> 0]
  /\ batch = [r \in Replicas |-> {}]
  /\ current = [r \in Replicas |-> {}]
  /\ linked \in SUBSET Linkable
  /\ stale = Linkable
  /\ older = {}
  /\ events = 0
  /\ overran = FALSE

-------------------------------------------------------------------------------
(* The loop of one replica. *)

Enter(r, step) == stage' = [stage EXCEPT ![r] = step]

\* start: creates the task, which first sleeps.
Start(r) ==
  /\ stage[r] = "off"
  /\ Enter(r, "sleep")
  /\ UNCHANGED <<redis, age, batch, current, rows, events, overran>>

\* The stagger or the interval has passed: run_once.
WakeUp(r) ==
  /\ stage[r] = "sleep"
  /\ Enter(r, "acquire")
  /\ UNCHANGED <<redis, age, batch, current, rows, events, overran>>

\* Mutant: SET without NX.
SetLockAlways(r) == lock' = r /\ ttl' = LockTTL

\* SET key value NX EX ttl: an expired key is gone, a live one refuses.
SetLock(r) == lock = NoReplica /\ lock' = r /\ ttl' = LockTTL

Claim(r) ==
  /\ stage[r] = "acquire"
  /\ SetLock(r)
  /\ Enter(r, "list")
  /\ age' = [age EXCEPT ![r] = 0]
  /\ UNCHANGED <<batch, current, rows, events, overran>>

\* Mutant: SET NX and then EXPIRE, whether or not the key was set.
SkipRenewing(r) ==
  /\ stage[r] = "acquire"
  /\ lock # NoReplica
  /\ ttl' = LockTTL
  /\ Enter(r, "sleep")
  /\ UNCHANGED <<lock, age, batch, current, rows, events, overran>>

\* Another replica holds the lock, or Redis cannot be reached: no sweep.
SkipSweep(r) ==
  /\ stage[r] = "acquire"
  /\ \/ lock # NoReplica /\ UNCHANGED events
     \/ events < MaxEvents /\ events' = events + 1
  /\ Enter(r, "sleep")
  /\ UNCHANGED <<redis, age, batch, current, rows, overran>>

\* The SET is executed but its reply is lost, or the task is cancelled before
\* it returns: nobody sweeps, and nobody releases the key.
ClaimLost(r) ==
  /\ stage[r] = "acquire"
  /\ events < MaxEvents
  /\ events' = events + 1
  /\ SetLock(r)
  /\ \E step \in {"sleep", "off"} : Enter(r, step)
  /\ UNCHANGED <<age, batch, current, rows, overran>>

\* list_stale: the BatchSize oldest of the accounts that are due.
Due == linked \cap stale

\* Mutant: no order.
AnyOrder(S) ==
  /\ S \subseteq Due
  /\ Cardinality(S) = (IF Cardinality(Due) < BatchSize THEN Cardinality(Due) ELSE BatchSize)

Oldest(S) ==
  /\ S \subseteq Due
  /\ Cardinality(S) = (IF Cardinality(Due) < BatchSize THEN Cardinality(Due) ELSE BatchSize)
  /\ \A a \in S, b \in Due : <<b, a>> \in older => b \in S

ListStale(r) ==
  /\ stage[r] = "list"
  /\ \E S \in SUBSET Linkable : Oldest(S) /\ batch' = [batch EXCEPT ![r] = S]
  /\ Enter(r, "visit")
  /\ UNCHANGED <<redis, age, current, rows, events, overran>>

\* The next account of the batch is reloaded; one that was unlinked since the
\* listing is passed over.
Visit(r, a) ==
  /\ stage[r] = "visit"
  /\ a \in batch[r]
  /\ batch' = [batch EXCEPT ![r] = @ \ {a}]
  /\ IF a \in linked
     THEN Enter(r, "syncing") /\ current' = [current EXCEPT ![r] = {a}]
     ELSE UNCHANGED <<stage, current>>
  /\ UNCHANGED <<redis, age, rows, events, overran>>

\* last_sync_at = now.
Stamp(a) ==
  /\ stale' = stale \ {a}
  /\ older' = {p \in older : p[1] # a} \cup {<<b, a>> : b \in Linkable \ {a}}
  /\ UNCHANGED linked

\* run_account_sync and its commit succeed; they cannot on a row that was
\* deleted meanwhile.
SyncSucceeds(r, a) ==
  /\ stage[r] = "syncing"
  /\ a \in current[r]
  /\ a \in linked \ Failing
  /\ Stamp(a)
  /\ Enter(r, "visit")
  /\ current' = [current EXCEPT ![r] = {}]
  /\ UNCHANGED <<redis, age, batch, events, overran>>

\* It raises: the session is rolled back, last_sync_at included, and the
\* sweep goes on with the next account.
SyncFails(r, a) ==
  /\ stage[r] = "syncing"
  /\ a \in current[r]
  /\ Enter(r, "visit")
  /\ current' = [current EXCEPT ![r] = {}]
  /\ UNCHANGED <<redis, age, batch, rows, events, overran>>

\* The batch is done, or the listing raised: the finally clause comes next.
EndSweep(r) ==
  /\ \/ stage[r] = "visit" /\ batch[r] = {}
     \/ stage[r] = "list"
  /\ Enter(r, "release")
  /\ UNCHANGED <<redis, age, batch, current, rows, events, overran>>

\* DEL key, whoever's value it holds.
Delete == lock' = NoReplica /\ ttl' = 0

\* r's sweep is over.
Leave(r) == overran' = (overran /\ \E s \in Replicas \ {r} : Sweeping(s))

\* _release_lock; a Redis error is logged and leaves the key to expire.
Release(r) ==
  /\ stage[r] = "release"
  /\ \/ Delete /\ UNCHANGED events
     \/ events < MaxEvents /\ events' = events + 1 /\ UNCHANGED redis
  /\ Enter(r, "sleep")
  /\ Leave(r)
  /\ age' = [age EXCEPT ![r] = 0]
  /\ UNCHANGED <<batch, current, rows>>

\* stop: the cancelled task unwinds; a sweep it interrupts runs its finally
\* clause, so the key is deleted then too.
Stop(r) ==
  /\ stage[r] # "off"
  /\ events < MaxEvents
  /\ events' = events + 1
  /\ IF Sweeping(r) THEN Delete ELSE UNCHANGED redis
  /\ Enter(r, "off")
  /\ Leave(r)
  /\ age' = [age EXCEPT ![r] = 0]
  /\ batch' = [batch EXCEPT ![r] = {}]
  /\ current' = [current EXCEPT ![r] = {}]
  /\ UNCHANGED rows

\* The process dies: its key stays.
Die(r) ==
  /\ stage[r] # "off"
  /\ events < MaxEvents
  /\ events' = events + 1
  /\ Enter(r, "off")
  /\ Leave(r)
  /\ age' = [age EXCEPT ![r] = 0]
  /\ batch' = [batch EXCEPT ![r] = {}]
  /\ current' = [current EXCEPT ![r] = {}]
  /\ UNCHANGED <<redis, rows>>

-------------------------------------------------------------------------------
(* Around the scheduler. *)

\* Time passes, for the key and for the sweeps, which may outlive it.
Older(r) == IF Sweeping(r) /\ age[r] < LockTTL THEN age[r] + 1 ELSE age[r]
Overruns == \E r \in Replicas : Older(r) = LockTTL /\ age[r] # LockTTL

Tick ==
  /\ lock # NoReplica \/ \E r \in Replicas : Older(r) # age[r]
  /\ ttl' = IF ttl = 0 THEN 0 ELSE ttl - 1
  /\ lock' = IF ttl = 1 THEN NoReplica ELSE lock
  /\ age' = [r \in Replicas |-> Older(r)]
  /\ overran' = (overran \/ Overruns)
  /\ IF Overruns THEN events < MaxEvents /\ events' = events + 1 ELSE UNCHANGED events
  /\ UNCHANGED <<stage, batch, current, rows>>

\* An account falls due again; the ones stamped before it already have.
BecomeStale(a) ==
  /\ a \notin stale
  /\ \A b \in Linkable : <<b, a>> \in older => b \in stale
  /\ stale' = stale \cup {a}
  /\ UNCHANGED <<redis, stage, age, batch, current, linked, older, events, overran>>

\* POST /sync or /import stamps the account without the lock.
UserSync(a) ==
  /\ a \in linked \ Failing
  /\ Stamp(a)
  /\ UNCHANGED <<redis, stage, age, batch, current, events, overran>>

\* DELETE /accounts deletes the row.  A later link makes a new one, with the
\* stamp NULL, which is where the order keeps an account without a row.
Disconnect(a) ==
  /\ a \in linked
  /\ linked' = linked \ {a}
  /\ stale' = stale \cup {a}
  /\ LET dated == {p[2] : p \in older} \ {a}
     IN  older' = {p \in older : a \notin {p[1], p[2]}} \cup {<<a, b>> : b \in dated}
  /\ UNCHANGED <<redis, stage, age, batch, current, events, overran>>

\* The OAuth callback stores an account and its grant.
Link(a) ==
  /\ a \notin linked
  /\ events < MaxEvents
  /\ events' = events + 1
  /\ linked' = linked \cup {a}
  /\ UNCHANGED <<redis, stage, age, batch, current, stale, older, overran>>

Loop(r) == \/ Start(r) \/ WakeUp(r) \/ Claim(r) \/ SkipSweep(r) \/ ListStale(r) \/ EndSweep(r)
           \/ Release(r)
           \/ \E a \in Linkable : Visit(r, a) \/ SyncSucceeds(r, a) \/ SyncFails(r, a)

SweepNext == \/ \E r \in Replicas : Loop(r) \/ ClaimLost(r) \/ Stop(r) \/ Die(r)
        \/ \E a \in Linkable : BecomeStale(a) \/ UserSync(a) \/ Disconnect(a) \/ Link(a)
        \/ Tick

\* The loop of a started replica goes on and time passes.  Claims do not lose
\* their reply, listings do not raise and the syncs of a healthy account do not
\* fail every single time.
SweepFairness ==
  /\ WF_sweepVars(Tick)
  /\ \A r \in Replicas : WF_sweepVars(Loop(r))
  /\ SF_sweepVars(\E r \in Replicas : Claim(r))
  /\ SF_sweepVars(\E r \in Replicas : ListStale(r))
  /\ \A a \in Linkable \ Failing : SF_sweepVars(\E r \in Replicas : SyncSucceeds(r, a))

SweepSpec == SweepInit /\ [][SweepNext]_sweepVars
SweepFairSpec == SweepSpec /\ SweepFairness

-------------------------------------------------------------------------------
(* Properties. *)

SweepTypeOK ==
  /\ lock \in Replicas \cup {NoReplica}
  /\ ttl \in 0 .. LockTTL
  /\ lock = NoReplica <=> ttl = 0
  /\ stage \in [Replicas -> {"off", "sleep", "acquire", "list", "visit", "syncing", "release"}]
  /\ age \in [Replicas -> 0 .. LockTTL]
  /\ batch \in [Replicas -> SUBSET Linkable]
  /\ current \in [Replicas -> SUBSET Linkable]
  /\ linked \in SUBSET Linkable
  /\ stale \in SUBSET Linkable
  /\ older \in SUBSET (Linkable \X Linkable)
  /\ events \in 0 .. MaxEvents
  /\ overran \in BOOLEAN

\* Only one replica performs a sweep, whatever crashes, stops and lost replies
\* happened before, as long as no sweep outlives its key.  One that does lets a
\* second in, and deletes that one's key when it ends, which lets in a third; this
\* goes on as long as sweeps overlap and is over at the first moment without one.
OneSweep == (\E r, s \in Replicas : r # s /\ Sweeping(r) /\ Sweeping(s)) => overran

\* A key left behind by a replica that died, was cancelled inside the claim or
\* could not reach Redis never blocks the sweeps for good.
LockIsFreed == []<>(lock = NoReplica)

\* No account is starved: one that can be synchronized and is due gets
\* synchronized, or is unlinked.  It takes a batch with room beside the
\* failing accounts, which stay the oldest.
NoStarvation == \A a \in Linkable \ Failing : []<>(a \notin Due)
===============================================================================
