------------------------------- MODULE SyncJobs -------------------------------
(***************************************************************************)
(* Account synchronization (services/blizzard_sync.py) as several workers  *)
(* - request handlers and the scheduler of each replica - run it against   *)
(* one PostgreSQL database.  A worker owns one session, hence one          *)
(* READ COMMITTED transaction: it sees committed rows and its own, a flush *)
(* that updates a row takes the row's lock until the transaction ends, and *)
(* everything becomes visible at the commit of get_db_session (or of       *)
(* SyncScheduler.run_once), or is rolled back.                             *)
(***************************************************************************)
EXTENDS Naturals, FiniteSets

CONSTANTS Workers, Accounts, Chars, CharsOf,
          MaxCharacters, \* MAX_CHARACTERS_PER_USER
          MaxRuns,      \* bound on the transactions that are begun
          NoWorker, NoAccount, NoChar

ASSUME ConstantsAssumption ==
  /\ CharsOf \in [Accounts -> SUBSET Chars]
  /\ MaxRuns \in Nat
  /\ MaxCharacters \in Nat
  /\ IsFiniteSet(Chars)
  /\ NoWorker \notin Workers
  /\ NoAccount \notin Accounts
  /\ NoChar \notin Chars

Runs == 1 .. MaxRuns
Statuses == {"none", "running", "success", "partial", "failed"}

\* What a request asks for: a sync with or without the import of new
\* characters, an import alone, or the refresh of one character.
Kinds == {"sync", "resync", "import", "character"}

VARIABLES
  \* The committed database.
  jobs,         \* run -> job row
  stamp,        \* account -> {} or {r}: the run whose time last_sync_at holds
  syncError,    \* accounts whose sync_error is set
  known,        \* characters that have a row
  snap,         \* character -> {} or {r}: the run that wrote its snapshot
  \* Row locks: the open transaction that has written the row, if any.
  accountLock, charLock, snapLock,
  \* Each worker's transaction.
  begun,        \* number of transactions begun so far
  pc,           \* next step of the worker
  kind, account, run,
  job,          \* status of the job row in this session ("none": not created)
  stamped,      \* this session has written last_sync_at
  error,        \* what this session has written to sync_error, if anything
  created,      \* characters this session has inserted
  todo,         \* characters left in the current loop
  counted,      \* existing_count: characters of the owner, as counted by this import
  target, plan, \* the character being upserted, and what the lookup decided
  promoted,     \* characters past characters.update in sync_character
  fresh,        \* those of them whose snapshot lookup returned None
  synced, failed, wrote   \* outcomes counted so far, and snapshots written

db    == <<jobs, stamp, syncError, known, snap>>
locks == <<accountLock, charLock, snapLock>>
loop  == <<todo, counted, target, plan, promoted, fresh>>
tally == <<synced, failed, wrote>>
tx    == <<kind, account, run, job, stamped, error, created>>
vars  == <<db, locks, begun, pc, tx, loop, tally>>

NoJob == [status |-> "none", account |-> {}, synced |-> {}, failed |-> {}]
StatusOf(ok, bad) == IF bad = {} THEN "success" ELSE IF ok # {} THEN "partial" ELSE "failed"

Init ==
  /\ jobs = [r \in Runs |-> NoJob]
  /\ stamp = [a \in Accounts |-> {}]
  /\ syncError = {}
  /\ known = {}
  /\ snap = [c \in Chars |-> {}]
  /\ accountLock = [a \in Accounts |-> NoWorker]
  /\ charLock = [c \in Chars |-> NoWorker]
  /\ snapLock = [c \in Chars |-> NoWorker]
  /\ begun = 0
  /\ pc = [w \in Workers |-> "idle"]
  /\ kind = [w \in Workers |-> "sync"]
  /\ account = [w \in Workers |-> NoAccount]
  /\ run = [w \in Workers |-> 0]
  /\ job = [w \in Workers |-> "none"]
  /\ stamped = [w \in Workers |-> FALSE]
  /\ error = [w \in Workers |-> "unwritten"]
  /\ created = [w \in Workers |-> {}]
  /\ todo = [w \in Workers |-> {}]
  /\ counted = [w \in Workers |-> 0]
  /\ target = [w \in Workers |-> NoChar]
  /\ plan = [w \in Workers |-> "none"]
  /\ promoted = [w \in Workers |-> {}]
  /\ fresh = [w \in Workers |-> {}]
  /\ synced = [w \in Workers |-> {}]
  /\ failed = [w \in Workers |-> {}]
  /\ wrote = [w \in Workers |-> {}]

-------------------------------------------------------------------------------
(* Helpers. *)

At(w, step)   == pc[w] = step
GoTo(w, step) == pc' = [pc EXCEPT ![w] = step]

Free(lock, row, w) == lock[row] \in {NoWorker, w}

\* What a SELECT of this session sees: committed rows and its own inserts.
Visible(w) == known \cup created[w]
MyChars(w) == CharsOf[account[w]]

\* The flush of an UPDATE of the account row: waits for the row lock.
LockAccount(w) ==
  /\ Free(accountLock, account[w], w)
  /\ accountLock' = [accountLock EXCEPT ![account[w]] = w]
  /\ UNCHANGED <<charLock, snapLock>>

\* Where an exception takes a transaction: run_account_sync has a handler,
\* the other two requests go straight to the session's rollback.
OnError(w) == IF kind[w] \in {"sync", "resync"} THEN "failing" ELSE "rollback"

-------------------------------------------------------------------------------
(* Starting. *)

\* A request, or the scheduler's next account, opens a session.
Begin(w, k, a) ==
  /\ At(w, "idle")
  /\ begun < MaxRuns
  /\ begun' = begun + 1
  /\ run' = [run EXCEPT ![w] = begun + 1]
  /\ kind' = [kind EXCEPT ![w] = k]
  /\ account' = [account EXCEPT ![w] = a]
  /\ GoTo(w, IF k = "import" THEN "token" ELSE IF k = "character" THEN "pick" ELSE "check")
  /\ UNCHANGED <<db, locks, job, stamped, error, created, loop, tally>>

\* get_running: an unfinished job of the account makes the run refuse to
\* start; otherwise the next statement inserts this run's own job.
CheckRunning(w) ==
  /\ At(w, "check")
  /\ IF \E r \in Runs : account[w] \in jobs[r].account /\ jobs[r].status = "running"
     THEN GoTo(w, "rollback")
     ELSE GoTo(w, "create")
  /\ UNCHANGED <<db, locks, begun, tx, loop, tally>>

\* Mutant: the RUNNING row is committed at once, for progress reports.
CreateJobCommitted(w) ==
  /\ At(w, "create")
  /\ job' = [job EXCEPT ![w] = "running"]
  /\ jobs' = [jobs EXCEPT ![run[w]] = [status |-> "running", account |-> {account[w]},
                                       synced |-> {}, failed |-> {}]]
  /\ GoTo(w, IF kind[w] = "sync" THEN "token" ELSE "list")
  /\ UNCHANGED <<stamp, syncError, known, snap, locks, begun, kind, account, run,
                 stamped, error, created, loop, tally>>

\* jobs.create flushes a RUNNING row, which only this session can see.
CreateJob(w) ==
  /\ At(w, "create")
  /\ job' = [job EXCEPT ![w] = "running"]
  /\ GoTo(w, IF kind[w] = "sync" THEN "token" ELSE "list")
  /\ UNCHANGED <<db, locks, begun, kind, account, run, stamped, error, created, loop, tally>>

-------------------------------------------------------------------------------
(* import_characters. *)

\* get_access_token with a stored token that is still valid.
TokenValid(w) ==
  /\ At(w, "token")
  /\ GoTo(w, "roster")
  /\ UNCHANGED <<db, locks, begun, tx, loop, tally>>

\* get_access_token that refreshes: store_grant writes the account row and
\* clears sync_error ...
TokenRefreshed(w) ==
  /\ At(w, "token")
  /\ LockAccount(w)
  /\ error' = [error EXCEPT ![w] = "cleared"]
  /\ GoTo(w, "roster")
  /\ UNCHANGED <<db, begun, kind, account, run, job, stamped, created, loop, tally>>

\* ... or _deactivate writes the reason there, and AuthenticationError is raised.
TokenRefused(w) ==
  /\ At(w, "token")
  /\ LockAccount(w)
  /\ error' = [error EXCEPT ![w] = "set"]
  /\ GoTo(w, OnError(w))
  /\ UNCHANGED <<db, begun, kind, account, run, job, stamped, created, loop, tally>>

\* The account profile endpoint answers and count_for_owner counts; an empty
\* roster returns at once, without the stamp.
FetchRoster(w) ==
  /\ At(w, "roster")
  /\ \E roster \in SUBSET MyChars(w) :
       /\ todo' = [todo EXCEPT ![w] = roster]
       /\ counted' = [counted EXCEPT ![w] = Cardinality(Visible(w) \cap MyChars(w))]
       /\ GoTo(w, IF roster # {} THEN "upsert"
                  ELSE IF kind[w] = "sync" THEN "list" ELSE "commit")
  /\ UNCHANGED <<db, locks, begun, tx, target, plan, promoted, fresh, tally>>

RosterFails(w) ==
  /\ At(w, "roster")
  /\ GoTo(w, OnError(w))
  /\ UNCHANGED <<db, locks, begun, tx, loop, tally>>

AtLimit(w) == counted[w] >= MaxCharacters

\* One entry of the loop below the roster limit: get_by_identity decides
\* between insert and update.
LookupCharacter(w, c) ==
  /\ At(w, "upsert")
  /\ c \in todo[w]
  /\ ~ AtLimit(w)
  /\ target' = [target EXCEPT ![w] = c]
  /\ plan' = [plan EXCEPT ![w] = IF c \in Visible(w) THEN "update" ELSE "create"]
  /\ GoTo(w, "write")
  /\ UNCHANGED <<db, locks, begun, tx, todo, counted, promoted, fresh, tally>>

\* An entry of an unrecognised class is reported and skipped.
SkipCharacter(w, c) ==
  /\ At(w, "upsert")
  /\ c \in todo[w]
  /\ todo' = [todo EXCEPT ![w] = @ \ {c}]
  /\ UNCHANGED <<db, locks, begun, pc, tx, counted, target, plan, promoted, fresh, tally>>

EndUpsert(w) ==
  /\ target' = [target EXCEPT ![w] = NoChar]
  /\ plan' = [plan EXCEPT ![w] = "none"]
  /\ todo' = [todo EXCEPT ![w] = @ \ {target[w]}]
  /\ GoTo(w, "upsert")
  /\ UNCHANGED <<promoted, fresh>>

\* The flush of an existing character emits an UPDATE if a value changed.
UpdateCharacter(w) ==
  /\ At(w, "write")
  /\ plan[w] = "update"
  /\ \/ UNCHANGED charLock
     \/ Free(charLock, target[w], w) /\ charLock' = [charLock EXCEPT ![target[w]] = w]
  /\ EndUpsert(w)
  /\ UNCHANGED counted
  /\ UNCHANGED <<db, accountLock, snapLock, begun, tx, tally>>

\* Mutant: no unique constraint on the identity.
InsertUnguarded(w) ==
  /\ At(w, "write")
  /\ plan[w] = "create"
  /\ charLock' = [charLock EXCEPT ![target[w]] = w]
  /\ created' = [created EXCEPT ![w] = @ \cup {target[w]}]
  /\ counted' = [counted EXCEPT ![w] = @ + 1]
  /\ EndUpsert(w)
  /\ UNCHANGED <<db, accountLock, snapLock, begun, kind, account, run, job, stamped, error, tally>>

\* The flush of the INSERT waits for another transaction that has inserted the
\* same identity; if that one commits, the unique constraint fails the flush
\* and with it the session.
InsertCharacter(w) ==
  /\ At(w, "write")
  /\ plan[w] = "create"
  /\ Free(charLock, target[w], w)
  /\ IF target[w] \in known
     THEN /\ GoTo(w, "rollback")
          /\ UNCHANGED <<charLock, created, loop>>
     ELSE /\ charLock' = [charLock EXCEPT ![target[w]] = w]
          /\ created' = [created EXCEPT ![w] = @ \cup {target[w]}]
          /\ counted' = [counted EXCEPT ![w] = @ + 1]
          /\ EndUpsert(w)
  /\ UNCHANGED <<db, accountLock, snapLock, begun, kind, account, run, job, stamped, error, tally>>

\* After the loop, or its break at the roster limit: last_sync_at = now,
\* sync_error = None.
StampImport(w) ==
  /\ At(w, "upsert")
  /\ todo[w] = {} \/ AtLimit(w)
  /\ LockAccount(w)
  /\ stamped' = [stamped EXCEPT ![w] = TRUE]
  /\ error' = [error EXCEPT ![w] = "cleared"]
  /\ todo' = [todo EXCEPT ![w] = {}]
  /\ GoTo(w, IF kind[w] = "sync" THEN "list" ELSE "commit")
  /\ UNCHANGED <<db, begun, kind, account, run, job, created, counted, target, plan, promoted, fresh, tally>>

-------------------------------------------------------------------------------
(* run_account_sync: the characters. *)

\* list_for_owner, region-filtered.
ListCharacters(w) ==
  /\ At(w, "list")
  /\ todo' = [todo EXCEPT ![w] = Visible(w) \cap MyChars(w)]
  /\ GoTo(w, "batch")
  /\ UNCHANGED <<db, locks, begun, tx, counted, target, plan, promoted, fresh, tally>>

\* The single-character request: get_owned finds the character.
PickCharacter(w, c) ==
  /\ At(w, "pick")
  /\ c \in known \cap MyChars(w)
  /\ todo' = [todo EXCEPT ![w] = {c}]
  /\ GoTo(w, "batch")
  /\ UNCHANGED <<db, locks, begun, tx, counted, target, plan, promoted, fresh, tally>>

\* ... or does not.
PickNothing(w) ==
  /\ At(w, "pick")
  /\ GoTo(w, "rollback")
  /\ UNCHANGED <<db, locks, begun, tx, loop, tally>>

\* sync_character, after its fetches: characters.update (which takes the row
\* lock only when a promoted field changed) and the lookup of the snapshot.
\* The tasks of one gather interleave, so several characters may be here.
PromoteFields(w, c) ==
  /\ At(w, "batch")
  /\ c \in todo[w] \ promoted[w]
  /\ \E changed \in BOOLEAN :
       IF changed
       THEN Free(charLock, c, w) /\ charLock' = [charLock EXCEPT ![c] = w]
       ELSE UNCHANGED charLock
  /\ promoted' = [promoted EXCEPT ![w] = @ \cup {c}]
  /\ fresh' = [fresh EXCEPT ![w] = IF snap[c] = {} THEN @ \cup {c} ELSE @]
  /\ UNCHANGED <<db, accountLock, snapLock, begun, pc, tx, todo, counted, target, plan, tally>>

\* snapshots.upsert: the INSERT or UPDATE of the snapshot row.  An INSERT
\* whose row another transaction has committed since the lookup breaks the
\* unique constraint, and the session is unusable until its rollback.
WriteSnapshot(w, c) ==
  /\ At(w, "batch")
  /\ c \in todo[w] \cap promoted[w]
  /\ Free(snapLock, c, w)
  /\ IF c \in fresh[w] /\ snap[c] # {}
     THEN /\ GoTo(w, "rollback")
          /\ UNCHANGED <<snapLock, loop, tally>>
     ELSE /\ snapLock' = [snapLock EXCEPT ![c] = w]
          /\ wrote' = [wrote EXCEPT ![w] = @ \cup {c}]
          /\ synced' = [synced EXCEPT ![w] = @ \cup {c}]
          /\ todo' = [todo EXCEPT ![w] = @ \ {c}]
          /\ UNCHANGED <<pc, failed, counted, target, plan, promoted, fresh>>
  /\ UNCHANGED <<db, accountLock, charLock, begun, tx>>

\* Mutant: the failure of one character rolls the shared session back.
CharacterFailsRollsBack(w, c) ==
  /\ At(w, "batch")
  /\ c \in todo[w] \ promoted[w]
  /\ todo' = [todo EXCEPT ![w] = @ \ {c}]
  /\ failed' = [failed EXCEPT ![w] = @ \cup {c}]
  /\ wrote' = [wrote EXCEPT ![w] = {}]
  /\ IF kind[w] = "character" THEN GoTo(w, "rollback") ELSE UNCHANGED pc
  /\ UNCHANGED <<db, locks, begun, tx, counted, target, plan, promoted, fresh, synced>>

\* Every scope failed: NotFoundError before anything was written.
CharacterFails(w, c) ==
  /\ At(w, "batch")
  /\ c \in todo[w] \ promoted[w]
  /\ todo' = [todo EXCEPT ![w] = @ \ {c}]
  /\ failed' = [failed EXCEPT ![w] = @ \cup {c}]
  /\ IF kind[w] = "character" THEN GoTo(w, "rollback") ELSE UNCHANGED pc
  /\ UNCHANGED <<db, locks, begun, tx, counted, target, plan, promoted, fresh, synced, wrote>>

\* Two tasks of the gather flush the shared session at once: the second
\* flush raises and its character counts as failed, but the pending snapshot
\* stays in the session and goes out with the next flush.
CharacterCollides(w, c) ==
  /\ At(w, "batch")
  /\ kind[w] # "character"
  /\ c \in todo[w] \cap promoted[w]
  /\ \E d \in promoted[w] : d # c
  /\ Free(snapLock, c, w)
  /\ IF c \in fresh[w] /\ snap[c] # {}
     THEN /\ GoTo(w, "rollback")
          /\ UNCHANGED <<snapLock, loop, tally>>
     ELSE /\ snapLock' = [snapLock EXCEPT ![c] = w]
          /\ wrote' = [wrote EXCEPT ![w] = @ \cup {c}]
          /\ failed' = [failed EXCEPT ![w] = @ \cup {c}]
          /\ todo' = [todo EXCEPT ![w] = @ \ {c}]
          /\ UNCHANGED <<pc, synced, counted, target, plan, promoted, fresh>>
  /\ UNCHANGED <<db, accountLock, charLock, begun, tx>>

\* Mutant: the finished job is committed before the account is stamped.
FinishJobCommits(w) ==
  /\ At(w, "batch")
  /\ todo[w] = {}
  /\ IF kind[w] = "character"
     THEN GoTo(w, "commit") /\ UNCHANGED <<job, jobs>>
     ELSE /\ job' = [job EXCEPT ![w] = StatusOf(synced[w], failed[w])]
          /\ jobs' = [jobs EXCEPT ![run[w]] =
                        [status |-> StatusOf(synced[w], failed[w]), account |-> {account[w]},
                         synced |-> synced[w], failed |-> failed[w]]]
          /\ GoTo(w, "stamp")
  /\ UNCHANGED <<stamp, syncError, known, snap, locks, begun, kind, account, run,
                 stamped, error, created, loop, tally>>

\* All outcomes are in: the job is updated with the status and the counters.
FinishJob(w) ==
  /\ At(w, "batch")
  /\ todo[w] = {}
  /\ IF kind[w] = "character"
     THEN GoTo(w, "commit") /\ UNCHANGED job
     ELSE /\ job' = [job EXCEPT ![w] = StatusOf(synced[w], failed[w])]
          /\ GoTo(w, "stamp")
  /\ UNCHANGED <<db, locks, begun, kind, account, run, stamped, error, created, loop, tally>>

\* accounts.update(last_sync_at = now, sync_error = None), whatever the status.
StampAccount(w) ==
  /\ At(w, "stamp")
  /\ LockAccount(w)
  /\ stamped' = [stamped EXCEPT ![w] = TRUE]
  /\ error' = [error EXCEPT ![w] = "cleared"]
  /\ GoTo(w, "commit")
  /\ UNCHANGED <<db, begun, kind, account, run, job, created, loop, tally>>

\* The except clause: the FAILED job and sync_error are flushed, then raise.
RecordFailure(w) ==
  /\ At(w, "failing")
  /\ LockAccount(w)
  /\ job' = [job EXCEPT ![w] = "failed"]
  /\ error' = [error EXCEPT ![w] = "set"]
  /\ GoTo(w, "rollback")
  /\ UNCHANGED <<db, begun, kind, account, run, stamped, created, loop, tally>>

-------------------------------------------------------------------------------
(* The end of a transaction. *)

Unlock(lock, w) == [row \in DOMAIN lock |-> IF lock[row] = w THEN NoWorker ELSE lock[row]]

\* The session is closed; nothing of it survives.
Close(w) ==
  /\ GoTo(w, "idle")
  /\ accountLock' = Unlock(accountLock, w)
  /\ charLock' = Unlock(charLock, w)
  /\ snapLock' = Unlock(snapLock, w)
  /\ account' = [account EXCEPT ![w] = NoAccount]
  /\ run' = [run EXCEPT ![w] = 0]
  /\ kind' = [kind EXCEPT ![w] = "sync"]
  /\ job' = [job EXCEPT ![w] = "none"]
  /\ stamped' = [stamped EXCEPT ![w] = FALSE]
  /\ error' = [error EXCEPT ![w] = "unwritten"]
  /\ created' = [created EXCEPT ![w] = {}]
  /\ todo' = [todo EXCEPT ![w] = {}]
  /\ counted' = [counted EXCEPT ![w] = 0]
  /\ target' = [target EXCEPT ![w] = NoChar]
  /\ plan' = [plan EXCEPT ![w] = "none"]
  /\ promoted' = [promoted EXCEPT ![w] = {}]
  /\ fresh' = [fresh EXCEPT ![w] = {}]
  /\ synced' = [synced EXCEPT ![w] = {}]
  /\ failed' = [failed EXCEPT ![w] = {}]
  /\ wrote' = [wrote EXCEPT ![w] = {}]
  /\ UNCHANGED begun

\* session.commit(): every write of the session becomes visible at once.
Publish(w) ==
  /\ jobs' = IF job[w] = "none" THEN jobs
             ELSE [jobs EXCEPT ![run[w]] = [status |-> job[w], account |-> {account[w]},
                                            synced |-> synced[w], failed |-> failed[w]]]
  /\ stamp' = IF stamped[w] THEN [stamp EXCEPT ![account[w]] = {run[w]}] ELSE stamp
  /\ syncError' = IF error[w] = "set" THEN syncError \cup {account[w]}
                  ELSE IF error[w] = "cleared" THEN syncError \ {account[w]} ELSE syncError
  /\ known' = known \cup created[w]
  /\ snap' = [c \in Chars |-> IF c \in wrote[w] THEN {run[w]} ELSE snap[c]]

Commit(w) ==
  /\ At(w, "commit")
  /\ Publish(w)
  /\ Close(w)

\* Mutant: the session is handed back to the pool without a rollback.
RollbackSkipped(w) ==
  /\ At(w, "rollback")
  /\ GoTo(w, "idle")
  /\ UNCHANGED <<db, locks, begun, tx, loop, tally>>

\* get_db_session and run_once roll back on any exception.
Rollback(w) ==
  /\ At(w, "rollback")
  /\ Close(w)
  /\ UNCHANGED db

\* The process dies or the request is cancelled: the connection drops and
\* PostgreSQL rolls the transaction back.
Crash(w) ==
  /\ ~ At(w, "idle")
  /\ Close(w)
  /\ UNCHANGED db

\* The workers whose transaction the next flush of w has to wait for.
Blockers(w) ==
  (CASE pc[w] \in {"stamp", "failing"} -> {accountLock[account[w]]}
     [] pc[w] = "upsert" -> IF todo[w] = {} \/ AtLimit(w) THEN {accountLock[account[w]]} ELSE {}
     [] pc[w] = "write" -> {charLock[target[w]]}
     [] pc[w] = "batch" -> {charLock[c] : c \in todo[w] \ promoted[w]}
                           \cup {snapLock[c] : c \in todo[w] \cap promoted[w]}
     [] OTHER -> {}) \ {NoWorker, w}

\* PostgreSQL's deadlock detector fails one statement of a cycle of waiters;
\* the exception reaches the session as a failed flush.
DeadlockAbort(w) ==
  /\ \E cycle \in SUBSET Workers : /\ w \in cycle
                                   /\ \A v \in cycle : Blockers(v) \cap cycle # {}
  /\ GoTo(w, "rollback")
  /\ UNCHANGED <<db, locks, begun, tx, loop, tally>>

-------------------------------------------------------------------------------

Step(w) ==
  \/ CheckRunning(w) \/ CreateJob(w)
  \/ TokenValid(w) \/ TokenRefreshed(w) \/ TokenRefused(w)
  \/ FetchRoster(w) \/ RosterFails(w)
  \/ \E c \in Chars : LookupCharacter(w, c) \/ SkipCharacter(w, c)
  \/ UpdateCharacter(w) \/ InsertCharacter(w) \/ StampImport(w)
  \/ ListCharacters(w) \/ PickNothing(w)
  \/ \E c \in Chars : PickCharacter(w, c) \/ PromoteFields(w, c) \/ WriteSnapshot(w, c)
                      \/ CharacterFails(w, c) \/ CharacterCollides(w, c)
  \/ FinishJob(w) \/ StampAccount(w) \/ RecordFailure(w)
  \/ Commit(w) \/ Rollback(w)
  \/ DeadlockAbort(w)

Next == \E w \in Workers : \/ \E k \in Kinds, a \in Accounts : Begin(w, k, a)
                           \/ Step(w)
                           \/ Crash(w)

\* Every await of a transaction ends: HTTP calls have timeouts, the database
\* answers or fails, and its deadlock detector runs.  Requests need not come.
Fairness == \A w \in Workers : WF_vars(Step(w))

Spec == Init /\ [][Next]_vars
FairSpec == Spec /\ Fairness

-------------------------------------------------------------------------------
(* Properties. *)

TypeOK ==
  /\ jobs \in [Runs -> [status : Statuses, account : SUBSET Accounts,
                        synced : SUBSET Chars, failed : SUBSET Chars]]
  /\ stamp \in [Accounts -> SUBSET Runs]
  /\ syncError \in SUBSET Accounts
  /\ known \in SUBSET Chars
  /\ snap \in [Chars -> SUBSET Runs]
  /\ accountLock \in [Accounts -> Workers \cup {NoWorker}]
  /\ charLock \in [Chars -> Workers \cup {NoWorker}]
  /\ snapLock \in [Chars -> Workers \cup {NoWorker}]
  /\ begun \in 0 .. MaxRuns
  /\ pc \in [Workers -> {"idle", "check", "create", "token", "roster", "upsert", "write", "list",
                          "pick", "batch", "stamp", "commit", "failing", "rollback"}]
  /\ kind \in [Workers -> Kinds]
  /\ account \in [Workers -> Accounts \cup {NoAccount}]
  /\ run \in [Workers -> 0 .. MaxRuns]
  /\ job \in [Workers -> Statuses]
  /\ stamped \in [Workers -> BOOLEAN]
  /\ error \in [Workers -> {"unwritten", "cleared", "set"}]
  /\ created \in [Workers -> SUBSET Chars]
  /\ todo \in [Workers -> SUBSET Chars]
  /\ counted \in [Workers -> Nat]
  /\ target \in [Workers -> Chars \cup {NoChar}]
  /\ plan \in [Workers -> {"none", "create", "update"}]
  /\ promoted \in [Workers -> SUBSET Chars]
  /\ fresh \in [Workers -> SUBSET Chars]
  /\ synced \in [Workers -> SUBSET Chars]
  /\ failed \in [Workers -> SUBSET Chars]
  /\ wrote \in [Workers -> SUBSET Chars]

\* No reader ever meets an unfinished job: a run that dies at any step leaves
\* no RUNNING row behind, so get_running cannot refuse the account forever.
NoUnfinishedJob == \A r \in Runs : jobs[r].status # "running"

\* A character that a committed job reports as synced has a row and a
\* snapshot, whatever failed beside it in the same gather.
SyncedHasSnapshot ==
  \A r \in Runs : \A c \in jobs[r].synced : c \in known /\ snap[c] # {}

\* Two open transactions never hold uncommitted writes of the same row, and a
\* character being inserted has no committed row: imports of one roster by two
\* workers at once cannot produce a duplicate or overwrite each other unseen.
IsolatedWrites ==
  \A v, w \in Workers :
    /\ created[w] \cap known = {}
    /\ v # w => /\ created[v] \cap created[w] = {}
               /\ wrote[v] \cap wrote[w] = {}
               /\ ~ (stamped[v] /\ stamped[w] /\ account[v] = account[w])

\* Whatever fails, every transaction ends and gives its locks back: a run that
\* waits for another's rows, even in a cycle, is never stuck.
EveryTransactionEnds == \A w \in Workers : ~ At(w, "idle") ~> At(w, "idle")

\* To a reader of the database every transaction is a single step or nothing.
Atomic == INSTANCE AtomicSync
AtomicPublication == Atomic!PSpec

\* What the docstring of run_account_sync and the 409 of POST /sync say: an
\* account has at most one synchronization past the check at a time.
AtMostOneRunPerAccount ==
  \A v, w \in Workers :
    v # w /\ job[v] = "running" /\ job[w] = "running" => account[v] # account[w]

===============================================================================
