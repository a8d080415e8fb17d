------------------------------ MODULE AtomicSync ------------------------------
(***************************************************************************)
(* What account synchronization promises to every reader of the database:  *)
(* the job, the account's stamp, the roster and the snapshots change in    *)
(* one step per transaction, and that step is one of the three below.      *)
(* Nothing of a run that did not commit is ever visible.                   *)
(***************************************************************************)
EXTENDS FiniteSets

CONSTANTS Accounts,    \* linked Battle.net accounts
          Chars,       \* characters (identities) that an import can bring in
          CharsOf,     \* [Accounts -> SUBSET Chars]
          Runs         \* identities of synchronization transactions

VARIABLES jobs,        \* run -> its committed job row (or a row with status "none")
          stamp,       \* account -> set of runs: the one that wrote last_sync_at, if any
          known,       \* characters that have a committed row
          snap         \* character -> set of runs: the writer of its snapshot, if any

pvars == <<jobs, stamp, known, snap>>

NoJob == [status |-> "none", account |-> {}, synced |-> {}, failed |-> {}]

\* The status run_account_sync gives a finished run.
StatusOf(ok, bad) == IF bad = {} THEN "success" ELSE IF ok # {} THEN "partial" ELSE "failed"

PInit == /\ jobs = [r \in Runs |-> NoJob]
         /\ stamp = [a \in Accounts |-> {}]
         /\ known = {}
         /\ snap = [c \in Chars |-> {}]

\* A whole account sync: the finished job, its stamp, and a snapshot for at
\* least every character the job reports as synced.
PublishSync(r, a) ==
  \E ok, bad, wrote, new \in SUBSET CharsOf[a] :
    /\ ok \cap bad = {}
    /\ ok \subseteq wrote
    /\ wrote \subseteq ok \cup bad
    /\ jobs[r].status = "none"
    /\ jobs' = [jobs EXCEPT ![r] = [status |-> StatusOf(ok, bad), account |-> {a},
                                    synced |-> ok, failed |-> bad]]
    /\ stamp' = [stamp EXCEPT ![a] = {r}]
    /\ known' = known \cup new
    /\ snap' = [c \in Chars |-> IF c \in wrote THEN {r} ELSE snap[c]]

\* An import: new characters and the stamp (none when the roster is empty).
PublishImport(r, a) ==
  \E new \in SUBSET CharsOf[a] :
    /\ stamp' = [stamp EXCEPT ![a] = {r}]
    /\ known' = known \cup new
    /\ UNCHANGED <<jobs, snap>>

\* One character refreshed on request: its snapshot alone.
PublishCharacter(r, c) ==
  /\ c \in known
  /\ snap' = [snap EXCEPT ![c] = {r}]
  /\ UNCHANGED <<jobs, stamp, known>>

PNext == \E r \in Runs : \/ \E a \in Accounts : PublishSync(r, a) \/ PublishImport(r, a)
                         \/ \E c \in Chars : PublishCharacter(r, c)

PSpec == PInit /\ [][PNext]_pvars
===============================================================================
