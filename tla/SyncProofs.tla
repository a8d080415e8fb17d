------------------------------ MODULE SyncProofs ------------------------------
(***************************************************************************)
(* What TLAPS proves of the scheduler and of the transactions it and the   *)
(* requests run, for any replicas, workers, accounts, characters and       *)
(* bounds.                                                                 *)
(*                                                                         *)
(* SyncScheduler first.  Until a sweep outlives its key, a sweep holds the *)
(* key, and what is left of the key's time to live is what the sweep has   *)
(* not used of it; it is so again from the first moment without a sweep.   *)
(***************************************************************************)
EXTENDS SyncScheduler, SyncJobs, FiniteSetTheorems, TLAPS

Holds(r) == Sweeping(r) => lock = r /\ ttl + age[r] = LockTTL /\ age[r] < LockTTL
SweepHoldsLock == \A r \in Replicas : Holds(r)

SweepInv == SweepTypeOK /\ (~ overran => SweepHoldsLock)

-------------------------------------------------------------------------------
(* Type correctness. *)

Steps == {"off", "sleep", "acquire", "list", "visit", "syncing", "release"}

LEMMA SweepInitType == SweepInit => SweepTypeOK
<1> SUFFICES ASSUME SweepInit
             PROVE  SweepTypeOK
  OBVIOUS
<1>1. lock \in Replicas \cup {NoReplica} /\ ttl \in 0 .. LockTTL /\ (lock = NoReplica <=> ttl = 0)
  BY SchedulerAssumption DEF SweepInit
<1>2. age \in [Replicas -> 0 .. LockTTL] /\ events \in 0 .. MaxEvents
  BY SchedulerAssumption DEF SweepInit
<1> QED
  BY <1>1, <1>2 DEF SweepInit, SweepTypeOK

\* Setting the key keeps it well formed.
LEMMA SetLockType ==
  ASSUME NEW r \in Replicas, SetLock(r)
  PROVE  /\ lock' \in Replicas \cup {NoReplica}
         /\ ttl' \in 0 .. LockTTL
         /\ lock' = NoReplica <=> ttl' = 0
  BY SchedulerAssumption DEF SetLock

\* So does deleting it.
LEMMA DeleteType ==
  ASSUME Delete
  PROVE  /\ lock' \in Replicas \cup {NoReplica}
         /\ ttl' \in 0 .. LockTTL
         /\ lock' = NoReplica <=> ttl' = 0
  BY SchedulerAssumption DEF Delete

\* A stamp keeps the rows well formed.
LEMMA StampType ==
  ASSUME SweepTypeOK, NEW a \in Linkable, Stamp(a)
  PROVE  /\ linked' \in SUBSET Linkable
         /\ stale' \in SUBSET Linkable
         /\ older' \in SUBSET (Linkable \X Linkable)
  BY DEF SweepTypeOK, Stamp

\* Every step of a replica's loop keeps the state well formed.
LEMMA LoopType ==
  ASSUME SweepTypeOK, NEW r \in Replicas, Loop(r)
  PROVE  SweepTypeOK'
<1> USE SchedulerAssumption
<1>1. CASE Start(r)
  BY <1>1 DEF SweepTypeOK, Start, Enter, redis, rows
<1>2. CASE WakeUp(r)
  BY <1>2 DEF SweepTypeOK, WakeUp, Enter, redis, rows
<1>3. CASE Claim(r)
  <2>1. SetLock(r)
    BY <1>3 DEF Claim
  <2> QED
    BY <1>3, <2>1, SetLockType DEF SweepTypeOK, Claim, Enter, rows
<1>4. CASE SkipSweep(r)
  <2>1. events' \in 0 .. MaxEvents
    BY <1>4 DEF SweepTypeOK, SkipSweep
  <2> QED
    BY <1>4, <2>1 DEF SweepTypeOK, SkipSweep, Enter, redis, rows
<1>5. CASE ListStale(r)
  BY <1>5 DEF SweepTypeOK, ListStale, Enter, redis, rows
<1>6. CASE EndSweep(r)
  BY <1>6 DEF SweepTypeOK, EndSweep, Enter, redis, rows
<1>7. CASE Release(r)
  <2>1. /\ lock' \in Replicas \cup {NoReplica}
        /\ ttl' \in 0 .. LockTTL
        /\ lock' = NoReplica <=> ttl' = 0
    BY <1>7, DeleteType DEF SweepTypeOK, Release, redis
  <2>2. events' \in 0 .. MaxEvents
    BY <1>7 DEF SweepTypeOK, Release
  <2>3. overran' \in BOOLEAN
    BY <1>7 DEF SweepTypeOK, Release, Leave
  <2> QED
    BY <1>7, <2>1, <2>2, <2>3 DEF SweepTypeOK, Release, Enter, rows
<1>8. ASSUME NEW a \in Linkable, Visit(r, a)
      PROVE  SweepTypeOK'
  <2>1. stage' \in [Replicas -> Steps] /\ current' \in [Replicas -> SUBSET Linkable]
    BY <1>8 DEF SweepTypeOK, Visit, Enter, Steps
  <2> QED
    BY <1>8, <2>1 DEF SweepTypeOK, Visit, Steps, redis, rows
<1>9. ASSUME NEW a \in Linkable, SyncSucceeds(r, a)
      PROVE  SweepTypeOK'
  <2>1. Stamp(a)
    BY <1>9 DEF SyncSucceeds
  <2> QED
    BY <1>9, <2>1, StampType DEF SweepTypeOK, SyncSucceeds, Enter, redis
<1>10. ASSUME NEW a \in Linkable, SyncFails(r, a)
       PROVE  SweepTypeOK'
  BY <1>10 DEF SweepTypeOK, SyncFails, Enter, redis, rows
<1> QED
  BY <1>1, <1>2, <1>3, <1>4, <1>5, <1>6, <1>7, <1>8, <1>9, <1>10 DEF Loop

\* So does every other step, and a stutter.
LEMMA SweepNextType ==
  ASSUME SweepTypeOK, [SweepNext]_sweepVars
  PROVE  SweepTypeOK'
<1> USE SchedulerAssumption
<1>1. CASE UNCHANGED sweepVars
  BY <1>1 DEF SweepTypeOK, sweepVars, redis, rows
<1>2. ASSUME NEW r \in Replicas, ClaimLost(r)
      PROVE  SweepTypeOK'
  <2>1. SetLock(r)
    BY <1>2 DEF ClaimLost
  <2>2. events' \in 0 .. MaxEvents
    BY <1>2 DEF SweepTypeOK, ClaimLost
  <2>3. stage' \in [Replicas -> Steps]
    BY <1>2 DEF SweepTypeOK, ClaimLost, Enter, Steps
  <2> QED
    BY <1>2, <2>1, <2>2, <2>3, SetLockType DEF SweepTypeOK, ClaimLost, Steps, rows
<1>3. ASSUME NEW r \in Replicas, Stop(r)
      PROVE  SweepTypeOK'
  <2>1. /\ lock' \in Replicas \cup {NoReplica}
        /\ ttl' \in 0 .. LockTTL
        /\ lock' = NoReplica <=> ttl' = 0
    BY <1>3, DeleteType DEF SweepTypeOK, Stop, redis
  <2>2. events' \in 0 .. MaxEvents
    BY <1>3 DEF SweepTypeOK, Stop
  <2>3. overran' \in BOOLEAN
    BY <1>3 DEF SweepTypeOK, Stop, Leave
  <2> QED
    BY <1>3, <2>1, <2>2, <2>3 DEF SweepTypeOK, Stop, Enter, rows
<1>4. ASSUME NEW r \in Replicas, Die(r)
      PROVE  SweepTypeOK'
  <2>1. events' \in 0 .. MaxEvents
    BY <1>4 DEF SweepTypeOK, Die
  <2>2. overran' \in BOOLEAN
    BY <1>4 DEF SweepTypeOK, Die, Leave
  <2> QED
    BY <1>4, <2>1, <2>2 DEF SweepTypeOK, Die, Enter, redis, rows
<1>5. ASSUME NEW a \in Linkable, BecomeStale(a)
      PROVE  SweepTypeOK'
  BY <1>5 DEF SweepTypeOK, BecomeStale, redis
<1>6. ASSUME NEW a \in Linkable, UserSync(a)
      PROVE  SweepTypeOK'
  <2>1. Stamp(a)
    BY <1>6 DEF UserSync
  <2> QED
    BY <1>6, <2>1, StampType DEF SweepTypeOK, UserSync, redis
<1>7. ASSUME NEW a \in Linkable, Disconnect(a)
      PROVE  SweepTypeOK'
  <2>1. older' \in SUBSET (Linkable \X Linkable)
    BY <1>7 DEF SweepTypeOK, Disconnect
  <2> QED
    BY <1>7, <2>1 DEF SweepTypeOK, Disconnect, redis
<1>8. ASSUME NEW a \in Linkable, Link(a)
      PROVE  SweepTypeOK'
  <2>1. events' \in 0 .. MaxEvents
    BY <1>8 DEF SweepTypeOK, Link
  <2> QED
    BY <1>8, <2>1 DEF SweepTypeOK, Link, redis
<1>9. CASE Tick
  <2>1. /\ lock' \in Replicas \cup {NoReplica}
        /\ ttl' \in 0 .. LockTTL
        /\ lock' = NoReplica <=> ttl' = 0
    BY <1>9 DEF SweepTypeOK, Tick
  <2>2. ASSUME NEW r \in Replicas
        PROVE  Older(r) \in 0 .. LockTTL
    BY DEF SweepTypeOK, Older
  <2>3. age' \in [Replicas -> 0 .. LockTTL]
    BY <1>9, <2>2 DEF Tick
  <2>4. events' \in 0 .. MaxEvents /\ overran' \in BOOLEAN
    BY <1>9 DEF SweepTypeOK, Tick
  <2> QED
    BY <1>9, <2>1, <2>3, <2>4 DEF SweepTypeOK, Tick, rows
<1> QED
  BY <1>1, <1>2, <1>3, <1>4, <1>5, <1>6, <1>7, <1>8, <1>9, LoopType DEF SweepNext

\* The state is well formed in every behavior.
THEOREM SweepTypeCorrect == SweepSpec => []SweepTypeOK
<1>1. SweepTypeOK /\ [SweepNext]_sweepVars => SweepTypeOK'
  BY SweepNextType
<1> QED
  BY SweepInitType, <1>1, PTL DEF SweepSpec

-------------------------------------------------------------------------------
(* One sweep at a time. *)

LEMMA InitHolds == SweepInit => SweepHoldsLock
  BY DEF SweepInit, SweepHoldsLock, Holds, Sweeping

\* A replica that did not move keeps its hold while the key stays as it is.
LEMMA OthersHold ==
  ASSUME SweepTypeOK, SweepHoldsLock, NEW r \in Replicas, NEW s \in Replicas,
         UNCHANGED redis, stage'[s] = stage[s], age'[s] = age[s]
  PROVE  Holds(s)'
  BY DEF SweepHoldsLock, Holds, Sweeping, redis

\* While one replica sweeps, the others do not.
LEMMA SweepsAlone ==
  ASSUME SweepHoldsLock, NEW r \in Replicas, NEW s \in Replicas, Sweeping(r), Sweeping(s)
  PROVE  r = s
  BY DEF SweepHoldsLock, Holds

\* A free key means that nobody sweeps: setting it takes it from no one.
LEMMA FreeMeansIdle ==
  ASSUME SweepHoldsLock, lock = NoReplica, NEW r \in Replicas
  PROVE  ~ Sweeping(r)
  BY SchedulerAssumption DEF SweepHoldsLock, Holds

\* A step within the sweep, or outside it, by which the key stays as it is.
LEMMA MoveHolds ==
  ASSUME SweepTypeOK, SweepHoldsLock, NEW r \in Replicas, NEW step \in Steps,
         UNCHANGED <<redis, age>>, Enter(r, step),
         Sweeping(r) \/ step \in {"off", "sleep", "acquire"}
  PROVE  SweepHoldsLock'
<1> SUFFICES ASSUME NEW s \in Replicas
             PROVE  Holds(s)'
  BY DEF SweepHoldsLock
<1>1. stage'[r] = step /\ age'[s] = age[s] /\ (s # r => stage'[s] = stage[s])
  BY DEF SweepTypeOK, Enter
<1>2. CASE s = r
  <2>1. Sweeping(r)' => Sweeping(r)
    BY <1>1 DEF Sweeping
  <2> QED
    BY <1>2, <2>1 DEF SweepHoldsLock, Holds, redis
<1>3. CASE s # r
  BY <1>1, <1>3, OthersHold DEF redis
<1> QED
  BY <1>2, <1>3

\* A step that ends r's part in a sweep, the key being left or deleted by the
\* one replica that sweeps.
LEMMA LeaveHolds ==
  ASSUME SweepTypeOK, SweepHoldsLock, NEW r \in Replicas, NEW step \in {"off", "sleep"},
         UNCHANGED redis \/ Sweeping(r), Enter(r, step), age' = [age EXCEPT ![r] = 0]
  PROVE  SweepHoldsLock'
<1> SUFFICES ASSUME NEW s \in Replicas
             PROVE  Holds(s)'
  BY DEF SweepHoldsLock
<1>1. stage'[r] = step /\ (s # r => stage'[s] = stage[s] /\ age'[s] = age[s])
  BY DEF SweepTypeOK, Enter
<1>2. CASE s = r
  BY <1>1, <1>2 DEF Holds, Sweeping
<1>3. CASE s # r /\ UNCHANGED redis
  BY <1>1, <1>3, OthersHold
<1>4. CASE s # r /\ Sweeping(r)
  <2>1. ~ Sweeping(s)
    BY <1>4, SweepsAlone
  <2> QED
    BY <1>1, <1>4, <2>1 DEF Holds, Sweeping
<1> QED
  BY <1>2, <1>3, <1>4

\* A step outside the replicas' loops.
LEMMA OutsideHolds ==
  ASSUME SweepHoldsLock, UNCHANGED <<redis, stage, age>>
  PROVE  SweepHoldsLock'
  BY DEF SweepHoldsLock, Holds, Sweeping, redis

\* Claiming the key starts the only sweep.
LEMMA ClaimHolds ==
  ASSUME SweepTypeOK, SweepHoldsLock, NEW r \in Replicas, Claim(r)
  PROVE  SweepHoldsLock'
<1> SUFFICES ASSUME NEW s \in Replicas
             PROVE  Holds(s)'
  BY DEF SweepHoldsLock
<1>1. /\ lock = NoReplica /\ lock' = r /\ ttl' = LockTTL
      /\ age'[r] = 0 /\ (s # r => stage'[s] = stage[s])
  BY DEF SweepTypeOK, Claim, SetLock, Enter
<1>2. CASE s = r
  BY <1>1, <1>2, SchedulerAssumption DEF Holds
<1>3. CASE s # r
  <2>1. ~ Sweeping(s)
    BY <1>1, FreeMeansIdle
  <2> QED
    BY <1>1, <1>3, <2>1 DEF Holds, Sweeping
<1> QED
  BY <1>2, <1>3

\* A claim that nobody knows of happens while nobody sweeps, and starts none.
LEMMA ClaimLostHolds ==
  ASSUME SweepTypeOK, SweepHoldsLock, NEW r \in Replicas, ClaimLost(r)
  PROVE  SweepHoldsLock'
<1> SUFFICES ASSUME NEW s \in Replicas
             PROVE  ~ Sweeping(s)'
  BY DEF SweepHoldsLock, Holds
<1>1. ~ Sweeping(s)
  BY FreeMeansIdle DEF ClaimLost, SetLock
<1> QED
  BY <1>1 DEF SweepTypeOK, ClaimLost, Enter, Sweeping

\* Time uses up the key and the sweep's time to live alike: unless the sweep
\* outlives its key, both have some left.
LEMMA TickHolds ==
  ASSUME SweepTypeOK, SweepHoldsLock, Tick, ~ Overruns
  PROVE  SweepHoldsLock'
<1> SUFFICES ASSUME NEW s \in Replicas, Sweeping(s)
             PROVE  Holds(s)'
  BY DEF SweepHoldsLock, Holds, Sweeping, Tick
<1>1. lock = s /\ ttl + age[s] = LockTTL /\ age[s] < LockTTL
  BY DEF SweepHoldsLock, Holds
<1>2. ttl \in Nat /\ age[s] \in Nat /\ LockTTL \in Nat
  BY SchedulerAssumption DEF SweepTypeOK
<1>3. Older(s) = age[s] + 1 /\ age[s] + 1 # LockTTL
  BY <1>1, <1>2 DEF Older, Overruns
<1>4. lock' = lock /\ ttl' = ttl - 1 /\ age'[s] = age[s] + 1
  BY <1>1, <1>2, <1>3 DEF Tick
<1> QED
  BY <1>1, <1>2, <1>3, <1>4 DEF Holds

\* Every step of a replica's loop keeps the sweeps in their keys.
LEMMA LoopHolds ==
  ASSUME SweepTypeOK, SweepHoldsLock, NEW r \in Replicas, Loop(r)
  PROVE  SweepHoldsLock'
<1>1. CASE Start(r)
  BY <1>1, MoveHolds DEF Start, Steps
<1>2. CASE WakeUp(r)
  BY <1>2, MoveHolds DEF WakeUp, Steps
<1>3. CASE Claim(r)
  BY <1>3, ClaimHolds
<1>4. CASE SkipSweep(r)
  BY <1>4, MoveHolds DEF SkipSweep, Steps
<1>5. CASE ListStale(r)
  BY <1>5, MoveHolds DEF ListStale, Sweeping, Steps
<1>6. CASE EndSweep(r)
  BY <1>6, MoveHolds DEF EndSweep, Sweeping, Steps
<1>7. CASE Release(r)
  BY <1>7, LeaveHolds DEF Release, Sweeping
<1>8. ASSUME NEW a \in Linkable, Visit(r, a)
      PROVE  SweepHoldsLock'
  <2>1. CASE a \in linked
    BY <1>8, <2>1, MoveHolds DEF Visit, Sweeping, Steps
  <2>2. CASE a \notin linked
    BY <1>8, <2>2, OutsideHolds DEF Visit
  <2> QED
    BY <2>1, <2>2
<1>9. ASSUME NEW a \in Linkable, SyncSucceeds(r, a)
      PROVE  SweepHoldsLock'
  BY <1>9, MoveHolds DEF SyncSucceeds, Sweeping, Steps
<1>10. ASSUME NEW a \in Linkable, SyncFails(r, a)
       PROVE  SweepHoldsLock'
  BY <1>10, MoveHolds DEF SyncFails, Sweeping, Steps
<1> QED
  BY <1>1, <1>2, <1>3, <1>4, <1>5, <1>6, <1>7, <1>8, <1>9, <1>10 DEF Loop

\* So does every other step by which no sweep outlives its key.
LEMMA NextHolds ==
  ASSUME SweepTypeOK, SweepHoldsLock, [SweepNext]_sweepVars, ~ overran'
  PROVE  SweepHoldsLock'
<1>1. CASE UNCHANGED sweepVars
  BY <1>1, OutsideHolds DEF sweepVars
<1>2. ASSUME NEW r \in Replicas, Stop(r)
      PROVE  SweepHoldsLock'
  <2>1. UNCHANGED redis \/ Sweeping(r)
    BY <1>2 DEF Stop
  <2> QED
    BY <1>2, <2>1, LeaveHolds DEF Stop
<1>3. ASSUME NEW r \in Replicas, Die(r)
      PROVE  SweepHoldsLock'
  BY <1>3, LeaveHolds DEF Die
<1>4. ASSUME NEW a \in Linkable, BecomeStale(a) \/ UserSync(a) \/ Disconnect(a) \/ Link(a)
      PROVE  SweepHoldsLock'
  BY <1>4, OutsideHolds DEF BecomeStale, UserSync, Disconnect, Link
<1>5. CASE Tick
  <2>1. ~ Overruns
    BY <1>5 DEF Tick
  <2> QED
    BY <1>5, <2>1, TickHolds
<1> QED
  BY <1>1, <1>2, <1>3, <1>4, <1>5, LoopHolds, ClaimLostHolds DEF SweepNext

\* The step that ends the last of the overlapping sweeps leaves none.
LEMMA Recovers ==
  ASSUME SweepTypeOK, [SweepNext]_sweepVars, overran, ~ overran'
  PROVE  SweepHoldsLock'
<1>1. ASSUME NEW r \in Replicas, NEW step \in {"off", "sleep"}, Enter(r, step), Leave(r)
      PROVE  SweepHoldsLock'
  <2> SUFFICES ASSUME NEW s \in Replicas
               PROVE  ~ Sweeping(s)'
    BY DEF SweepHoldsLock, Holds
  <2>1. s # r => ~ Sweeping(s)
    BY <1>1 DEF Leave
  <2> QED
    BY <1>1, <2>1 DEF SweepTypeOK, Enter, Sweeping
<1>2. PICK r \in Replicas : Release(r) \/ Stop(r) \/ Die(r)
  <2>1. ASSUME NEW r \in Replicas, Loop(r)
        PROVE  Release(r)
    BY <2>1 DEF Loop, Start, WakeUp, Claim, SkipSweep, ListStale, EndSweep, Visit, SyncSucceeds, SyncFails
  <2>2. ASSUME NEW r \in Replicas
        PROVE  ~ ClaimLost(r)
    BY DEF ClaimLost
  <2>3. ASSUME NEW a \in Linkable
        PROVE  ~ (BecomeStale(a) \/ UserSync(a) \/ Disconnect(a) \/ Link(a))
    BY DEF BecomeStale, UserSync, Disconnect, Link
  <2>4. ~ Tick /\ ~ UNCHANGED sweepVars
    BY DEF Tick, sweepVars
  <2> QED
    BY <2>1, <2>2, <2>3, <2>4 DEF SweepNext
<1> QED
  BY <1>1, <1>2 DEF Release, Stop, Die

\* Only one replica sweeps at a time, whatever crashes, shutdowns and lost replies
\* occur, from any moment without a sweep until some sweep outlives its key.
THEOREM SweepsAreExclusive == SweepSpec => []OneSweep
<1>1. SweepInv /\ [SweepNext]_sweepVars => SweepInv'
  <2>1. ASSUME SweepInv, [SweepNext]_sweepVars, ~ overran'
        PROVE  SweepHoldsLock'
    BY <2>1, NextHolds, Recovers DEF SweepInv
  <2> QED
    BY <2>1, SweepNextType DEF SweepInv
<1>2. SweepInit => SweepInv
  BY SweepInitType, InitHolds DEF SweepInv
<1>3. SweepInv => OneSweep
  BY SweepsAlone DEF SweepInv, OneSweep
<1> QED
  BY <1>1, <1>2, <1>3, PTL DEF SweepSpec

-------------------------------------------------------------------------------
(* SyncJobs.  The locks that PostgreSQL keeps for an open transaction say  *)
(* whose the uncommitted writes are; a transaction publishes or loses all  *)
(* of them at its end.                                                     *)

USE ConstantsAssumption DEF Runs

-------------------------------------------------------------------------------
(* Types. *)

\* The strengthening of the type invariant: an open transaction has an
\* account and a run, and a pending upsert has a character.
Busy ==
  \A w \in Workers :
    /\ pc[w] # "idle" => account[w] \in Accounts /\ run[w] \in Runs
    /\ pc[w] = "write" => target[w] \in Chars

TypeInv == TypeOK /\ Busy

\* Opening a session keeps the types.
LEMMA BeginTypes == ASSUME TypeInv, NEW w \in Workers, NEW k \in Kinds, NEW a \in Accounts,
                           Begin(w, k, a)
                    PROVE  TypeInv'
  BY DEF Begin, TypeInv, TypeOK, Busy, At, GoTo, db, locks, tx, loop, tally, Kinds

\* Closing it does.
LEMMA CloseTypes ==
  ASSUME TypeInv, NEW w \in Workers, Close(w),
         jobs' \in [Runs -> [status : Statuses, account : SUBSET Accounts,
                           synced : SUBSET Chars, failed : SUBSET Chars]],
         stamp' \in [Accounts -> SUBSET Runs],
         syncError' \in SUBSET Accounts,
         known' \in SUBSET Chars,
         snap' \in [Chars -> SUBSET Runs]
  PROVE  TypeInv'
<1>1. /\ accountLock' \in [Accounts -> Workers \cup {NoWorker}]
      /\ charLock' \in [Chars -> Workers \cup {NoWorker}]
      /\ snapLock' \in [Chars -> Workers \cup {NoWorker}]
  BY DEF Close, Unlock, TypeInv, TypeOK
<1>2. /\ kind' \in [Workers -> Kinds]
      /\ account' \in [Workers -> Accounts \cup {NoAccount}]
      /\ run' \in [Workers -> 0 .. MaxRuns]
      /\ job' \in [Workers -> Statuses]
      /\ stamped' \in [Workers -> BOOLEAN]
      /\ error' \in [Workers -> {"unwritten", "cleared", "set"}]
      /\ created' \in [Workers -> SUBSET Chars]
  BY DEF Close, TypeInv, TypeOK, Statuses, Kinds
<1>3. /\ todo' \in [Workers -> SUBSET Chars]
      /\ counted' \in [Workers -> Nat]
      /\ target' \in [Workers -> Chars \cup {NoChar}]
      /\ plan' \in [Workers -> {"none", "create", "update"}]
      /\ promoted' \in [Workers -> SUBSET Chars]
      /\ fresh' \in [Workers -> SUBSET Chars]
  BY DEF Close, TypeInv, TypeOK
<1>4. /\ synced' \in [Workers -> SUBSET Chars]
      /\ failed' \in [Workers -> SUBSET Chars]
      /\ wrote' \in [Workers -> SUBSET Chars]
  BY DEF Close, TypeInv, TypeOK
<1>5. /\ pc' = [pc EXCEPT ![w] = "idle"]
      /\ begun' = begun
      /\ \A v \in Workers \ {w} : /\ account'[v] = account[v]
                                 /\ run'[v] = run[v]
                                 /\ target'[v] = target[v]
  BY DEF Close, GoTo, TypeInv, TypeOK
<1>6. TypeOK'
  BY <1>1, <1>2, <1>3, <1>4, <1>5 DEF TypeInv, TypeOK
<1>7. Busy'
  BY <1>5 DEF TypeInv, TypeOK, Busy
<1> QED
  BY <1>6, <1>7 DEF TypeInv

\* The flush of one imported character keeps the types ...
LEMMA WriteCharacterTypes ==
  ASSUME TypeInv, NEW w \in Workers, UpdateCharacter(w) \/ InsertCharacter(w)
  PROVE  TypeInv'
<1>1. pc[w] = "write" /\ target[w] \in Chars
  BY DEF UpdateCharacter, InsertCharacter, At, TypeInv, Busy
<1>2. ASSUME EndUpsert(w)
      PROVE  /\ pc' = [pc EXCEPT ![w] = "upsert"]
             /\ todo' \in [Workers -> SUBSET Chars]
             /\ target' \in [Workers -> Chars \cup {NoChar}]
             /\ target' = [target EXCEPT ![w] = NoChar]
             /\ plan' \in [Workers -> {"none", "create", "update"}]
             /\ UNCHANGED <<promoted, fresh>>
  BY <1>2 DEF EndUpsert, GoTo, TypeInv, TypeOK
<1>3. CASE UpdateCharacter(w)
  <2>1. charLock' \in [Chars -> Workers \cup {NoWorker}]
    BY <1>1, <1>3 DEF UpdateCharacter, TypeInv, TypeOK
  <2>2. EndUpsert(w) /\ UNCHANGED <<db, accountLock, snapLock, begun, tx, tally, counted>>
    BY <1>3 DEF UpdateCharacter
  <2>3. TypeOK'
    BY <2>1, <2>2, <1>2 DEF TypeInv, TypeOK, db, tx, tally
  <2>4. Busy'
    BY <2>2, <1>1, <1>2 DEF TypeInv, TypeOK, Busy, tx
  <2> QED
    BY <2>3, <2>4 DEF TypeInv
<1>4. CASE InsertCharacter(w) /\ target[w] \in known
  <2>1. GoTo(w, "rollback") /\ UNCHANGED <<db, locks, begun, tx, loop, tally>>
    BY <1>4 DEF InsertCharacter, locks, tx
  <2> QED
    BY <2>1, <1>1 DEF TypeInv, TypeOK, Busy, GoTo, db, locks, tx, loop, tally
<1>5. CASE InsertCharacter(w) /\ target[w] \notin known
  <2>1. /\ charLock' = [charLock EXCEPT ![target[w]] = w]
        /\ created' = [created EXCEPT ![w] = @ \cup {target[w]}]
        /\ counted' = [counted EXCEPT ![w] = @ + 1]
        /\ EndUpsert(w)
        /\ UNCHANGED <<db, accountLock, snapLock, begun, kind, account, run, job, stamped,
                       error, tally>>
    BY <1>5 DEF InsertCharacter
  <2>2. /\ charLock' \in [Chars -> Workers \cup {NoWorker}]
        /\ created' \in [Workers -> SUBSET Chars]
        /\ counted' \in [Workers -> Nat]
    BY <2>1, <1>1 DEF TypeInv, TypeOK
  <2>3. UNCHANGED <<db, accountLock, snapLock, begun, kind, account, run, job, stamped,
                    error, tally>>
    BY <2>1
  <2>4. /\ pc' = [pc EXCEPT ![w] = "upsert"]
        /\ todo' \in [Workers -> SUBSET Chars]
        /\ target' \in [Workers -> Chars \cup {NoChar}]
        /\ plan' \in [Workers -> {"none", "create", "update"}]
        /\ UNCHANGED <<promoted, fresh>>
    BY <2>1, <1>2
  <2>5. TypeOK'
    BY <2>2, <2>3, <2>4 DEF TypeInv, TypeOK, db, tally
  <2>6. target' = [target EXCEPT ![w] = NoChar] /\ UNCHANGED <<account, run>>
    BY <2>1, <2>3, <1>2
  <2>7. Busy'
    <3>1. pc \in [Workers -> {"idle", "check", "create", "token", "roster", "upsert", "write", "list",
                           "pick", "batch", "stamp", "commit", "failing", "rollback"}]
          /\ target \in [Workers -> Chars \cup {NoChar}] /\ Busy /\ pc[w] = "write"
      BY <1>5 DEF TypeInv, TypeOK, InsertCharacter, At
    <3>2. pc' = [pc EXCEPT ![w] = "upsert"]
      BY <2>4
    <3> QED
      BY ONLY <2>6, <3>1, <3>2 DEF Busy
  <2> QED
    BY <2>5, <2>7 DEF TypeInv
<1> QED
  BY <1>3, <1>4, <1>5

\* ... so do the steps up to the end of the import ...
LEMMA ImportTypes ==
  ASSUME TypeInv, NEW w \in Workers,
         \/ CheckRunning(w) \/ CreateJob(w)
         \/ TokenValid(w) \/ TokenRefreshed(w) \/ TokenRefused(w)
         \/ FetchRoster(w) \/ RosterFails(w)
         \/ \E c \in Chars : LookupCharacter(w, c) \/ SkipCharacter(w, c)
         \/ UpdateCharacter(w) \/ InsertCharacter(w) \/ StampImport(w)
  PROVE  TypeInv'
<1> USE DEF TypeInv, TypeOK, Busy, At, GoTo, db, locks, tx, loop, tally, Statuses, Kinds
<1>1. CASE CheckRunning(w)
  <2>1. GoTo(w, "rollback") \/ GoTo(w, "create")
    BY <1>1 DEF CheckRunning
  <2>2. At(w, "check") /\ UNCHANGED <<db, locks, begun, tx, loop, tally>>
    BY <1>1 DEF CheckRunning
  <2>3. TypeOK'
    BY <2>1, <2>2
  <2>4. Busy'
    BY <2>1, <2>2
  <2> QED
    BY <2>3, <2>4
<1>2. CASE CreateJob(w)
  BY <1>2 DEF CreateJob
<1>3. CASE TokenValid(w)
  BY <1>3 DEF TokenValid
<1>4. CASE TokenRefreshed(w)
  BY <1>4 DEF TokenRefreshed, LockAccount
<1>5. CASE TokenRefused(w)
  BY <1>5 DEF TokenRefused, LockAccount, OnError
<1>6. CASE FetchRoster(w)
  <2>1. Cardinality(Visible(w) \cap MyChars(w)) \in Nat
    BY FS_Subset, FS_CardinalityType, <1>6 DEF Visible, MyChars, FetchRoster
  <2> QED
    BY <1>6, <2>1 DEF FetchRoster, MyChars
<1>7. CASE RosterFails(w)
  BY <1>7 DEF RosterFails, OnError
<1>8. ASSUME NEW c \in Chars, LookupCharacter(w, c) PROVE TypeInv'
  BY <1>8 DEF LookupCharacter
<1>9. ASSUME NEW c \in Chars, SkipCharacter(w, c) PROVE TypeInv'
  BY <1>9 DEF SkipCharacter
<1>10. CASE UpdateCharacter(w) \/ InsertCharacter(w)
  BY <1>10, WriteCharacterTypes
<1>11. CASE StampImport(w)
  BY <1>11 DEF StampImport, LockAccount
<1> QED
  BY ONLY <1>1, <1>2, <1>3, <1>4, <1>5, <1>6, <1>7, <1>8, <1>9, <1>10, <1>11,
     CheckRunning(w) \/ CreateJob(w)
         \/ TokenValid(w) \/ TokenRefreshed(w) \/ TokenRefused(w)
         \/ FetchRoster(w) \/ RosterFails(w)
         \/ (\E c \in Chars : LookupCharacter(w, c) \/ SkipCharacter(w, c))
         \/ UpdateCharacter(w) \/ InsertCharacter(w) \/ StampImport(w)

\* ... the flush of a snapshot ...
LEMMA WriteSnapshotTypes ==
  ASSUME TypeInv, NEW w \in Workers, NEW c \in Chars,
         WriteSnapshot(w, c) \/ CharacterCollides(w, c)
  PROVE  TypeInv'
<1>1. pc[w] = "batch"
  BY DEF WriteSnapshot, CharacterCollides, At
<1>2. CASE GoTo(w, "rollback") /\ UNCHANGED <<db, locks, begun, tx, loop, tally>>
  BY <1>1, <1>2 DEF TypeInv, TypeOK, Busy, GoTo, db, locks, tx, loop, tally
<1>3. CASE /\ snapLock' = [snapLock EXCEPT ![c] = w]
           /\ wrote' = [wrote EXCEPT ![w] = @ \cup {c}]
           /\ todo' = [todo EXCEPT ![w] = @ \ {c}]
           /\ \/ synced' = [synced EXCEPT ![w] = @ \cup {c}] /\ failed' = failed
              \/ failed' = [failed EXCEPT ![w] = @ \cup {c}] /\ synced' = synced
           /\ UNCHANGED <<db, accountLock, charLock, begun, pc, tx, counted, target, plan,
                          promoted, fresh>>
  <2>1. /\ snapLock' \in [Chars -> Workers \cup {NoWorker}]
        /\ wrote' \in [Workers -> SUBSET Chars]
        /\ todo' \in [Workers -> SUBSET Chars]
    BY <1>3 DEF TypeInv, TypeOK
  <2>2. synced' \in [Workers -> SUBSET Chars]
    <3>1. CASE synced' = [synced EXCEPT ![w] = @ \cup {c}]
      BY <3>1 DEF TypeInv, TypeOK
    <3>2. CASE synced' = synced
      BY <3>2 DEF TypeInv, TypeOK
    <3> QED
      BY <1>3, <3>1, <3>2
  <2>3. failed' \in [Workers -> SUBSET Chars]
    <3>1. CASE failed' = [failed EXCEPT ![w] = @ \cup {c}]
      BY <3>1 DEF TypeInv, TypeOK
    <3>2. CASE failed' = failed
      BY <3>2 DEF TypeInv, TypeOK
    <3> QED
      BY <1>3, <3>1, <3>2
  <2>4. TypeOK'
    BY <1>3, <2>1, <2>2, <2>3 DEF TypeInv, TypeOK, db, tx
  <2>5. Busy'
    BY <1>3 DEF TypeInv, TypeOK, Busy, tx
  <2> QED
    BY <2>4, <2>5 DEF TypeInv
<1>4. CASE WriteSnapshot(w, c)
  BY <1>2, <1>3, <1>4 DEF WriteSnapshot, locks, tally
<1>5. CASE CharacterCollides(w, c)
  BY <1>2, <1>3, <1>5 DEF CharacterCollides, locks, tally
<1> QED
  BY <1>4, <1>5

\* ... those that synchronize the characters ...
LEMMA BatchTypes ==
  ASSUME TypeInv, NEW w \in Workers,
         \/ ListCharacters(w) \/ PickNothing(w)
         \/ \E c \in Chars : PickCharacter(w, c) \/ PromoteFields(w, c) \/ WriteSnapshot(w, c)
                             \/ CharacterFails(w, c) \/ CharacterCollides(w, c)
         \/ FinishJob(w) \/ StampAccount(w) \/ RecordFailure(w)
  PROVE  TypeInv'
<1> USE DEF TypeInv, TypeOK, Busy, At, GoTo, db, locks, tx, loop, tally, Statuses, Kinds
<1>1. CASE ListCharacters(w)
  BY <1>1 DEF ListCharacters, Visible, MyChars
<1>2. CASE PickNothing(w)
  BY <1>2 DEF PickNothing
<1>3. ASSUME NEW c \in Chars, PickCharacter(w, c) PROVE TypeInv'
  BY <1>3 DEF PickCharacter
<1>4. ASSUME NEW c \in Chars, PromoteFields(w, c) PROVE TypeInv'
  <2>1. /\ charLock' \in [Chars -> Workers \cup {NoWorker}]
        /\ promoted' \in [Workers -> SUBSET Chars]
        /\ fresh' \in [Workers -> SUBSET Chars]
    BY <1>4 DEF PromoteFields
  <2>2. UNCHANGED <<db, accountLock, snapLock, begun, pc, tx, todo, counted, target, plan, tally>>
    BY <1>4 DEF PromoteFields
  <2>3. TypeOK'
    BY <2>1, <2>2
  <2>4. Busy'
    BY <2>2
  <2> QED
    BY <2>3, <2>4
<1>5. ASSUME NEW c \in Chars, WriteSnapshot(w, c) PROVE TypeInv'
  BY <1>5, WriteSnapshotTypes
<1>6. ASSUME NEW c \in Chars, CharacterFails(w, c) PROVE TypeInv'
  <2>1. /\ todo' \in [Workers -> SUBSET Chars]
        /\ failed' \in [Workers -> SUBSET Chars]
    BY <1>6 DEF CharacterFails
  <2>2. pc' = pc \/ GoTo(w, "rollback")
    BY <1>6 DEF CharacterFails
  <2>3. UNCHANGED <<db, locks, begun, tx, counted, target, plan, promoted, fresh, synced, wrote>>
    BY <1>6 DEF CharacterFails
  <2>4. pc' \in [Workers -> {"idle", "check", "create", "token", "roster", "upsert", "write", "list",
                            "pick", "batch", "stamp", "commit", "failing", "rollback"}]
    BY <2>2
  <2>5. TypeOK'
    BY <2>1, <2>3, <2>4
  <2>6. pc'[w] # "write" /\ (pc'[w] # "idle" => pc[w] # "idle") /\ \A v \in Workers \ {w} : pc'[v] = pc[v]
    <3>1. pc[w] = "batch"
      BY <1>6 DEF CharacterFails
    <3> QED
      BY <2>2, <3>1
  <2>7. UNCHANGED <<account, run, target>>
    BY <2>3
  <2>8. Busy'
    BY <2>6, <2>7
  <2> QED
    BY <2>5, <2>8
<1>7. ASSUME NEW c \in Chars, CharacterCollides(w, c) PROVE TypeInv'
  BY <1>7, WriteSnapshotTypes
<1>8. CASE FinishJob(w)
  <2>1. job' \in [Workers -> Statuses]
    <3>1. StatusOf(synced[w], failed[w]) \in Statuses /\ job \in [Workers -> Statuses]
      BY DEF StatusOf
    <3>2. job' = job \/ job' = [job EXCEPT ![w] = StatusOf(synced[w], failed[w])]
      BY ONLY <1>8 DEF FinishJob
    <3> QED
      BY ONLY <3>1, <3>2
  <2>2. GoTo(w, "commit") \/ GoTo(w, "stamp")
    BY <1>8 DEF FinishJob
  <2>3. /\ At(w, "batch")
        /\ UNCHANGED <<db, locks, begun, kind, account, run, stamped, error, created, loop, tally>>
    BY <1>8 DEF FinishJob
  <2>4. TypeOK'
    BY <2>1, <2>2, <2>3
  <2>5. Busy'
    BY <2>2, <2>3
  <2> QED
    BY <2>4, <2>5
<1>9. CASE StampAccount(w)
  BY <1>9 DEF StampAccount, LockAccount
<1>10. CASE RecordFailure(w)
  BY <1>10 DEF RecordFailure, LockAccount
<1> QED
  BY ONLY <1>1, <1>2, <1>3, <1>4, <1>5, <1>6, <1>7, <1>8, <1>9, <1>10,
     ListCharacters(w) \/ PickNothing(w)
         \/ (\E c \in Chars : PickCharacter(w, c) \/ PromoteFields(w, c) \/ WriteSnapshot(w, c)
                             \/ CharacterFails(w, c) \/ CharacterCollides(w, c))
         \/ FinishJob(w) \/ StampAccount(w) \/ RecordFailure(w)

\* ... and the ends of a transaction.
LEMMA EndTypes ==
  ASSUME TypeInv, NEW w \in Workers, Commit(w) \/ Rollback(w) \/ Crash(w) \/ DeadlockAbort(w)
  PROVE  TypeInv'
<1>1. CASE Commit(w)
  <2>1. /\ account[w] \in Accounts
        /\ run[w] \in Runs
    BY <1>1 DEF Commit, At, TypeInv, TypeOK, Busy
  <2>2. jobs' \in [Runs -> [status : Statuses, account : SUBSET Accounts,
                           synced : SUBSET Chars, failed : SUBSET Chars]]
    BY <1>1, <2>1 DEF Commit, Publish, TypeInv, TypeOK
  <2>3. /\ stamp' \in [Accounts -> SUBSET Runs]
        /\ syncError' \in SUBSET Accounts
        /\ known' \in SUBSET Chars
        /\ snap' \in [Chars -> SUBSET Runs]
    BY <1>1, <2>1 DEF Commit, Publish, TypeInv, TypeOK
  <2> QED
    BY <1>1, <2>2, <2>3, CloseTypes DEF Commit
<1>2. CASE Rollback(w) \/ Crash(w)
  BY <1>2, CloseTypes DEF Rollback, Crash, TypeInv, TypeOK, db
<1>3. CASE DeadlockAbort(w)
  <2>1. pc[w] # "idle"
    BY <1>3 DEF DeadlockAbort, Blockers, TypeInv, TypeOK, At
  <2> QED
    BY <1>3, <2>1 DEF DeadlockAbort, TypeInv, TypeOK, Busy, GoTo, db, locks, tx, loop, tally
<1> QED
  BY <1>1, <1>2, <1>3

LEMMA StepTypes == ASSUME TypeInv, NEW w \in Workers, Step(w) PROVE TypeInv'
  BY ImportTypes, BatchTypes, EndTypes DEF Step

\* Type correctness: TypeOK holds in every reachable state.
LEMMA TypeInvariant == Spec => []TypeInv
<1>1. Init => TypeInv
  BY DEF Init, TypeInv, TypeOK, Busy, NoJob, Statuses, Kinds
<1>2. TypeInv /\ [Next]_vars => TypeInv'
  <2> SUFFICES ASSUME TypeInv, [Next]_vars PROVE TypeInv'
    OBVIOUS
  <2>1. CASE Next
    BY <2>1, BeginTypes, StepTypes, EndTypes DEF Next
  <2>2. CASE UNCHANGED vars
    BY <2>2 DEF vars, TypeInv, TypeOK, Busy, db, locks, tx, loop, tally
  <2> QED
    BY <2>1, <2>2
<1> QED
  BY <1>1, <1>2, PTL DEF Spec

THEOREM TypeCorrect == Spec => []TypeOK
  BY TypeInvariant, PTL DEF TypeInv

-------------------------------------------------------------------------------
(* The inductive invariants behind the safety properties. *)

\* Which requests reach which step, and which of them own a job.
JobPhases ==
  \A w \in Workers :
    /\ pc[w] = "idle" => job[w] = "none"
    /\ pc[w] \in {"check", "create", "list", "stamp", "failing"} => kind[w] \in {"sync", "resync"}
    /\ pc[w] \in {"token", "roster", "upsert", "write"} => kind[w] \in {"sync", "import"}
    /\ pc[w] = "pick" => kind[w] = "character"
    /\ pc[w] = "batch" => kind[w] # "import"
    /\ kind[w] \in {"import", "character"} => job[w] = "none"
    /\ pc[w] \in {"stamp", "commit"} => job[w] # "running"

\* What is reported as synced was written, and only for characters that exist.
Written ==
  \A w \in Workers :
    /\ synced[w] \subseteq wrote[w]
    /\ wrote[w] \subseteq known \cup created[w]
    /\ pc[w] = "batch" => todo[w] \subseteq known \cup created[w]

\* Uncommitted writes sit behind the row locks of their transaction.
Locked ==
  \A w \in Workers :
    /\ \A c \in created[w] : charLock[c] = w /\ c \notin known
    /\ \A c \in wrote[w] : snapLock[c] = w
    /\ stamped[w] => pc[w] # "idle" /\ accountLock[account[w]] = w

\* Every step keeps a job with the requests that own one.
LEMMA JobPhasesStep == ASSUME TypeInv, JobPhases, [Next]_vars PROVE JobPhases'
<1> USE DEF TypeInv, TypeOK, Busy, JobPhases, At, GoTo, db, locks, tx, loop, tally
<1>1. CASE UNCHANGED vars
  BY <1>1 DEF vars
<1>2. ASSUME NEW w \in Workers, NEW k \in Kinds, NEW a \in Accounts, Begin(w, k, a) PROVE JobPhases'
  BY <1>2 DEF Begin, Kinds
<1>3. ASSUME NEW w \in Workers, CheckRunning(w) PROVE JobPhases'
  BY <1>3 DEF CheckRunning
<1>4. ASSUME NEW w \in Workers, CreateJob(w) PROVE JobPhases'
  BY <1>4 DEF CreateJob
<1>5. ASSUME NEW w \in Workers, TokenValid(w) PROVE JobPhases'
  BY <1>5 DEF TokenValid
<1>6. ASSUME NEW w \in Workers, TokenRefreshed(w) PROVE JobPhases'
  BY <1>6 DEF TokenRefreshed, LockAccount, Free
<1>7. ASSUME NEW w \in Workers, TokenRefused(w) PROVE JobPhases'
  BY <1>7 DEF TokenRefused, LockAccount, Free, OnError
<1>8. ASSUME NEW w \in Workers, FetchRoster(w) PROVE JobPhases'
  BY <1>8 DEF FetchRoster
<1>9. ASSUME NEW w \in Workers, RosterFails(w) PROVE JobPhases'
  BY <1>9 DEF RosterFails, OnError
<1>10. ASSUME NEW w \in Workers, UpdateCharacter(w) PROVE JobPhases'
  BY <1>10 DEF UpdateCharacter, EndUpsert, Free
<1>11. ASSUME NEW w \in Workers, InsertCharacter(w) PROVE JobPhases'
  BY <1>11 DEF InsertCharacter, EndUpsert, Free
<1>12. ASSUME NEW w \in Workers, StampImport(w) PROVE JobPhases'
  BY <1>12 DEF StampImport, LockAccount, Free
<1>13. ASSUME NEW w \in Workers, ListCharacters(w) PROVE JobPhases'
  BY <1>13 DEF ListCharacters, Visible
<1>14. ASSUME NEW w \in Workers, PickNothing(w) PROVE JobPhases'
  BY <1>14 DEF PickNothing
<1>15. ASSUME NEW w \in Workers, FinishJob(w) PROVE JobPhases'
  <2>1. CASE kind[w] = "character"
    BY <1>15, <2>1 DEF FinishJob
  <2>2. CASE kind[w] # "character"
    <3>1. StatusOf(synced[w], failed[w]) # "running"
      BY DEF StatusOf
    <3>2. /\ pc[w] = "batch"
          /\ pc' = [pc EXCEPT ![w] = "stamp"]
          /\ job' = [job EXCEPT ![w] = StatusOf(synced[w], failed[w])]
          /\ kind' = kind
      BY <1>15, <2>2 DEF FinishJob
    <3> QED
      BY <2>2, <3>1, <3>2 DEF Kinds
  <2> QED
    BY <2>1, <2>2
<1>16. ASSUME NEW w \in Workers, StampAccount(w) PROVE JobPhases'
  BY <1>16 DEF StampAccount, LockAccount, Free
<1>17. ASSUME NEW w \in Workers, RecordFailure(w) PROVE JobPhases'
  BY <1>17 DEF RecordFailure, LockAccount, Free
<1>18. ASSUME NEW w \in Workers, Commit(w) PROVE JobPhases'
  BY <1>18 DEF Commit, Publish, Close, Unlock
<1>19. ASSUME NEW w \in Workers, Rollback(w) PROVE JobPhases'
  BY <1>19 DEF Rollback, Close, Unlock
<1>20. ASSUME NEW w \in Workers, Crash(w) PROVE JobPhases'
  BY <1>20 DEF Crash, Close, Unlock
<1>21. ASSUME NEW w \in Workers, DeadlockAbort(w) PROVE JobPhases'
  BY <1>21 DEF DeadlockAbort, Blockers
<1>22. ASSUME NEW w \in Workers, NEW c \in Chars, LookupCharacter(w, c) PROVE JobPhases'
  BY <1>22 DEF LookupCharacter
<1>23. ASSUME NEW w \in Workers, NEW c \in Chars, SkipCharacter(w, c) PROVE JobPhases'
  BY <1>23 DEF SkipCharacter
<1>24. ASSUME NEW w \in Workers, NEW c \in Chars, PickCharacter(w, c) PROVE JobPhases'
  BY <1>24 DEF PickCharacter
<1>25. ASSUME NEW w \in Workers, NEW c \in Chars, PromoteFields(w, c) PROVE JobPhases'
  BY <1>25 DEF PromoteFields, Free
<1>26. ASSUME NEW w \in Workers, NEW c \in Chars, WriteSnapshot(w, c) PROVE JobPhases'
  BY <1>26 DEF WriteSnapshot, Free
<1>27. ASSUME NEW w \in Workers, NEW c \in Chars, CharacterFails(w, c) PROVE JobPhases'
  BY <1>27 DEF CharacterFails
<1>28. ASSUME NEW w \in Workers, NEW c \in Chars, CharacterCollides(w, c) PROVE JobPhases'
  BY <1>28 DEF CharacterCollides, Free
<1> QED
  BY ONLY [Next]_vars,
     <1>1, <1>2, <1>3, <1>4, <1>5, <1>6, <1>7, <1>8, <1>9, <1>10, <1>11, <1>12,
     <1>13, <1>14, <1>15, <1>16, <1>17, <1>18, <1>19, <1>20, <1>21, <1>22, <1>23,
     <1>24, <1>25, <1>26, <1>27, <1>28 DEF Next, Step

\* Every step keeps the reported characters among the written ones.
LEMMA WrittenStep == ASSUME TypeInv, Written, [Next]_vars PROVE Written'
<1> USE DEF TypeInv, TypeOK, Busy, Written, At, GoTo, db, locks, tx, loop, tally
<1>1. CASE UNCHANGED vars
  BY <1>1 DEF vars
<1>2. ASSUME NEW w \in Workers, NEW k \in Kinds, NEW a \in Accounts, Begin(w, k, a) PROVE Written'
  BY <1>2 DEF Begin, Kinds
<1>3. ASSUME NEW w \in Workers, CheckRunning(w) PROVE Written'
  <2>1. \E next \in {"rollback", "create"} : pc' = [pc EXCEPT ![w] = next]
    BY <1>3 DEF CheckRunning
  <2>2. UNCHANGED <<known, created, todo, synced, wrote>>
    BY <1>3 DEF CheckRunning
  <2> QED
    BY <2>1, <2>2
<1>4. ASSUME NEW w \in Workers, CreateJob(w) PROVE Written'
  BY <1>4 DEF CreateJob
<1>5. ASSUME NEW w \in Workers, TokenValid(w) PROVE Written'
  BY <1>5 DEF TokenValid
<1>6. ASSUME NEW w \in Workers, TokenRefreshed(w) PROVE Written'
  BY <1>6 DEF TokenRefreshed, LockAccount, Free
<1>7. ASSUME NEW w \in Workers, TokenRefused(w) PROVE Written'
  BY <1>7 DEF TokenRefused, LockAccount, Free, OnError
<1>8. ASSUME NEW w \in Workers, FetchRoster(w) PROVE Written'
  BY <1>8 DEF FetchRoster
<1>9. ASSUME NEW w \in Workers, RosterFails(w) PROVE Written'
  BY <1>9 DEF RosterFails, OnError
<1>10. ASSUME NEW w \in Workers, UpdateCharacter(w) PROVE Written'
  BY <1>10 DEF UpdateCharacter, EndUpsert, Free
<1>11. ASSUME NEW w \in Workers, InsertCharacter(w) PROVE Written'
  <2>1. CASE target[w] \in known
    <3>1. pc' = [pc EXCEPT ![w] = "rollback"] /\ UNCHANGED <<known, created, todo, synced, wrote>>
      BY <1>11, <2>1 DEF InsertCharacter
    <3> QED
      BY <3>1
  <2>2. CASE target[w] \notin known
    <3>1. pc' = [pc EXCEPT ![w] = "upsert"] /\ UNCHANGED <<known, synced, wrote>>
      BY <1>11, <2>2 DEF InsertCharacter, EndUpsert
    <3>2. created' = [created EXCEPT ![w] = @ \cup {target[w]}]
      BY <1>11, <2>2 DEF InsertCharacter, EndUpsert
    <3>3. todo' = [todo EXCEPT ![w] = @ \ {target[w]}]
      BY <1>11, <2>2 DEF InsertCharacter, EndUpsert
    <3> QED
      BY <3>1, <3>2, <3>3
  <2> QED
    BY <2>1, <2>2
<1>12. ASSUME NEW w \in Workers, StampImport(w) PROVE Written'
  BY <1>12 DEF StampImport, LockAccount, Free
<1>13. ASSUME NEW w \in Workers, ListCharacters(w) PROVE Written'
  BY <1>13 DEF ListCharacters, Visible
<1>14. ASSUME NEW w \in Workers, PickNothing(w) PROVE Written'
  BY <1>14 DEF PickNothing
<1>15. ASSUME NEW w \in Workers, FinishJob(w) PROVE Written'
  <2>1. \E step \in {"commit", "stamp"} : pc' = [pc EXCEPT ![w] = step]
    BY <1>15 DEF FinishJob
  <2>2. UNCHANGED <<known, created, todo, synced, wrote>>
    BY <1>15 DEF FinishJob
  <2> QED
    BY <2>1, <2>2
<1>16. ASSUME NEW w \in Workers, StampAccount(w) PROVE Written'
  BY <1>16 DEF StampAccount, LockAccount, Free
<1>17. ASSUME NEW w \in Workers, RecordFailure(w) PROVE Written'
  BY <1>17 DEF RecordFailure, LockAccount, Free
<1>18. ASSUME NEW w \in Workers, Commit(w) PROVE Written'
  BY <1>18 DEF Commit, Publish, Close, Unlock
<1>19. ASSUME NEW w \in Workers, Rollback(w) PROVE Written'
  BY <1>19 DEF Rollback, Close, Unlock
<1>20. ASSUME NEW w \in Workers, Crash(w) PROVE Written'
  BY <1>20 DEF Crash, Close, Unlock
<1>21. ASSUME NEW w \in Workers, DeadlockAbort(w) PROVE Written'
  <2>1. pc' = [pc EXCEPT ![w] = "rollback"] /\ UNCHANGED <<known, created, todo, synced, wrote>>
    BY <1>21 DEF DeadlockAbort
  <2> QED
    BY <2>1
<1>22. ASSUME NEW w \in Workers, NEW c \in Chars, LookupCharacter(w, c) PROVE Written'
  BY <1>22 DEF LookupCharacter
<1>23. ASSUME NEW w \in Workers, NEW c \in Chars, SkipCharacter(w, c) PROVE Written'
  BY <1>23 DEF SkipCharacter
<1>24. ASSUME NEW w \in Workers, NEW c \in Chars, PickCharacter(w, c) PROVE Written'
  BY <1>24 DEF PickCharacter
<1>25. ASSUME NEW w \in Workers, NEW c \in Chars, PromoteFields(w, c) PROVE Written'
  BY <1>25 DEF PromoteFields, Free
<1>26. ASSUME NEW w \in Workers, NEW c \in Chars, WriteSnapshot(w, c) PROVE Written'
  <2>1. CASE c \in fresh[w] /\ snap[c] # {}
    BY <1>26, <2>1 DEF WriteSnapshot
  <2>2. CASE ~ (c \in fresh[w] /\ snap[c] # {})
    BY <1>26, <2>2 DEF WriteSnapshot
  <2> QED
    BY <2>1, <2>2
<1>27. ASSUME NEW w \in Workers, NEW c \in Chars, CharacterFails(w, c) PROVE Written'
  BY <1>27 DEF CharacterFails
<1>28. ASSUME NEW w \in Workers, NEW c \in Chars, CharacterCollides(w, c) PROVE Written'
  <2>1. CASE c \in fresh[w] /\ snap[c] # {}
    BY <1>28, <2>1 DEF CharacterCollides
  <2>2. CASE ~ (c \in fresh[w] /\ snap[c] # {})
    BY <1>28, <2>2 DEF CharacterCollides
  <2> QED
    BY <2>1, <2>2
<1> QED
  BY ONLY [Next]_vars,
     <1>1, <1>2, <1>3, <1>4, <1>5, <1>6, <1>7, <1>8, <1>9, <1>10, <1>11, <1>12,
     <1>13, <1>14, <1>15, <1>16, <1>17, <1>18, <1>19, <1>20, <1>21, <1>22, <1>23,
     <1>24, <1>25, <1>26, <1>27, <1>28 DEF Next, Step

\* Every step keeps uncommitted writes behind their locks.
LEMMA LockedStep == ASSUME TypeInv, Locked, [Next]_vars PROVE Locked'
<1> USE DEF TypeInv, TypeOK, Busy, Locked, At, GoTo, db, locks, tx, loop, tally
<1>1. CASE UNCHANGED vars
  BY <1>1 DEF vars
<1>2. ASSUME NEW w \in Workers, NEW k \in Kinds, NEW a \in Accounts, Begin(w, k, a) PROVE Locked'
  BY <1>2 DEF Begin, Kinds
<1>3. ASSUME NEW w \in Workers, CheckRunning(w) PROVE Locked'
  BY <1>3 DEF CheckRunning
<1>4. ASSUME NEW w \in Workers, CreateJob(w) PROVE Locked'
  BY <1>4 DEF CreateJob
<1>5. ASSUME NEW w \in Workers, TokenValid(w) PROVE Locked'
  BY <1>5 DEF TokenValid
<1>6. ASSUME NEW w \in Workers, TokenRefreshed(w) PROVE Locked'
  BY <1>6 DEF TokenRefreshed, LockAccount, Free
<1>7. ASSUME NEW w \in Workers, TokenRefused(w) PROVE Locked'
  BY <1>7 DEF TokenRefused, LockAccount, Free, OnError
<1>8. ASSUME NEW w \in Workers, FetchRoster(w) PROVE Locked'
  BY <1>8 DEF FetchRoster
<1>9. ASSUME NEW w \in Workers, RosterFails(w) PROVE Locked'
  BY <1>9 DEF RosterFails, OnError
<1>10. ASSUME NEW w \in Workers, UpdateCharacter(w) PROVE Locked'
  BY <1>10 DEF UpdateCharacter, EndUpsert, Free
<1>11. ASSUME NEW w \in Workers, InsertCharacter(w) PROVE Locked'
  BY <1>11 DEF InsertCharacter, EndUpsert, Free
<1>12. ASSUME NEW w \in Workers, StampImport(w) PROVE Locked'
  BY <1>12 DEF StampImport, LockAccount, Free
<1>13. ASSUME NEW w \in Workers, ListCharacters(w) PROVE Locked'
  BY <1>13 DEF ListCharacters, Visible
<1>14. ASSUME NEW w \in Workers, PickNothing(w) PROVE Locked'
  BY <1>14 DEF PickNothing
<1>15. ASSUME NEW w \in Workers, FinishJob(w) PROVE Locked'
  BY <1>15 DEF FinishJob, StatusOf
<1>16. ASSUME NEW w \in Workers, StampAccount(w) PROVE Locked'
  BY <1>16 DEF StampAccount, LockAccount, Free
<1>17. ASSUME NEW w \in Workers, RecordFailure(w) PROVE Locked'
  BY <1>17 DEF RecordFailure, LockAccount, Free
<1>18. ASSUME NEW w \in Workers, Commit(w) PROVE Locked'
  BY <1>18 DEF Commit, Publish, Close, Unlock
<1>19. ASSUME NEW w \in Workers, Rollback(w) PROVE Locked'
  BY <1>19 DEF Rollback, Close, Unlock
<1>20. ASSUME NEW w \in Workers, Crash(w) PROVE Locked'
  BY <1>20 DEF Crash, Close, Unlock
<1>21. ASSUME NEW w \in Workers, DeadlockAbort(w) PROVE Locked'
  <2>1. pc' = [pc EXCEPT ![w] = "rollback"]
        /\ UNCHANGED <<known, created, wrote, stamped, account, charLock, snapLock, accountLock>>
    BY <1>21 DEF DeadlockAbort
  <2> QED
    BY <2>1
<1>22. ASSUME NEW w \in Workers, NEW c \in Chars, LookupCharacter(w, c) PROVE Locked'
  BY <1>22 DEF LookupCharacter
<1>23. ASSUME NEW w \in Workers, NEW c \in Chars, SkipCharacter(w, c) PROVE Locked'
  BY <1>23 DEF SkipCharacter
<1>24. ASSUME NEW w \in Workers, NEW c \in Chars, PickCharacter(w, c) PROVE Locked'
  BY <1>24 DEF PickCharacter
<1>25. ASSUME NEW w \in Workers, NEW c \in Chars, PromoteFields(w, c) PROVE Locked'
  BY <1>25 DEF PromoteFields, Free
<1>26. ASSUME NEW w \in Workers, NEW c \in Chars, WriteSnapshot(w, c) PROVE Locked'
  BY <1>26 DEF WriteSnapshot, Free
<1>27. ASSUME NEW w \in Workers, NEW c \in Chars, CharacterFails(w, c) PROVE Locked'
  BY <1>27 DEF CharacterFails
<1>28. ASSUME NEW w \in Workers, NEW c \in Chars, CharacterCollides(w, c) PROVE Locked'
  BY <1>28 DEF CharacterCollides, Free
<1> QED
  BY ONLY [Next]_vars,
     <1>1, <1>2, <1>3, <1>4, <1>5, <1>6, <1>7, <1>8, <1>9, <1>10, <1>11, <1>12,
     <1>13, <1>14, <1>15, <1>16, <1>17, <1>18, <1>19, <1>20, <1>21, <1>22, <1>23,
     <1>24, <1>25, <1>26, <1>27, <1>28 DEF Next, Step

-------------------------------------------------------------------------------
(* The theorems. *)

\* The committed database changes only when a session commits.
LEMMA OnlyCommitPublishes ==
  ASSUME [Next]_vars PROVE UNCHANGED db \/ \E w \in Workers : Commit(w)
<1>1. CASE UNCHANGED vars
  BY <1>1 DEF vars
<1>2. ASSUME NEW w \in Workers, NEW k \in Kinds, NEW a \in Accounts, Begin(w, k, a)
      PROVE  UNCHANGED db
  BY <1>2 DEF Begin
<1>3. ASSUME NEW w \in Workers, Step(w) PROVE UNCHANGED db \/ Commit(w)
  BY <1>3 DEF Step, CheckRunning, CreateJob, TokenValid, TokenRefreshed, TokenRefused, FetchRoster,
     RosterFails, LookupCharacter, SkipCharacter, UpdateCharacter, InsertCharacter, StampImport,
     ListCharacters, PickNothing, PickCharacter, PromoteFields, WriteSnapshot, CharacterFails,
     CharacterCollides, FinishJob, StampAccount, RecordFailure, Rollback, DeadlockAbort
<1>4. ASSUME NEW w \in Workers, Crash(w) PROVE UNCHANGED db
  BY <1>4 DEF Crash
<1> QED
  BY <1>1, <1>2, <1>3, <1>4 DEF Next

\* All the invariants together hold in every reachable state.
LEMMA Invariants == Spec => [](TypeInv /\ JobPhases /\ Written /\ Locked)
<1>1. Init => JobPhases /\ Written /\ Locked
  BY DEF Init, JobPhases, Written, Locked
<1>2. TypeInv /\ (JobPhases /\ Written /\ Locked) /\ [Next]_vars
        => (JobPhases /\ Written /\ Locked)'
  BY JobPhasesStep, WrittenStep, LockedStep
<1> QED
  BY <1>1, <1>2, TypeInvariant, PTL DEF Spec

\* No reader ever meets an unfinished job, so a run that dies cannot make
\* get_running refuse its account forever.
THEOREM NoUnfinishedJobs == Spec => []NoUnfinishedJob
<1>1. Init => NoUnfinishedJob
  BY DEF Init, NoUnfinishedJob, NoJob
<1>2. TypeInv /\ JobPhases /\ NoUnfinishedJob /\ [Next]_vars => NoUnfinishedJob'
  <2> SUFFICES ASSUME TypeInv, JobPhases, NoUnfinishedJob, [Next]_vars PROVE NoUnfinishedJob'
    OBVIOUS
  <2>1. CASE UNCHANGED db
    BY <2>1 DEF db, NoUnfinishedJob
  <2>2. ASSUME NEW w \in Workers, Commit(w) PROVE NoUnfinishedJob'
    BY <2>2 DEF Commit, Publish, At, JobPhases, NoUnfinishedJob, TypeInv, TypeOK
  <2> QED
    BY <2>1, <2>2, OnlyCommitPublishes
<1> QED
  BY <1>1, <1>2, Invariants, PTL DEF Spec

\* A character that a committed job reports as synced has a row and a
\* snapshot, whatever failed beside it in the same gather.
THEOREM SyncedHaveSnapshots == Spec => []SyncedHasSnapshot
<1>1. Init => SyncedHasSnapshot
  BY DEF Init, SyncedHasSnapshot, NoJob
<1>2. TypeInv /\ Written /\ SyncedHasSnapshot /\ [Next]_vars => SyncedHasSnapshot'
  <2> SUFFICES ASSUME TypeInv, Written, SyncedHasSnapshot, [Next]_vars PROVE SyncedHasSnapshot'
    OBVIOUS
  <2>1. CASE UNCHANGED db
    BY <2>1 DEF db, SyncedHasSnapshot
  <2>2. ASSUME NEW w \in Workers, Commit(w) PROVE SyncedHasSnapshot'
    <3> SUFFICES ASSUME NEW r \in Runs, NEW c \in jobs'[r].synced
                 PROVE  c \in known' /\ snap'[c] # {}
      BY DEF SyncedHasSnapshot
    <3>1. /\ known' = known \cup created[w]
          /\ snap' = [d \in Chars |-> IF d \in wrote[w] THEN {run[w]} ELSE snap[d]]
      BY <2>2 DEF Commit, Publish
    <3>2. c \in jobs[r].synced \/ c \in synced[w]
      BY <2>2 DEF Commit, Publish, TypeInv, TypeOK
    <3>3. c \in Chars
      BY <3>2 DEF TypeInv, TypeOK
    <3>4. CASE c \in jobs[r].synced
      BY <3>1, <3>3, <3>4 DEF SyncedHasSnapshot
    <3>5. CASE c \in synced[w]
      BY <3>1, <3>3, <3>5 DEF Written
    <3> QED
      BY <3>2, <3>4, <3>5
  <2> QED
    BY <2>1, <2>2, OnlyCommitPublishes
<1> QED
  BY <1>1, <1>2, Invariants, PTL DEF Spec

\* Two open transactions never hold uncommitted writes of the same row, and
\* no character is being inserted whose row is already committed.
THEOREM WritesAreIsolated == Spec => []IsolatedWrites
<1>1. TypeInv /\ Locked => IsolatedWrites
  BY DEF TypeInv, TypeOK, Locked, IsolatedWrites
<1> QED
  BY <1>1, Invariants, PTL

-------------------------------------------------------------------------------
(* Refinement of AtomicSync. *)

\* What a session holds at each step is of its own account, and a character
\* has one outcome.
Shape ==
  \A w \in Workers :
    /\ pc[w] # "idle" => created[w] \cup todo[w] \cup synced[w] \cup failed[w]
                           \cup ({target[w]} \ {NoChar}) \subseteq CharsOf[account[w]]
    /\ synced[w] \cap failed[w] = {}
    /\ wrote[w] \subseteq synced[w] \cup failed[w]
    /\ pc[w] = "batch" => todo[w] \cap (synced[w] \cup failed[w]) = {}
    /\ pc[w] \notin {"batch", "stamp", "commit", "failing", "rollback"}
         => synced[w] = {} /\ failed[w] = {}
    /\ pc[w] \in {"idle", "check", "create", "token", "roster", "pick"}
         => created[w] = {} /\ todo[w] = {} /\ target[w] = NoChar

\* The three kinds of transaction on their way to the commit: a sync has its
\* final status and its stamp ...
SyncReady ==
  \A w \in Workers : kind[w] \in {"sync", "resync"} =>
    /\ pc[w] \in {"stamp", "commit"} => job[w] = StatusOf(synced[w], failed[w])
    /\ pc[w] = "commit" => stamped[w]

\* ... an import has nothing but new characters and the stamp ...
ImportReady ==
  \A w \in Workers :
    /\ kind[w] = "import" =>
         /\ pc[w] = "commit" => stamped[w] \/ created[w] = {}
         /\ wrote[w] = {}
    /\ pc[w] = "idle" => wrote[w] = {}

\* ... and a character's refresh has one snapshot.
CharacterReady ==
  \A w \in Workers :
    /\ kind[w] = "character" =>
         /\ created[w] = {}
         /\ ~ stamped[w]
         /\ pc[w] = "pick" => wrote[w] = {}
         /\ pc[w] = "batch" =>
              \E c \in known : (todo[w] = {c} /\ wrote[w] = {}) \/ (todo[w] = {} /\ wrote[w] = {c})
         /\ pc[w] = "commit" => \E c \in known : wrote[w] = {c}
    /\ pc[w] = "idle" => ~ stamped[w] /\ created[w] = {} /\ wrote[w] = {}

\* A run publishes its job once.
FreshRuns ==
  /\ \A r \in Runs : r > begun => jobs[r].status = "none"
  /\ \A w \in Workers : pc[w] # "idle" => run[w] <= begun /\ jobs[run[w]].status = "none"
  /\ \A v, w \in Workers : pc[v] # "idle" /\ pc[w] # "idle" /\ run[v] = run[w] => v = w

\* Every step keeps what a session holds in shape.
LEMMA ShapeStep == ASSUME TypeInv, Shape, [Next]_vars PROVE Shape'
<1>1. /\ pc \in [Workers -> {"idle", "check", "create", "token", "roster", "upsert", "write", "list",
                        "pick", "batch", "stamp", "commit", "failing", "rollback"}]
      /\ account \in [Workers -> Accounts \cup {NoAccount}]
      /\ created \in [Workers -> SUBSET Chars]
      /\ todo \in [Workers -> SUBSET Chars]
      /\ target \in [Workers -> Chars \cup {NoChar}]
      /\ synced \in [Workers -> SUBSET Chars]
      /\ failed \in [Workers -> SUBSET Chars]
      /\ wrote \in [Workers -> SUBSET Chars]
      /\ known \in SUBSET Chars
  BY DEF TypeInv, TypeOK
<1> USE <1>1 DEF Shape, At, GoTo, db, locks, tx, loop, tally
<1>2. CASE UNCHANGED vars
  BY <1>2 DEF vars
<1>3. ASSUME NEW w \in Workers, NEW k \in Kinds, NEW a \in Accounts, Begin(w, k, a) PROVE Shape'
  BY <1>3 DEF Begin, Kinds
<1>4. ASSUME NEW w \in Workers, CheckRunning(w) PROVE Shape'
  BY <1>4 DEF CheckRunning
<1>5. ASSUME NEW w \in Workers, CreateJob(w) PROVE Shape'
  BY <1>5 DEF CreateJob
<1>6. ASSUME NEW w \in Workers, TokenValid(w) PROVE Shape'
  BY <1>6 DEF TokenValid
<1>7. ASSUME NEW w \in Workers, TokenRefreshed(w) PROVE Shape'
  BY <1>7 DEF TokenRefreshed, LockAccount, Free
<1>8. ASSUME NEW w \in Workers, TokenRefused(w) PROVE Shape'
  BY <1>8 DEF TokenRefused, LockAccount, Free, OnError
<1>9. ASSUME NEW w \in Workers, FetchRoster(w) PROVE Shape'
  BY <1>9 DEF FetchRoster, MyChars
<1>10. ASSUME NEW w \in Workers, RosterFails(w) PROVE Shape'
  BY <1>10 DEF RosterFails, OnError
<1>11. ASSUME NEW w \in Workers, UpdateCharacter(w) PROVE Shape'
  BY <1>11 DEF UpdateCharacter, EndUpsert, Free
<1>12. ASSUME NEW w \in Workers, InsertCharacter(w) PROVE Shape'
  <2>1. CASE target[w] \in known
    BY <1>12, <2>1 DEF InsertCharacter
  <2>2. CASE target[w] \notin known
    BY <1>12, <2>2 DEF InsertCharacter, EndUpsert, TypeInv, Busy
  <2> QED
    BY <2>1, <2>2
<1>13. ASSUME NEW w \in Workers, StampImport(w) PROVE Shape'
  BY <1>13 DEF StampImport, LockAccount, Free
<1>14. ASSUME NEW w \in Workers, ListCharacters(w) PROVE Shape'
  BY <1>14 DEF ListCharacters, Visible, MyChars
<1>15. ASSUME NEW w \in Workers, PickNothing(w) PROVE Shape'
  BY <1>15 DEF PickNothing
<1>16. ASSUME NEW w \in Workers, FinishJob(w) PROVE Shape'
  BY <1>16 DEF FinishJob, StatusOf
<1>17. ASSUME NEW w \in Workers, StampAccount(w) PROVE Shape'
  BY <1>17 DEF StampAccount, LockAccount, Free
<1>18. ASSUME NEW w \in Workers, RecordFailure(w) PROVE Shape'
  BY <1>18 DEF RecordFailure, LockAccount, Free
<1>19. ASSUME NEW w \in Workers, Commit(w) PROVE Shape'
  BY <1>19 DEF Commit, Publish, Close, Unlock
<1>20. ASSUME NEW w \in Workers, Rollback(w) PROVE Shape'
  BY <1>20 DEF Rollback, Close, Unlock
<1>21. ASSUME NEW w \in Workers, Crash(w) PROVE Shape'
  BY <1>21 DEF Crash, Close, Unlock
<1>22. ASSUME NEW w \in Workers, DeadlockAbort(w) PROVE Shape'
  BY <1>22 DEF DeadlockAbort, Blockers
<1>23. ASSUME NEW w \in Workers, NEW c \in Chars, LookupCharacter(w, c) PROVE Shape'
  BY <1>23 DEF LookupCharacter
<1>24. ASSUME NEW w \in Workers, NEW c \in Chars, SkipCharacter(w, c) PROVE Shape'
  BY <1>24 DEF SkipCharacter
<1>25. ASSUME NEW w \in Workers, NEW c \in Chars, PickCharacter(w, c) PROVE Shape'
  BY <1>25 DEF PickCharacter, MyChars
<1>26. ASSUME NEW w \in Workers, NEW c \in Chars, PromoteFields(w, c) PROVE Shape'
  BY <1>26 DEF PromoteFields, Free
<1>27. ASSUME NEW w \in Workers, NEW c \in Chars, WriteSnapshot(w, c) PROVE Shape'
  BY <1>27 DEF WriteSnapshot, Free
<1>28. ASSUME NEW w \in Workers, NEW c \in Chars, CharacterFails(w, c) PROVE Shape'
  BY <1>28 DEF CharacterFails
<1>29. ASSUME NEW w \in Workers, NEW c \in Chars, CharacterCollides(w, c) PROVE Shape'
  BY <1>29 DEF CharacterCollides, Free
<1> QED
  BY ONLY [Next]_vars,
     <1>2, <1>3, <1>4, <1>5, <1>6, <1>7, <1>8, <1>9, <1>10, <1>11, <1>12, <1>13,
     <1>14, <1>15, <1>16, <1>17, <1>18, <1>19, <1>20, <1>21, <1>22, <1>23, <1>24,
     <1>25, <1>26, <1>27, <1>28, <1>29 DEF Next, Step

\* Every step brings a sync closer to its publication ...
LEMMA SyncReadyStep == ASSUME TypeInv, JobPhases, SyncReady, [Next]_vars PROVE SyncReady'
<1>1. /\ pc \in [Workers -> {"idle", "check", "create", "token", "roster", "upsert", "write", "list",
                        "pick", "batch", "stamp", "commit", "failing", "rollback"}]
      /\ kind \in [Workers -> Kinds]
      /\ job \in [Workers -> Statuses]
      /\ stamped \in [Workers -> BOOLEAN]
      /\ synced \in [Workers -> SUBSET Chars]
      /\ failed \in [Workers -> SUBSET Chars]
  BY DEF TypeInv, TypeOK
<1> USE <1>1 DEF SyncReady, At, GoTo, db, locks, tx, loop, tally
<1>2. CASE UNCHANGED vars
  BY <1>2 DEF vars
<1>3. ASSUME NEW w \in Workers, NEW k \in Kinds, NEW a \in Accounts, Begin(w, k, a) PROVE SyncReady'
  BY <1>3 DEF Begin, Kinds
<1>4. ASSUME NEW w \in Workers, CheckRunning(w) PROVE SyncReady'
  BY <1>4 DEF CheckRunning, JobPhases, Kinds
<1>5. ASSUME NEW w \in Workers, CreateJob(w) PROVE SyncReady'
  BY <1>5 DEF CreateJob, JobPhases, Kinds
<1>6. ASSUME NEW w \in Workers, TokenValid(w) PROVE SyncReady'
  BY <1>6 DEF TokenValid
<1>7. ASSUME NEW w \in Workers, TokenRefreshed(w) PROVE SyncReady'
  BY <1>7 DEF TokenRefreshed, LockAccount, Free
<1>8. ASSUME NEW w \in Workers, TokenRefused(w) PROVE SyncReady'
  BY <1>8 DEF TokenRefused, LockAccount, Free, OnError
<1>9. ASSUME NEW w \in Workers, FetchRoster(w) PROVE SyncReady'
  BY <1>9 DEF FetchRoster, MyChars, JobPhases, Kinds
<1>10. ASSUME NEW w \in Workers, RosterFails(w) PROVE SyncReady'
  BY <1>10 DEF RosterFails, OnError
<1>11. ASSUME NEW w \in Workers, UpdateCharacter(w) PROVE SyncReady'
  BY <1>11 DEF UpdateCharacter, EndUpsert, Free
<1>12. ASSUME NEW w \in Workers, InsertCharacter(w) PROVE SyncReady'
  BY <1>12 DEF InsertCharacter, EndUpsert, Free
<1>13. ASSUME NEW w \in Workers, StampImport(w) PROVE SyncReady'
  BY <1>13 DEF StampImport, LockAccount, Free, JobPhases, Kinds
<1>14. ASSUME NEW w \in Workers, ListCharacters(w) PROVE SyncReady'
  BY <1>14 DEF ListCharacters, Visible, MyChars
<1>15. ASSUME NEW w \in Workers, PickNothing(w) PROVE SyncReady'
  BY <1>15 DEF PickNothing
<1>16. ASSUME NEW w \in Workers, FinishJob(w) PROVE SyncReady'
  BY <1>16 DEF FinishJob, StatusOf, JobPhases, Kinds
<1>17. ASSUME NEW w \in Workers, StampAccount(w) PROVE SyncReady'
  BY <1>17 DEF StampAccount, LockAccount, Free
<1>18. ASSUME NEW w \in Workers, RecordFailure(w) PROVE SyncReady'
  BY <1>18 DEF RecordFailure, LockAccount, Free
<1>19. ASSUME NEW w \in Workers, Commit(w) PROVE SyncReady'
  BY <1>19 DEF Commit, Publish, Close, Unlock
<1>20. ASSUME NEW w \in Workers, Rollback(w) PROVE SyncReady'
  BY <1>20 DEF Rollback, Close, Unlock
<1>21. ASSUME NEW w \in Workers, Crash(w) PROVE SyncReady'
  BY <1>21 DEF Crash, Close, Unlock
<1>22. ASSUME NEW w \in Workers, DeadlockAbort(w) PROVE SyncReady'
  BY <1>22 DEF DeadlockAbort, Blockers
<1>23. ASSUME NEW w \in Workers, NEW c \in Chars, LookupCharacter(w, c) PROVE SyncReady'
  BY <1>23 DEF LookupCharacter
<1>24. ASSUME NEW w \in Workers, NEW c \in Chars, SkipCharacter(w, c) PROVE SyncReady'
  BY <1>24 DEF SkipCharacter
<1>25. ASSUME NEW w \in Workers, NEW c \in Chars, PickCharacter(w, c) PROVE SyncReady'
  BY <1>25 DEF PickCharacter, MyChars
<1>26. ASSUME NEW w \in Workers, NEW c \in Chars, PromoteFields(w, c) PROVE SyncReady'
  BY <1>26 DEF PromoteFields, Free
<1>27. ASSUME NEW w \in Workers, NEW c \in Chars, WriteSnapshot(w, c) PROVE SyncReady'
  BY <1>27 DEF WriteSnapshot, Free
<1>28. ASSUME NEW w \in Workers, NEW c \in Chars, CharacterFails(w, c) PROVE SyncReady'
  BY <1>28 DEF CharacterFails
<1>29. ASSUME NEW w \in Workers, NEW c \in Chars, CharacterCollides(w, c) PROVE SyncReady'
  BY <1>29 DEF CharacterCollides, Free
<1> QED
  BY ONLY [Next]_vars,
     <1>2, <1>3, <1>4, <1>5, <1>6, <1>7, <1>8, <1>9, <1>10, <1>11, <1>12, <1>13,
     <1>14, <1>15, <1>16, <1>17, <1>18, <1>19, <1>20, <1>21, <1>22, <1>23, <1>24,
     <1>25, <1>26, <1>27, <1>28, <1>29 DEF Next, Step

\* ... an import ...
LEMMA ImportReadyStep == ASSUME TypeInv, JobPhases, Shape, ImportReady, [Next]_vars PROVE ImportReady'
<1>1. /\ pc \in [Workers -> {"idle", "check", "create", "token", "roster", "upsert", "write", "list",
                        "pick", "batch", "stamp", "commit", "failing", "rollback"}]
      /\ kind \in [Workers -> Kinds]
      /\ stamped \in [Workers -> BOOLEAN]
      /\ created \in [Workers -> SUBSET Chars]
      /\ wrote \in [Workers -> SUBSET Chars]
  BY DEF TypeInv, TypeOK
<1> USE <1>1 DEF ImportReady, At, GoTo, db, locks, tx, loop, tally
<1>2. CASE UNCHANGED vars
  BY <1>2 DEF vars
<1>3. ASSUME NEW w \in Workers, NEW k \in Kinds, NEW a \in Accounts, Begin(w, k, a) PROVE ImportReady'
  BY <1>3 DEF Begin, Kinds
<1>4. ASSUME NEW w \in Workers, CheckRunning(w) PROVE ImportReady'
  BY <1>4 DEF CheckRunning
<1>5. ASSUME NEW w \in Workers, CreateJob(w) PROVE ImportReady'
  BY <1>5 DEF CreateJob
<1>6. ASSUME NEW w \in Workers, TokenValid(w) PROVE ImportReady'
  BY <1>6 DEF TokenValid
<1>7. ASSUME NEW w \in Workers, TokenRefreshed(w) PROVE ImportReady'
  BY <1>7 DEF TokenRefreshed, LockAccount, Free
<1>8. ASSUME NEW w \in Workers, TokenRefused(w) PROVE ImportReady'
  BY <1>8 DEF TokenRefused, LockAccount, Free, OnError
<1>9. ASSUME NEW w \in Workers, FetchRoster(w) PROVE ImportReady'
  BY <1>9 DEF FetchRoster, MyChars, Shape
<1>10. ASSUME NEW w \in Workers, RosterFails(w) PROVE ImportReady'
  BY <1>10 DEF RosterFails, OnError
<1>11. ASSUME NEW w \in Workers, UpdateCharacter(w) PROVE ImportReady'
  BY <1>11 DEF UpdateCharacter, EndUpsert, Free
<1>12. ASSUME NEW w \in Workers, InsertCharacter(w) PROVE ImportReady'
  BY <1>12 DEF InsertCharacter, EndUpsert, Free
<1>13. ASSUME NEW w \in Workers, StampImport(w) PROVE ImportReady'
  BY <1>13 DEF StampImport, LockAccount, Free
<1>14. ASSUME NEW w \in Workers, ListCharacters(w) PROVE ImportReady'
  BY <1>14 DEF ListCharacters, Visible, MyChars
<1>15. ASSUME NEW w \in Workers, PickNothing(w) PROVE ImportReady'
  BY <1>15 DEF PickNothing
<1>16. ASSUME NEW w \in Workers, FinishJob(w) PROVE ImportReady'
  BY <1>16 DEF FinishJob, StatusOf, JobPhases
<1>17. ASSUME NEW w \in Workers, StampAccount(w) PROVE ImportReady'
  BY <1>17 DEF StampAccount, LockAccount, Free, JobPhases
<1>18. ASSUME NEW w \in Workers, RecordFailure(w) PROVE ImportReady'
  BY <1>18 DEF RecordFailure, LockAccount, Free
<1>19. ASSUME NEW w \in Workers, Commit(w) PROVE ImportReady'
  BY <1>19 DEF Commit, Publish, Close, Unlock
<1>20. ASSUME NEW w \in Workers, Rollback(w) PROVE ImportReady'
  BY <1>20 DEF Rollback, Close, Unlock
<1>21. ASSUME NEW w \in Workers, Crash(w) PROVE ImportReady'
  BY <1>21 DEF Crash, Close, Unlock
<1>22. ASSUME NEW w \in Workers, DeadlockAbort(w) PROVE ImportReady'
  BY <1>22 DEF DeadlockAbort, Blockers
<1>23. ASSUME NEW w \in Workers, NEW c \in Chars, LookupCharacter(w, c) PROVE ImportReady'
  BY <1>23 DEF LookupCharacter
<1>24. ASSUME NEW w \in Workers, NEW c \in Chars, SkipCharacter(w, c) PROVE ImportReady'
  BY <1>24 DEF SkipCharacter
<1>25. ASSUME NEW w \in Workers, NEW c \in Chars, PickCharacter(w, c) PROVE ImportReady'
  BY <1>25 DEF PickCharacter, MyChars
<1>26. ASSUME NEW w \in Workers, NEW c \in Chars, PromoteFields(w, c) PROVE ImportReady'
  BY <1>26 DEF PromoteFields, Free
<1>27. ASSUME NEW w \in Workers, NEW c \in Chars, WriteSnapshot(w, c) PROVE ImportReady'
  BY <1>27 DEF WriteSnapshot, Free, JobPhases
<1>28. ASSUME NEW w \in Workers, NEW c \in Chars, CharacterFails(w, c) PROVE ImportReady'
  BY <1>28 DEF CharacterFails
<1>29. ASSUME NEW w \in Workers, NEW c \in Chars, CharacterCollides(w, c) PROVE ImportReady'
  BY <1>29 DEF CharacterCollides, Free, JobPhases
<1> QED
  BY ONLY [Next]_vars,
     <1>2, <1>3, <1>4, <1>5, <1>6, <1>7, <1>8, <1>9, <1>10, <1>11, <1>12, <1>13,
     <1>14, <1>15, <1>16, <1>17, <1>18, <1>19, <1>20, <1>21, <1>22, <1>23, <1>24,
     <1>25, <1>26, <1>27, <1>28, <1>29 DEF Next, Step

\* ... and a character's refresh.
LEMMA CharacterReadyStep == ASSUME TypeInv, JobPhases, Shape, CharacterReady, [Next]_vars PROVE CharacterReady'
<1>1. /\ pc \in [Workers -> {"idle", "check", "create", "token", "roster", "upsert", "write", "list",
                        "pick", "batch", "stamp", "commit", "failing", "rollback"}]
      /\ kind \in [Workers -> Kinds]
      /\ stamped \in [Workers -> BOOLEAN]
      /\ created \in [Workers -> SUBSET Chars]
      /\ todo \in [Workers -> SUBSET Chars]
      /\ wrote \in [Workers -> SUBSET Chars]
      /\ known \in SUBSET Chars
  BY DEF TypeInv, TypeOK
<1> USE <1>1 DEF CharacterReady, At, GoTo, db, locks, tx, loop, tally
<1>2. CASE UNCHANGED vars
  BY <1>2 DEF vars
<1>3. ASSUME NEW w \in Workers, NEW k \in Kinds, NEW a \in Accounts, Begin(w, k, a) PROVE CharacterReady'
  BY <1>3 DEF Begin, Kinds
<1>4. ASSUME NEW w \in Workers, CheckRunning(w) PROVE CharacterReady'
  BY <1>4 DEF CheckRunning
<1>5. ASSUME NEW w \in Workers, CreateJob(w) PROVE CharacterReady'
  BY <1>5 DEF CreateJob
<1>6. ASSUME NEW w \in Workers, TokenValid(w) PROVE CharacterReady'
  BY <1>6 DEF TokenValid
<1>7. ASSUME NEW w \in Workers, TokenRefreshed(w) PROVE CharacterReady'
  BY <1>7 DEF TokenRefreshed, LockAccount, Free
<1>8. ASSUME NEW w \in Workers, TokenRefused(w) PROVE CharacterReady'
  BY <1>8 DEF TokenRefused, LockAccount, Free, OnError
<1>9. ASSUME NEW w \in Workers, FetchRoster(w) PROVE CharacterReady'
  BY <1>9 DEF FetchRoster, MyChars, JobPhases
<1>10. ASSUME NEW w \in Workers, RosterFails(w) PROVE CharacterReady'
  BY <1>10 DEF RosterFails, OnError
<1>11. ASSUME NEW w \in Workers, UpdateCharacter(w) PROVE CharacterReady'
  BY <1>11 DEF UpdateCharacter, EndUpsert, Free
<1>12. ASSUME NEW w \in Workers, InsertCharacter(w) PROVE CharacterReady'
  BY <1>12 DEF InsertCharacter, EndUpsert, Free, JobPhases
<1>13. ASSUME NEW w \in Workers, StampImport(w) PROVE CharacterReady'
  BY <1>13 DEF StampImport, LockAccount, Free, JobPhases
<1>14. ASSUME NEW w \in Workers, ListCharacters(w) PROVE CharacterReady'
  BY <1>14 DEF ListCharacters, Visible, MyChars, JobPhases
<1>15. ASSUME NEW w \in Workers, PickNothing(w) PROVE CharacterReady'
  BY <1>15 DEF PickNothing
<1>16. ASSUME NEW w \in Workers, FinishJob(w) PROVE CharacterReady'
  BY <1>16 DEF FinishJob, StatusOf
<1>17. ASSUME NEW w \in Workers, StampAccount(w) PROVE CharacterReady'
  BY <1>17 DEF StampAccount, LockAccount, Free, JobPhases
<1>18. ASSUME NEW w \in Workers, RecordFailure(w) PROVE CharacterReady'
  BY <1>18 DEF RecordFailure, LockAccount, Free
<1>19. ASSUME NEW w \in Workers, Commit(w) PROVE CharacterReady'
  BY <1>19 DEF Commit, Publish, Close, Unlock
<1>20. ASSUME NEW w \in Workers, Rollback(w) PROVE CharacterReady'
  BY <1>20 DEF Rollback, Close, Unlock
<1>21. ASSUME NEW w \in Workers, Crash(w) PROVE CharacterReady'
  BY <1>21 DEF Crash, Close, Unlock
<1>22. ASSUME NEW w \in Workers, DeadlockAbort(w) PROVE CharacterReady'
  BY <1>22 DEF DeadlockAbort, Blockers
<1>23. ASSUME NEW w \in Workers, NEW c \in Chars, LookupCharacter(w, c) PROVE CharacterReady'
  BY <1>23 DEF LookupCharacter
<1>24. ASSUME NEW w \in Workers, NEW c \in Chars, SkipCharacter(w, c) PROVE CharacterReady'
  BY <1>24 DEF SkipCharacter
<1>25. ASSUME NEW w \in Workers, NEW c \in Chars, PickCharacter(w, c) PROVE CharacterReady'
  BY <1>25 DEF PickCharacter, MyChars
<1>26. ASSUME NEW w \in Workers, NEW c \in Chars, PromoteFields(w, c) PROVE CharacterReady'
  BY <1>26 DEF PromoteFields, Free
<1>27. ASSUME NEW w \in Workers, NEW c \in Chars, WriteSnapshot(w, c) PROVE CharacterReady'
  BY <1>27 DEF WriteSnapshot, Free
<1>28. ASSUME NEW w \in Workers, NEW c \in Chars, CharacterFails(w, c) PROVE CharacterReady'
  BY <1>28 DEF CharacterFails
<1>29. ASSUME NEW w \in Workers, NEW c \in Chars, CharacterCollides(w, c) PROVE CharacterReady'
  BY <1>29 DEF CharacterCollides, Free
<1> QED
  BY ONLY [Next]_vars,
     <1>2, <1>3, <1>4, <1>5, <1>6, <1>7, <1>8, <1>9, <1>10, <1>11, <1>12, <1>13,
     <1>14, <1>15, <1>16, <1>17, <1>18, <1>19, <1>20, <1>21, <1>22, <1>23, <1>24,
     <1>25, <1>26, <1>27, <1>28, <1>29 DEF Next, Step

\* Every step keeps the runs of open sessions unpublished and distinct.
LEMMA FreshRunsStep == ASSUME TypeInv, FreshRuns, [Next]_vars PROVE FreshRuns'
<1>1. /\ pc \in [Workers -> {"idle", "check", "create", "token", "roster", "upsert", "write", "list",
                        "pick", "batch", "stamp", "commit", "failing", "rollback"}]
      /\ run \in [Workers -> 0 .. MaxRuns]
      /\ begun \in 0 .. MaxRuns
      /\ jobs \in [Runs -> [status : Statuses, account : SUBSET Accounts,
                        synced : SUBSET Chars, failed : SUBSET Chars]]
  BY DEF TypeInv, TypeOK
<1> USE <1>1 DEF FreshRuns, At, GoTo, db, locks, tx, loop, tally
<1>2. CASE UNCHANGED vars
  BY <1>2 DEF vars
<1>3. ASSUME NEW w \in Workers, NEW k \in Kinds, NEW a \in Accounts, Begin(w, k, a) PROVE FreshRuns'
  BY <1>3 DEF Begin, Kinds
<1>4. ASSUME NEW w \in Workers, CheckRunning(w) PROVE FreshRuns'
  <2>1. (\E step \in {"rollback", "create"} : pc' = [pc EXCEPT ![w] = step]) /\ pc[w] = "check"
    BY <1>4 DEF CheckRunning
  <2>2. UNCHANGED <<jobs, begun, run>>
    BY <1>4 DEF CheckRunning
  <2> QED
    BY <2>1, <2>2
<1>5. ASSUME NEW w \in Workers, CreateJob(w) PROVE FreshRuns'
  BY <1>5 DEF CreateJob
<1>6. ASSUME NEW w \in Workers, TokenValid(w) PROVE FreshRuns'
  BY <1>6 DEF TokenValid
<1>7. ASSUME NEW w \in Workers, TokenRefreshed(w) PROVE FreshRuns'
  BY <1>7 DEF TokenRefreshed, LockAccount, Free
<1>8. ASSUME NEW w \in Workers, TokenRefused(w) PROVE FreshRuns'
  BY <1>8 DEF TokenRefused, LockAccount, Free, OnError
<1>9. ASSUME NEW w \in Workers, FetchRoster(w) PROVE FreshRuns'
  BY <1>9 DEF FetchRoster, MyChars
<1>10. ASSUME NEW w \in Workers, RosterFails(w) PROVE FreshRuns'
  BY <1>10 DEF RosterFails, OnError
<1>11. ASSUME NEW w \in Workers, UpdateCharacter(w) PROVE FreshRuns'
  BY <1>11 DEF UpdateCharacter, EndUpsert, Free
<1>12. ASSUME NEW w \in Workers, InsertCharacter(w) PROVE FreshRuns'
  <2>1. (\E step \in {"rollback", "upsert"} : pc' = [pc EXCEPT ![w] = step]) /\ pc[w] = "write"
    BY <1>12 DEF InsertCharacter, EndUpsert
  <2>2. UNCHANGED <<jobs, begun, run>>
    BY <1>12 DEF InsertCharacter
  <2> QED
    BY <2>1, <2>2
<1>13. ASSUME NEW w \in Workers, StampImport(w) PROVE FreshRuns'
  BY <1>13 DEF StampImport, LockAccount, Free
<1>14. ASSUME NEW w \in Workers, ListCharacters(w) PROVE FreshRuns'
  BY <1>14 DEF ListCharacters, Visible, MyChars
<1>15. ASSUME NEW w \in Workers, PickNothing(w) PROVE FreshRuns'
  BY <1>15 DEF PickNothing
<1>16. ASSUME NEW w \in Workers, FinishJob(w) PROVE FreshRuns'
  <2>1. (\E step \in {"commit", "stamp"} : pc' = [pc EXCEPT ![w] = step]) /\ pc[w] = "batch"
    BY <1>16 DEF FinishJob
  <2>2. UNCHANGED <<jobs, begun, run>>
    BY <1>16 DEF FinishJob
  <2> QED
    BY <2>1, <2>2
<1>17. ASSUME NEW w \in Workers, StampAccount(w) PROVE FreshRuns'
  BY <1>17 DEF StampAccount, LockAccount, Free
<1>18. ASSUME NEW w \in Workers, RecordFailure(w) PROVE FreshRuns'
  BY <1>18 DEF RecordFailure, LockAccount, Free
<1>19. ASSUME NEW w \in Workers, Commit(w) PROVE FreshRuns'
  BY <1>19 DEF Commit, Publish, Close, Unlock
<1>20. ASSUME NEW w \in Workers, Rollback(w) PROVE FreshRuns'
  BY <1>20 DEF Rollback, Close, Unlock
<1>21. ASSUME NEW w \in Workers, Crash(w) PROVE FreshRuns'
  BY <1>21 DEF Crash, Close, Unlock
<1>22. ASSUME NEW w \in Workers, DeadlockAbort(w) PROVE FreshRuns'
  BY <1>22 DEF DeadlockAbort, Blockers
<1>23. ASSUME NEW w \in Workers, NEW c \in Chars, LookupCharacter(w, c) PROVE FreshRuns'
  BY <1>23 DEF LookupCharacter
<1>24. ASSUME NEW w \in Workers, NEW c \in Chars, SkipCharacter(w, c) PROVE FreshRuns'
  BY <1>24 DEF SkipCharacter
<1>25. ASSUME NEW w \in Workers, NEW c \in Chars, PickCharacter(w, c) PROVE FreshRuns'
  BY <1>25 DEF PickCharacter, MyChars
<1>26. ASSUME NEW w \in Workers, NEW c \in Chars, PromoteFields(w, c) PROVE FreshRuns'
  BY <1>26 DEF PromoteFields, Free
<1>27. ASSUME NEW w \in Workers, NEW c \in Chars, WriteSnapshot(w, c) PROVE FreshRuns'
  BY <1>27 DEF WriteSnapshot, Free
<1>28. ASSUME NEW w \in Workers, NEW c \in Chars, CharacterFails(w, c) PROVE FreshRuns'
  <2>1. pc' = [pc EXCEPT ![w] = "rollback"] \/ pc' = pc
    BY <1>28 DEF CharacterFails
  <2>2. pc[w] = "batch" /\ UNCHANGED <<jobs, begun, run>>
    BY <1>28 DEF CharacterFails
  <2> QED
    BY <2>1, <2>2
<1>29. ASSUME NEW w \in Workers, NEW c \in Chars, CharacterCollides(w, c) PROVE FreshRuns'
  BY <1>29 DEF CharacterCollides, Free
<1> QED
  BY ONLY [Next]_vars,
     <1>2, <1>3, <1>4, <1>5, <1>6, <1>7, <1>8, <1>9, <1>10, <1>11, <1>12, <1>13,
     <1>14, <1>15, <1>16, <1>17, <1>18, <1>19, <1>20, <1>21, <1>22, <1>23, <1>24,
     <1>25, <1>26, <1>27, <1>28, <1>29 DEF Next, Step

\* The strengthened invariant of the refinement holds in every reachable state.
LEMMA Publications ==
  Spec => [](Shape /\ SyncReady /\ ImportReady /\ CharacterReady /\ FreshRuns)
<1>1. Init => Shape /\ SyncReady /\ ImportReady /\ CharacterReady /\ FreshRuns
  BY DEF Init, Shape, SyncReady, ImportReady, CharacterReady, FreshRuns, NoJob
<1>2. /\ TypeInv /\ JobPhases
      /\ Shape /\ SyncReady /\ ImportReady /\ CharacterReady /\ FreshRuns
      /\ [Next]_vars
      => (Shape /\ SyncReady /\ ImportReady /\ CharacterReady /\ FreshRuns)'
  BY ShapeStep, SyncReadyStep, ImportReadyStep, CharacterReadyStep, FreshRunsStep
<1> QED
  BY <1>1, <1>2, Invariants, PTL DEF Spec

\* A commit is one of the abstract publications, or publishes nothing.
LEMMA CommitRefines ==
  ASSUME TypeInv, JobPhases, Written, Shape, SyncReady, ImportReady, CharacterReady, FreshRuns,
         NEW w \in Workers, Commit(w)
  PROVE  Atomic!PNext \/ UNCHANGED Atomic!pvars
<1>1. /\ pc[w] = "commit"
      /\ account[w] \in Accounts
      /\ run[w] \in Runs
      /\ kind[w] \in Kinds
  BY DEF Commit, At, TypeInv, TypeOK, Busy
<1>2. /\ jobs \in [Runs -> [status : Statuses, account : SUBSET Accounts,
                           synced : SUBSET Chars, failed : SUBSET Chars]]
      /\ stamp \in [Accounts -> SUBSET Runs]
      /\ snap \in [Chars -> SUBSET Runs]
      /\ wrote[w] \in SUBSET Chars
  BY DEF TypeInv, TypeOK
<1>3. /\ known' = known \cup created[w]
      /\ snap' = [c \in Chars |-> IF c \in wrote[w] THEN {run[w]} ELSE snap[c]]
      /\ stamp' = IF stamped[w] THEN [stamp EXCEPT ![account[w]] = {run[w]}] ELSE stamp
      /\ jobs' = IF job[w] = "none" THEN jobs
                 ELSE [jobs EXCEPT ![run[w]] = [status |-> job[w], account |-> {account[w]},
                                                synced |-> synced[w], failed |-> failed[w]]]
  BY DEF Commit, Publish
<1>4. created[w] \subseteq CharsOf[account[w]]
  BY <1>1 DEF Shape
<1>5. CASE kind[w] \in {"sync", "resync"}
  <2>1. /\ job[w] = StatusOf(synced[w], failed[w])
        /\ stamped[w]
    BY <1>1, <1>5 DEF SyncReady
  <2>2. job[w] # "none"
    BY <2>1 DEF StatusOf
  <2>3. /\ synced[w] \in SUBSET CharsOf[account[w]]
        /\ failed[w] \in SUBSET CharsOf[account[w]]
        /\ wrote[w] \in SUBSET CharsOf[account[w]]
        /\ synced[w] \cap failed[w] = {}
        /\ wrote[w] \subseteq synced[w] \cup failed[w]
    BY <1>1 DEF Shape
  <2>4. synced[w] \subseteq wrote[w]
    BY DEF Written
  <2>5. jobs[run[w]].status = "none"
    BY <1>1 DEF FreshRuns
  <2>6. Atomic!PublishSync(run[w], account[w])
    <3>1. jobs' = [jobs EXCEPT ![run[w]] =
                    [status |-> Atomic!StatusOf(synced[w], failed[w]), account |-> {account[w]},
                     synced |-> synced[w], failed |-> failed[w]]]
      BY <1>3, <2>1, <2>2 DEF StatusOf, Atomic!StatusOf
    <3>2. stamp' = [stamp EXCEPT ![account[w]] = {run[w]}]
      BY <1>3, <2>1
    <3>3. created[w] \in SUBSET CharsOf[account[w]]
      BY <1>4
    <3> SUFFICES \E ok, bad, wr, new \in SUBSET CharsOf[account[w]] :
                   /\ ok \cap bad = {}
                   /\ ok \subseteq wr
                   /\ wr \subseteq ok \cup bad
                   /\ jobs[run[w]].status = "none"
                   /\ jobs' = [jobs EXCEPT ![run[w]] =
                                [status |-> Atomic!StatusOf(ok, bad), account |-> {account[w]},
                                 synced |-> ok, failed |-> bad]]
                   /\ stamp' = [stamp EXCEPT ![account[w]] = {run[w]}]
                   /\ known' = known \cup new
                   /\ snap' = [c \in Chars |-> IF c \in wr THEN {run[w]} ELSE snap[c]]
      BY Zenon DEF Atomic!PublishSync
    <3> USE <2>3, <3>3
    <3> WITNESS synced[w] \in SUBSET CharsOf[account[w]], failed[w] \in SUBSET CharsOf[account[w]],
                wrote[w] \in SUBSET CharsOf[account[w]], created[w] \in SUBSET CharsOf[account[w]]
    <3> QED
      BY <1>3, <2>3, <2>4, <2>5, <3>1, <3>2
  <2> QED
    BY <1>1, <2>6 DEF Atomic!PNext
<1>6. CASE kind[w] = "import"
  <2>1. job[w] = "none" /\ wrote[w] = {}
    BY <1>6 DEF JobPhases, ImportReady
  <2>2. snap' = snap /\ jobs' = jobs
    BY <1>2, <1>3, <2>1
  <2>3. CASE stamped[w]
    <3>1. Atomic!PublishImport(run[w], account[w])
      BY <1>3, <1>4, <2>2, <2>3 DEF Atomic!PublishImport
    <3> QED
      BY <1>1, <3>1 DEF Atomic!PNext
  <2>4. CASE ~ stamped[w]
    <3>1. created[w] = {}
      BY <1>1, <1>6, <2>4 DEF ImportReady
    <3> QED
      BY <1>3, <2>2, <2>4, <3>1 DEF Atomic!pvars
  <2> QED
    BY <2>3, <2>4
<1>7. CASE kind[w] = "character"
  <2>1. job[w] = "none" /\ created[w] = {} /\ ~ stamped[w]
    BY <1>7 DEF JobPhases, CharacterReady
  <2>2. PICK c \in known : wrote[w] = {c}
    BY <1>1, <1>7 DEF CharacterReady
  <2>3. c \in Chars
    BY <1>2, <2>2
  <2>4. snap' = [snap EXCEPT ![c] = {run[w]}]
    BY <1>2, <1>3, <2>2, <2>3
  <2>5. Atomic!PublishCharacter(run[w], c)
    BY <1>3, <2>1, <2>2, <2>4 DEF Atomic!PublishCharacter
  <2> QED
    BY <1>1, <2>3, <2>5 DEF Atomic!PNext
<1> QED
  BY <1>1, <1>5, <1>6, <1>7 DEF Kinds

\* SyncJobs implements AtomicSync: to a reader of the database every
\* transaction is a single step or nothing.
THEOREM PublicationIsAtomic == Spec => AtomicPublication
<1>1. Init => Atomic!PInit
  BY DEF Init, Atomic!PInit, NoJob, Atomic!NoJob
<1>2. /\ TypeInv /\ JobPhases /\ Written
      /\ Shape /\ SyncReady /\ ImportReady /\ CharacterReady /\ FreshRuns
      /\ [Next]_vars
      => [Atomic!PNext]_(Atomic!pvars)
  <2> SUFFICES ASSUME TypeInv, JobPhases, Written,
                      Shape, SyncReady, ImportReady, CharacterReady, FreshRuns, [Next]_vars
               PROVE  Atomic!PNext \/ UNCHANGED Atomic!pvars
    OBVIOUS
  <2>1. CASE UNCHANGED db
    BY <2>1 DEF db, Atomic!pvars
  <2>2. CASE \E w \in Workers : Commit(w)
    BY <2>2, CommitRefines
  <2> QED
    BY <2>1, <2>2, OnlyCommitPublishes
<1> QED
  BY <1>1, <1>2, Invariants, Publications, PTL DEF Spec, AtomicPublication, Atomic!PSpec
===============================================================================
