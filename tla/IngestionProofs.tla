---------------------------- MODULE IngestionProofs ----------------------------
(***************************************************************************)
(* What TLAPS proves of Ingestion for any documents, runs and bounds: the  *)
(* types, what is recorded of a run, and that it implements the index a    *)
(* reader sees.                                                            *)
(***************************************************************************)
EXTENDS Ingestion, TLAPS

Statuses == {"none", "running", "completed", "partial", "failed"}
Run == [pc : {"idle", "fetch", "embed", "write", "chunks", "fatal", "returned", "raised", "died"},
        todo : SUBSET Docs, held : [Docs -> Versions], changed : SUBSET Docs,
        doc : Docs \cup {NoDoc}, docs : [Docs -> Versions], chunks : [Docs -> Versions],
        aborted : BOOLEAN, dirty : SUBSET Docs, row : {"new", "kept", "lost", "forgotten"},
        errors : BOOLEAN, wrote : BOOLEAN, safe : SUBSET Docs]

\* What a run holds and has written is content that the source has had.
Genuine(q) == \A d \in Docs : q.held[d] <= site[d] /\ q.docs[d] <= site[d]

\* A run writes in its write steps only; unless its transaction is in error,
\* it has written a document with its chunks, or is about to write them.
Paired(q) ==
  /\ q.pc \notin {"write", "chunks"} => q.docs = Nothing /\ q.chunks = Nothing
  /\ q.pc = "write" /\ ~q.aborted => q.docs = q.chunks
  /\ q.pc = "chunks" => /\ ~q.aborted /\ q.doc \in Docs /\ q.docs[q.doc] = q.held[q.doc]
                        /\ \A d \in Docs \ {q.doc} : q.docs[d] = q.chunks[d]

\* What the session believes of the run's own row, and what is committed.
Audited(q, status) ==
  /\ q.row = "new" /\ q.pc # "returned" => status = "none"
  /\ q.row \in {"forgotten", "lost"} => status = "none"
  /\ q.pc = "returned" => /\ q.row # "lost"
                          /\ q.row # "forgotten" => status \notin {"none", "running"}

Whole == docs = chunks /\ \A d \in Docs : docs[d] <= site[d]

Inv ==
  /\ TypeOK /\ Whole
  /\ \A r \in Runs : Genuine(run[r]) /\ Paired(run[r]) /\ Audited(run[r], audit[r])

-------------------------------------------------------------------------------

LEMMA InitInv == Init => Inv
<1> SUFFICES ASSUME Init PROVE Inv
  OBVIOUS
<1>1. Nothing \in [Docs -> Versions] /\ 1 \in Versions \ {0} /\ \A d \in Docs : Nothing[d] = 0
  BY ConstantsAssumption DEF Nothing, Versions
<1>2. Fresh \in Run
  BY <1>1 DEF Fresh, Run
<1>3. TypeOK
  BY <1>1, <1>2, ConstantsAssumption DEF Init, TypeOK, Run
<1> QED
  BY <1>1, <1>3 DEF Init, Inv, Whole, Genuine, Paired, Audited, Fresh

\* A step of one run keeps the invariant if it leaves that run in order.
LEMMA RunSteps ==
  ASSUME Inv, NEW r \in Runs, NEW q \in Run, NEW status \in Statuses,
         Genuine(q), Paired(q), Audited(q, status),
         run' = [run EXCEPT ![r] = q], audit' = [audit EXCEPT ![r] = status],
         site' = site, faults' \in 0 .. MaxFaults,
         docs' \in [Docs -> Versions], docs' = chunks', \A d \in Docs : docs'[d] <= site[d]
  PROVE  Inv'
<1>1. TypeOK'
  <2>1. run \in [Runs -> Run] /\ audit \in [Runs -> Statuses]
    BY DEF Inv, TypeOK, Run, Statuses
  <2>2. run' \in [Runs -> Run] /\ audit' \in [Runs -> Statuses]
    BY <2>1
  <2> QED
    BY <2>2 DEF Inv, TypeOK, Run, Statuses
<1>2. Whole'
  BY DEF Whole
<1>3. ASSUME NEW s \in Runs
      PROVE  (Genuine(run[s]) /\ Paired(run[s]) /\ Audited(run[s], audit[s]))'
  <2>1. CASE s = r
    <3>1. run'[s] = q /\ audit'[s] = status
      BY <2>1 DEF Inv, TypeOK
    <3> QED
      BY <3>1 DEF Genuine, Paired, Audited
  <2>2. CASE s # r
    <3>1. run'[s] = run[s] /\ audit'[s] = audit[s]
      BY <2>2 DEF Inv, TypeOK
    <3> QED
      BY <3>1 DEF Inv, Genuine, Paired, Audited
  <2> QED
    BY <2>1, <2>2
<1> QED
  BY <1>1, <1>2, <1>3 DEF Inv

\* The same of a step that commits nothing.
LEMMA QuietSteps ==
  ASSUME Inv, NEW r \in Runs, NEW q \in Run, Genuine(q), Paired(q), Audited(q, audit[r]),
         run' = [run EXCEPT ![r] = q], UNCHANGED <<site, docs, chunks, audit>>,
         faults' \in 0 .. MaxFaults
  PROVE  Inv'
<1>1. audit[r] \in Statuses /\ audit' = [audit EXCEPT ![r] = audit[r]]
  BY DEF Inv, TypeOK, Statuses
<1>2. /\ docs' \in [Docs -> Versions] /\ docs' = chunks'
      /\ \A d \in Docs : docs'[d] <= site[d]
  BY DEF Inv, TypeOK, Whole
<1> QED
  BY <1>1, <1>2, RunSteps

LEMMA EditKeeps ==
  ASSUME Inv, NEW d \in Docs, Edit(d)
  PROVE  Inv'
<1>1. site' \in [Docs -> Versions \ {0}] /\ \A e \in Docs : site[e] \in Nat /\ site[e] <= site'[e]
  BY ConstantsAssumption DEF Inv, TypeOK, Edit, Versions
<1>2. TypeOK'
  BY <1>1 DEF Inv, TypeOK, Edit
<1>3. ASSUME NEW e \in Docs, NEW n \in Versions, n <= site[e]
      PROVE  n <= site'[e]
  BY <1>1, <1>3 DEF Versions, TypeOK, Inv
<1>4. \A e \in Docs : docs[e] \in Versions
  BY DEF Inv, TypeOK
<1>5. \A r \in Runs, e \in Docs : run[r].held[e] \in Versions /\ run[r].docs[e] \in Versions
  BY DEF Inv, TypeOK
<1>6. Whole'
  BY <1>3, <1>4 DEF Inv, Whole, Edit
<1>7. \A r \in Runs : Genuine(run[r])'
  BY <1>3, <1>5 DEF Inv, Genuine, Edit
<1>8. \A r \in Runs : Paired(run[r])' /\ Audited(run[r], audit[r])'
  BY DEF Inv, Paired, Audited, Edit
<1> QED
  BY <1>2, <1>6, <1>7, <1>8 DEF Inv


\* A run's values, and those of the failures.
LEMMA Known ==
  ASSUME Inv, NEW r \in Runs
  PROVE  /\ run[r] \in Run /\ audit[r] \in Statuses /\ faults \in 0 .. MaxFaults
         /\ Genuine(run[r]) /\ Paired(run[r]) /\ Audited(run[r], audit[r])
         /\ docs \in [Docs -> Versions] /\ docs = chunks
         /\ site \in [Docs -> Versions] /\ \A d \in Docs : docs[d] <= site[d]
  BY DEF Inv, TypeOK, Run, Statuses, Whole

LEMMA RunTyped == ASSUME Inv, NEW r \in Runs PROVE run[r] \in Run
  BY Known

\* The values that the fields of a run are given.
LEMMA FatalTyped ==
  ASSUME NEW q \in Run, NEW n \in [Docs -> Versions]
  PROVE  [q EXCEPT !.pc = "fatal", !.held = n, !.errors = TRUE] \in Run
  BY DEF Run

LEMMA FaultCounts == ASSUME Inv, Fault PROVE faults' \in 0 .. MaxFaults
  BY ConstantsAssumption DEF Inv, TypeOK, Fault

\* The empty batch: nothing is held or written, and nothing is claimed.
LEMMA NothingHeld ==
  /\ Nothing \in [Docs -> Versions]
  /\ \A d \in Docs : Nothing[d] = 0
  BY ConstantsAssumption DEF Nothing, Versions

LEMMA StartKeeps ==
  ASSUME Inv, NEW r \in Runs, Start(r)
  PROVE  Inv'
<1> DEFINE q == [run[r] EXCEPT !.pc = "fetch", !.todo = Listed[r]]
<1>0. Listed[r] \in SUBSET Docs
  BY ConstantsAssumption
<1>1. run[r] \in Run /\ Genuine(run[r]) /\ Paired(run[r]) /\ Audited(run[r], audit[r])
      /\ run[r].pc = "idle"
  BY Known DEF Start
<1>3. q \in Run
  <2>1. ASSUME NEW u \in Run PROVE [u EXCEPT !.pc = "fetch", !.todo = Listed[r]] \in Run
    BY <1>0 DEF Run
  <2> QED
    BY ONLY <1>1, <2>1
<1>4. Genuine(q) /\ Paired(q) /\ Audited(q, audit[r])
  BY <1>1 DEF Run, Genuine, Paired, Audited
<1>2. run' = [run EXCEPT ![r] = q] /\ UNCHANGED <<site, docs, chunks, audit>> /\ faults' \in 0 .. MaxFaults
  BY Known DEF Start
<1> QED
  BY <1>2, <1>3, <1>4, QuietSteps

LEMMA FetchKeeps ==
  ASSUME Inv, NEW r \in Runs, Fetch(r)
  PROVE  Inv'
<1>1. PICK d \in Docs :
        \/ /\ run' = [run EXCEPT ![r].todo = @ \ {d}, ![r].held[d] = site[d]] /\ UNCHANGED faults
        \/ run' = [run EXCEPT ![r].todo = @ \ {d}, ![r].errors = TRUE] /\ Fault
  BY Known DEF Fetch, First, Run
<1>2. UNCHANGED <<site, docs, chunks, audit>> /\ run[r].pc = "fetch"
  BY DEF Fetch
<1>3. CASE run' = [run EXCEPT ![r].todo = @ \ {d}, ![r].held[d] = site[d]] /\ UNCHANGED faults
  <2> DEFINE held == [run[r].held EXCEPT ![d] = site[d]]
             q == [run[r] EXCEPT !.todo = @ \ {d}, !.held[d] = site[d]]
  <2>1. site[d] \in Versions /\ site[d] <= site[d]
    BY Known DEF Versions
  <2>2. run[r] \in Run /\ held \in [Docs -> Versions] /\ \A e \in Docs : held[e] <= site[e]
    BY <2>1, Known DEF Run, Genuine
  <2>3. q = [run[r] EXCEPT !.todo = @ \ {d}, !.held = held]
    BY <2>2 DEF Run
  <2>4. run' = [run EXCEPT ![r] = q]
    BY <1>3
  <2> HIDE DEF q, held
  <2>5. q \in Run
    BY <2>2, <2>3 DEF Run
  <2>6. Genuine(q) /\ Paired(q) /\ Audited(q, audit[r])
    <3>1. Genuine(run[r]) /\ Paired(run[r]) /\ Audited(run[r], audit[r]) /\ run[r] \in Run
      BY Known
    <3>2. Genuine(q)
      BY <1>2, <2>2, <2>3, <3>1 DEF Run, Genuine
    <3>3. Paired(q)
      BY <1>2, <2>2, <2>3, <3>1 DEF Run, Paired
    <3>4. Audited(q, audit[r])
      BY <1>2, <2>2, <2>3, <3>1 DEF Run, Audited
    <3> QED
      BY <3>2, <3>3, <3>4
  <2> QED
    BY <1>2, <1>3, <2>4, <2>5, <2>6, Known, QuietSteps
<1>4. CASE run' = [run EXCEPT ![r].todo = @ \ {d}, ![r].errors = TRUE] /\ Fault
  <2> DEFINE q == [run[r] EXCEPT !.todo = @ \ {d}, !.errors = TRUE]
  <2>1. q \in Run
    BY RunTyped, ZenonT(60) DEF Run
  <2>2. Genuine(q) /\ Paired(q) /\ Audited(q, audit[r])
    <3>1. Genuine(run[r]) /\ Paired(run[r]) /\ Audited(run[r], audit[r])
      BY Known
    <3>2. /\ q.pc = run[r].pc /\ q.held = run[r].held /\ q.docs = run[r].docs /\ q.chunks = run[r].chunks
          /\ q.row = run[r].row /\ q.aborted = run[r].aborted /\ q.doc = run[r].doc
      BY RunTyped DEF Run
    <3> HIDE DEF q
    <3> QED
      BY <3>1, <3>2 DEF Genuine, Paired, Audited
  <2>3. run' = [run EXCEPT ![r] = q] /\ faults' \in 0 .. MaxFaults
    BY <1>4, FaultCounts
  <2> QED
    BY <1>2, <2>1, <2>2, <2>3, QuietSteps
<1> QED
  BY <1>1, <1>3, <1>4

LEMMA SourceFailsKeeps ==
  ASSUME Inv, NEW r \in Runs, SourceFails(r)
  PROVE  Inv'
<1> DEFINE q == [run[r] EXCEPT !.pc = "fatal", !.held = Nothing, !.errors = TRUE]
<1>1. run[r].pc = "fetch" /\ \A d \in Docs : 0 <= site[d]
  BY Known, ConstantsAssumption DEF SourceFails, Versions
<1>2. q \in Run
  BY RunTyped, NothingHeld, FatalTyped
<1>3. Genuine(q) /\ Paired(q) /\ Audited(q, audit[r])
  BY <1>1, Known, NothingHeld DEF Run, Genuine, Paired, Audited
<1>4. run' = [run EXCEPT ![r] = q] /\ UNCHANGED <<site, docs, chunks, audit>> /\ faults' \in 0 .. MaxFaults
  BY FaultCounts DEF SourceFails
<1> QED
  BY <1>2, <1>3, <1>4, QuietSteps

LEMMA CheckKeeps ==
  ASSUME Inv, NEW r \in Runs, Check(r)
  PROVE  Inv'
<1> DEFINE current == {d \in Pending(r) : docs[d] = run[r].held[d]}
           changed == Pending(r) \ current
           q == [run[r] EXCEPT !.pc = "embed", !.changed = changed, !.safe = @ \cup current]
<1>1. Pending(r) \subseteq Docs /\ run[r].pc = "fetch"
  BY DEF Pending, Check
<1>2. run' = [run EXCEPT ![r] = q] /\ UNCHANGED <<site, docs, chunks, audit, faults>>
  BY DEF Check
<1>3. changed \in SUBSET Docs /\ current \in SUBSET Docs
  BY <1>1
<1> HIDE DEF current, changed
<1>4. q \in Run
  <2>1. ASSUME NEW u \in Run
        PROVE  [u EXCEPT !.pc = "embed", !.changed = changed, !.safe = @ \cup current] \in Run
    BY <1>3 DEF Run
  <2>2. run[r] \in Run
    BY RunTyped
  <2> QED
    BY ONLY <2>1, <2>2
<1>5. Genuine(q) /\ Paired(q) /\ Audited(q, audit[r])
  BY <1>1, <1>3, Known DEF Run, Genuine, Paired, Audited
<1> QED
  BY <1>2, <1>4, <1>5, Known, QuietSteps

-------------------------------------------------------------------------------

\* A batch that ends leaves the run with nothing held, written or claimed.
LEMMA ClearedBatch ==
  ASSUME Inv, NEW q \in Run
  PROVE  /\ Cleared(q) \in Run /\ Cleared(q).pc = "fetch" /\ Cleared(q).row = q.row
         /\ Cleared(q).safe = q.safe
         /\ Cleared(q).docs = Nothing /\ Cleared(q).chunks = Nothing /\ Genuine(Cleared(q))
<1>1. Nothing \in [Docs -> Versions] /\ NoDoc \in Docs \cup {NoDoc}
  BY NothingHeld
<1>2. Cleared(q) \in Run
  <2>1. ASSUME NEW n \in [Docs -> Versions], NEW x \in Docs \cup {NoDoc}
        PROVE  [q EXCEPT !.pc = "fetch", !.held = n, !.changed = {}, !.doc = x, !.docs = n,
                         !.chunks = n, !.aborted = FALSE, !.dirty = {}] \in Run
    BY DEF Run
  <2> QED
    BY <1>1, <2>1 DEF Cleared
<1>3. /\ Cleared(q).pc = "fetch" /\ Cleared(q).row = q.row /\ Cleared(q).safe = q.safe
      /\ Cleared(q).docs = Nothing /\ Cleared(q).held = Nothing /\ Cleared(q).chunks = Nothing
  BY DEF Run, Cleared
<1>4. \A d \in Docs : 0 <= site[d]
  BY ConstantsAssumption DEF Inv, TypeOK, Versions
<1> QED
  BY <1>2, <1>3, <1>4, NothingHeld DEF Genuine

\* A run that is left at the start of a batch is in order if its row is.
LEMMA AtFetch ==
  ASSUME NEW q \in Run, q.pc \in {"fetch", "fatal"}, NEW status,
         q.docs = Nothing, q.chunks = Nothing,
         q.row \in {"new", "forgotten", "lost"} => status = "none"
  PROVE  Paired(q) /\ Audited(q, status)
  BY DEF Paired, Audited, Run

\* A batch that is committed.
LEMMA KeptBatch ==
  ASSUME Inv, NEW q \in Run
  PROVE  /\ Kept(q) \in Run /\ Kept(q).pc = "fetch" /\ Kept(q).docs = Nothing /\ Kept(q).chunks = Nothing
         /\ Genuine(Kept(q)) /\ Kept(q).safe = q.safe
         /\ Kept(q).row # "new"
         /\ Kept(q).row \in {"forgotten", "lost"} => q.row = Kept(q).row
<1> DEFINE c == Cleared(q)
<1>1. /\ c \in Run /\ c.pc = "fetch" /\ c.row = q.row /\ c.docs = Nothing /\ c.chunks = Nothing
      /\ c.safe = q.safe /\ Genuine(c)
  BY ClearedBatch
<1>2. Kept(q) = [c EXCEPT !.row = IF q.row = "new" THEN "kept" ELSE q.row]
  BY DEF Kept
<1> HIDE DEF c
<1> QED
  BY <1>1, <1>2 DEF Run, Genuine

LEMMA NothingChangedKeeps ==
  ASSUME Inv, NEW r \in Runs, NothingChanged(r)
  PROVE  Inv'
<1> DEFINE q == Kept(run[r])
           status == IF run[r].row = "new" THEN "running" ELSE audit[r]
<1>1. run[r] \in Run /\ audit[r] \in Statuses /\ Audited(run[r], audit[r]) /\ run[r].pc = "embed"
  BY Known DEF NothingChanged
<1>2. /\ q \in Run /\ q.pc = "fetch" /\ q.docs = Nothing /\ q.chunks = Nothing /\ Genuine(q)
      /\ q.row # "new" /\ (q.row \in {"forgotten", "lost"} => run[r].row = q.row)
  BY <1>1, KeptBatch
<1>3. /\ run' = [run EXCEPT ![r] = q] /\ UNCHANGED <<site, docs, chunks, faults>>
      /\ audit' = [audit EXCEPT ![r] = status]
  <2>1. run' = [run EXCEPT ![r] = q] /\ UNCHANGED <<site, docs, chunks, faults>>
    BY DEF NothingChanged
  <2>2. audit' = [audit EXCEPT ![r] = IF run[r].row \in {"new", "kept"} THEN status ELSE @]
    BY DEF NothingChanged, Record
  <2>3. run[r].row \notin {"new", "kept"} => status = audit[r]
    OBVIOUS
  <2> HIDE DEF status
  <2> QED
    BY <2>1, <2>2, <2>3 DEF Inv, TypeOK
<1>4. status \in Statuses /\ (q.row \in {"forgotten", "lost"} => status = "none")
  BY <1>1, <1>2 DEF Statuses, Audited
<1> HIDE DEF q, status
<1>5. Paired(q) /\ Audited(q, status)
  BY <1>2, <1>4, AtFetch
<1> QED
  BY <1>2, <1>3, <1>4, <1>5, Known, RunSteps

LEMMA EmbedKeeps ==
  ASSUME Inv, NEW r \in Runs, Embed(r)
  PROVE  Inv'
<1> DEFINE q == [run[r] EXCEPT !.pc = "write"]
<1>1. run[r] \in Run /\ run[r].pc = "embed"
  BY Known DEF Embed
<1>2. q \in Run /\ Genuine(q) /\ Paired(q) /\ Audited(q, audit[r])
  BY <1>1, Known DEF Run, Genuine, Paired, Audited
<1>3. run' = [run EXCEPT ![r] = q] /\ UNCHANGED <<site, docs, chunks, audit, faults>>
  BY DEF Embed
<1> QED
  BY <1>2, <1>3, Known, QuietSteps

\* A batch that is rolled back.
LEMMA RolledBackBatch ==
  ASSUME Inv, NEW r \in Runs, run[r].pc # "returned"
  PROVE  /\ RolledBack(run[r]) \in Run /\ RolledBack(run[r]).pc = "fetch" /\ Genuine(RolledBack(run[r]))
         /\ RolledBack(run[r]).docs = Nothing /\ RolledBack(run[r]).chunks = Nothing
         /\ RolledBack(run[r]).row # "new"
         /\ RolledBack(run[r]).row \in {"forgotten", "lost"} => audit[r] = "none"
<1> DEFINE c == Cleared(run[r])
<1>1. run[r] \in Run /\ Audited(run[r], audit[r])
  BY Known
<1>2. /\ c \in Run /\ c.pc = "fetch" /\ c.row = run[r].row /\ c.docs = Nothing /\ c.chunks = Nothing
      /\ Genuine(c)
  BY <1>1, ClearedBatch
<1>3. RolledBack(run[r]) = [c EXCEPT !.row = IF run[r].row = "new" THEN "forgotten" ELSE run[r].row]
  BY DEF RolledBack
<1> HIDE DEF c
<1> QED
  BY <1>1, <1>2, <1>3 DEF Run, Genuine, Audited

LEMMA EmbedFailsKeeps ==
  ASSUME Inv, NEW r \in Runs, EmbedFails(r)
  PROVE  Inv'
<1> DEFINE b == RolledBack(run[r])
           q == [b EXCEPT !.errors = TRUE]
<1>1. /\ b \in Run /\ b.pc = "fetch" /\ Genuine(b) /\ b.docs = Nothing /\ b.chunks = Nothing
      /\ b.row # "new" /\ (b.row \in {"forgotten", "lost"} => audit[r] = "none")
  BY RolledBackBatch DEF EmbedFails
<1>2. run' = [run EXCEPT ![r] = q] /\ UNCHANGED <<site, docs, chunks, audit>> /\ faults' \in 0 .. MaxFaults
  BY FaultCounts DEF EmbedFails
<1> HIDE DEF b
<1>3. /\ q \in Run /\ q.pc = "fetch" /\ q.docs = Nothing /\ q.chunks = Nothing /\ q.row = b.row
      /\ q.held = b.held /\ q.docs = b.docs
  BY <1>1 DEF Run
<1> HIDE DEF q
<1>4. Genuine(q)
  BY <1>1, <1>3 DEF Genuine
<1>5. Paired(q) /\ Audited(q, audit[r])
  BY <1>1, <1>3, AtFetch
<1> QED
  BY <1>2, <1>3, <1>4, <1>5, QuietSteps

LEMMA UpsertKeeps ==
  ASSUME Inv, NEW r \in Runs, Upsert(r)
  PROVE  Inv'
<1>1. /\ run[r] \in Run /\ Genuine(run[r]) /\ Paired(run[r]) /\ Audited(run[r], audit[r])
      /\ run[r].pc = "write" /\ ~run[r].aborted
  BY Known DEF Upsert
<1>2. PICK d \in Docs :
        \/ run' = [run EXCEPT ![r].changed = @ \ {d}, ![r].dirty = @ \cup {d}, ![r].safe = @ \cup {d}]
        \/ run' = [run EXCEPT ![r].pc = "chunks", ![r].doc = d, ![r].docs[d] = run[r].held[d]]
  BY <1>1 DEF Upsert, First, Run
<1>3. UNCHANGED <<site, docs, chunks, audit>> /\ faults' \in 0 .. MaxFaults
  BY Known DEF Upsert
<1>4. CASE run' = [run EXCEPT ![r].changed = @ \ {d}, ![r].dirty = @ \cup {d}, ![r].safe = @ \cup {d}]
  <2> DEFINE q == [run[r] EXCEPT !.changed = @ \ {d}, !.dirty = @ \cup {d}, !.safe = @ \cup {d}]
  <2>1. q \in Run
    <3>1. ASSUME NEW u \in Run PROVE [u EXCEPT !.changed = @ \ {d}, !.dirty = @ \cup {d}, !.safe = @ \cup {d}] \in Run
      BY DEF Run
    <3> QED
      BY ONLY <1>1, <3>1
  <2>2. Genuine(q) /\ Paired(q) /\ Audited(q, audit[r])
    BY <1>1 DEF Run, Genuine, Paired, Audited
  <2>3. run' = [run EXCEPT ![r] = q]
    BY <1>4
  <2> QED
    BY <1>3, <2>1, <2>2, <2>3, QuietSteps
<1>5. CASE run' = [run EXCEPT ![r].pc = "chunks", ![r].doc = d, ![r].docs[d] = run[r].held[d]]
  <2> DEFINE written == [run[r].docs EXCEPT ![d] = run[r].held[d]]
             q == [run[r] EXCEPT !.pc = "chunks", !.doc = d, !.docs[d] = run[r].held[d]]
  <2>1. /\ written \in [Docs -> Versions] /\ written[d] = run[r].held[d]
        /\ \A e \in Docs \ {d} : written[e] = run[r].docs[e]
        /\ \A e \in Docs : written[e] <= site[e]
    BY <1>1 DEF Run, Genuine
  <2>2. q = [run[r] EXCEPT !.pc = "chunks", !.doc = d, !.docs = written]
    BY <1>1 DEF Run
  <2>3. run' = [run EXCEPT ![r] = q]
    BY <1>5
  <2> HIDE DEF q, written
  <2>4. q \in Run
    <3>1. ASSUME NEW u \in Run PROVE [u EXCEPT !.pc = "chunks", !.doc = d, !.docs = written] \in Run
      BY <2>1 DEF Run
    <3> QED
      BY ONLY <1>1, <2>2, <3>1
  <2>5. /\ q.pc = "chunks" /\ q.doc = d /\ q.docs = written /\ q.chunks = run[r].chunks
        /\ q.held = run[r].held /\ q.row = run[r].row /\ q.aborted = run[r].aborted
    BY <1>1, <2>2 DEF Run
  <2>6. Genuine(q) /\ Paired(q) /\ Audited(q, audit[r])
    BY <1>1, <2>1, <2>5 DEF Genuine, Paired, Audited
  <2> QED
    BY <1>3, <2>3, <2>4, <2>6, QuietSteps
<1> QED
  BY <1>2, <1>4, <1>5

LEMMA ReplaceKeeps ==
  ASSUME Inv, NEW r \in Runs, Replace(r)
  PROVE  Inv'
<1> DEFINE q == [run[r] EXCEPT !.pc = "write", !.doc = NoDoc, !.changed = run[r].changed \ {run[r].doc},
                               !.chunks[run[r].doc] = run[r].held[run[r].doc], !.wrote = TRUE]
<1>0. run' = [run EXCEPT ![r] = q] /\ UNCHANGED <<site, docs, chunks, audit, faults>>
  BY DEF Replace
<1> DEFINE d == run[r].doc
           written == [run[r].chunks EXCEPT ![d] = run[r].held[d]]
<1>1. /\ run[r] \in Run /\ Genuine(run[r]) /\ Paired(run[r]) /\ Audited(run[r], audit[r])
      /\ run[r].pc = "chunks"
  BY Known DEF Replace
<1>2. /\ d \in Docs /\ run[r].docs[d] = run[r].held[d]
      /\ \A e \in Docs \ {d} : run[r].docs[e] = run[r].chunks[e]
  BY <1>1 DEF Paired
<1>3. q = [run[r] EXCEPT !.pc = "write", !.doc = NoDoc, !.changed = @ \ {d},
                         !.chunks[d] = run[r].held[d], !.wrote = TRUE]
  OBVIOUS
<1> HIDE DEF d
<1>4. written \in [Docs -> Versions] /\ written = run[r].docs
  BY <1>1, <1>2 DEF Run
<1>5. q = [run[r] EXCEPT !.pc = "write", !.doc = NoDoc, !.changed = @ \ {d}, !.chunks = written,
                         !.wrote = TRUE]
  BY <1>1, <1>3 DEF Run
<1> HIDE DEF q, written
<1>6. q \in Run
  <2>1. ASSUME NEW u \in Run
        PROVE  [u EXCEPT !.pc = "write", !.doc = NoDoc, !.changed = @ \ {d}, !.chunks = written,
                         !.wrote = TRUE] \in Run
    BY <1>4 DEF Run
  <2> QED
    BY ONLY <1>1, <1>5, <2>1
<1>7. /\ q.pc = "write" /\ q.docs = run[r].docs /\ q.chunks = written /\ q.held = run[r].held
      /\ q.row = run[r].row
  BY <1>1, <1>5 DEF Run
<1>8. Genuine(q) /\ Paired(q) /\ Audited(q, audit[r])
  BY <1>1, <1>4, <1>7 DEF Genuine, Paired, Audited
<1> QED
  BY <1>0, <1>6, <1>8, Known, QuietSteps

LEMMA WriteFailsKeeps ==
  ASSUME Inv, NEW r \in Runs, WriteFails(r)
  PROVE  Inv'
<1>1. /\ run[r] \in Run /\ Genuine(run[r]) /\ Paired(run[r]) /\ Audited(run[r], audit[r])
      /\ run[r].pc \in {"write", "chunks"}
  BY Known DEF WriteFails
<1>2. PICK d \in Docs :
        \/ /\ run[r].pc = "write" /\ ~run[r].aborted
           /\ run' = [run EXCEPT ![r].changed = @ \ {d}, ![r].errors = TRUE]
        \/ run' = [run EXCEPT ![r].pc = "write", ![r].doc = NoDoc, ![r].changed = @ \ {d},
                              ![r].aborted = TRUE, ![r].errors = TRUE]
  BY <1>1 DEF WriteFails, First, Run
<1>3. UNCHANGED <<site, docs, chunks, audit>> /\ faults' \in 0 .. MaxFaults
  BY Known, FaultCounts DEF WriteFails, Refusal
<1>4. CASE /\ run[r].pc = "write" /\ ~run[r].aborted
           /\ run' = [run EXCEPT ![r].changed = @ \ {d}, ![r].errors = TRUE]
  <2> DEFINE q == [run[r] EXCEPT !.changed = @ \ {d}, !.errors = TRUE]
  <2>1. q \in Run
    <3>1. ASSUME NEW u \in Run PROVE [u EXCEPT !.changed = @ \ {d}, !.errors = TRUE] \in Run
      BY DEF Run
    <3> QED
      BY ONLY <1>1, <3>1
  <2>2. Genuine(q) /\ Paired(q) /\ Audited(q, audit[r])
    BY <1>1, <1>4 DEF Run, Genuine, Paired, Audited
  <2>3. run' = [run EXCEPT ![r] = q]
    BY <1>4
  <2> QED
    BY <1>3, <2>1, <2>2, <2>3, QuietSteps
<1>5. CASE run' = [run EXCEPT ![r].pc = "write", ![r].doc = NoDoc, ![r].changed = @ \ {d},
                              ![r].aborted = TRUE, ![r].errors = TRUE]
  <2> DEFINE q == [run[r] EXCEPT !.pc = "write", !.doc = NoDoc, !.changed = @ \ {d},
                                 !.aborted = TRUE, !.errors = TRUE]
  <2>1. q \in Run
    <3>1. ASSUME NEW u \in Run
          PROVE  [u EXCEPT !.pc = "write", !.doc = NoDoc, !.changed = @ \ {d}, !.aborted = TRUE,
                           !.errors = TRUE] \in Run
      BY DEF Run
    <3> QED
      BY ONLY <1>1, <3>1
  <2>2. Genuine(q) /\ Paired(q) /\ Audited(q, audit[r])
    BY <1>1 DEF Run, Genuine, Paired, Audited
  <2>3. run' = [run EXCEPT ![r] = q]
    BY <1>5
  <2> QED
    BY <1>3, <2>1, <2>2, <2>3, QuietSteps
<1> QED
  BY <1>2, <1>4, <1>5

\* A batch whose transaction is not in error is published with its chunks.
LEMMA CommitBatchKeeps ==
  ASSUME Inv, NEW r \in Runs, CommitBatch(r)
  PROVE  /\ Inv'
         /\ docs' = [d \in Docs |-> IF run[r].docs[d] # 0 THEN run[r].docs[d] ELSE docs[d]]
<1> DEFINE k == Kept(run[r])
           fresh == {d \in Docs : run[r].docs[d] # 0}
           q == [k EXCEPT !.safe = run[r].safe \cup fresh]
           status == IF run[r].row = "new" THEN "running" ELSE audit[r]
<1>1. /\ run[r] \in Run /\ audit[r] \in Statuses /\ Audited(run[r], audit[r]) /\ Genuine(run[r])
      /\ run[r].pc = "write" /\ run[r].docs = run[r].chunks /\ run[r].docs \in [Docs -> Versions]
  BY Known DEF CommitBatch, Paired, Run
<1>2. /\ docs' = [d \in Docs |-> IF run[r].docs[d] # 0 THEN run[r].docs[d] ELSE docs[d]]
      /\ chunks' = [d \in Docs |-> IF run[r].chunks[d] # 0 THEN run[r].chunks[d] ELSE chunks[d]]
      /\ run' = [run EXCEPT ![r] = q] /\ UNCHANGED <<site, faults>>
  BY DEF CommitBatch, Publish
<1>3. docs' \in [Docs -> Versions] /\ docs' = chunks' /\ \A d \in Docs : docs'[d] <= site[d]
  BY <1>1, <1>2, Known DEF Genuine
<1>4. audit' = [audit EXCEPT ![r] = status]
  <2>1. audit' = [audit EXCEPT ![r] = IF run[r].row \in {"new", "kept"} THEN status ELSE @]
    BY DEF CommitBatch, Record
  <2>2. run[r].row \notin {"new", "kept"} => status = audit[r]
    OBVIOUS
  <2> HIDE DEF status
  <2> QED
    BY <2>1, <2>2 DEF Inv, TypeOK
<1>5. /\ k \in Run /\ k.pc = "fetch" /\ k.docs = Nothing /\ k.chunks = Nothing /\ Genuine(k)
      /\ k.row # "new" /\ (k.row \in {"forgotten", "lost"} => run[r].row = k.row)
  BY <1>1, KeptBatch
<1> HIDE DEF k
<1>6. /\ q \in Run /\ q.pc = "fetch" /\ q.docs = Nothing /\ q.chunks = Nothing /\ q.row = k.row
      /\ q.held = k.held /\ q.docs = k.docs
  <2>1. run[r].safe \cup fresh \in SUBSET Docs
    BY <1>1 DEF Run
  <2> HIDE DEF fresh
  <2> QED
    BY <1>5, <2>1 DEF Run
<1>7. status \in Statuses /\ (q.row \in {"forgotten", "lost"} => status = "none")
  BY <1>1, <1>5, <1>6 DEF Statuses, Audited
<1> HIDE DEF q, status
<1>8. Genuine(q)
  BY <1>5, <1>6 DEF Genuine
<1>9. Paired(q) /\ Audited(q, status)
  BY <1>5, <1>6, <1>7, AtFetch
<1> QED
  BY <1>2, <1>3, <1>4, <1>6, <1>7, <1>8, <1>9, Known, RunSteps

LEMMA CommitLostKeeps ==
  ASSUME Inv, NEW r \in Runs, CommitLost(r)
  PROVE  Inv'
<1> DEFINE c == Cleared(run[r])
           q == [c EXCEPT !.row = IF run[r].row = "new" THEN "lost" ELSE run[r].row]
<1>1. run[r].pc = "write" /\ run[r] \in Run /\ Audited(run[r], audit[r])
  BY Known DEF CommitLost
<1>2. UNCHANGED <<site, docs, chunks, audit, faults>>
  BY DEF CommitLost
<1>3. c \in Run /\ c.pc = "fetch" /\ c.docs = Nothing /\ c.chunks = Nothing /\ Genuine(c)
  BY <1>1, ClearedBatch
<1>4. c.row = run[r].row
  BY <1>1 DEF Cleared, Run
<1>5. run' = [run EXCEPT ![r] = q]
  BY DEF CommitLost, Lost
<1> HIDE DEF c
<1>6. /\ q \in Run /\ q.pc = "fetch" /\ q.docs = c.docs /\ q.chunks = c.chunks /\ q.held = c.held
      /\ q.row = IF run[r].row = "new" THEN "lost" ELSE run[r].row
  BY <1>1, <1>3, <1>4 DEF Run
<1> HIDE DEF q
<1>7. Genuine(q)
  BY <1>3, <1>6 DEF Genuine
<1>8. q.row \in {"new", "forgotten", "lost"} => audit[r] = "none"
  BY <1>1, <1>6 DEF Audited
<1>9. Paired(q) /\ Audited(q, audit[r])
  BY <1>3, <1>6, <1>8, AtFetch
<1> QED
  BY <1>2, <1>5, <1>6, <1>7, <1>9, Known, QuietSteps

\* A run that has ended holds nothing.
LEMMA EndedRun ==
  ASSUME Inv, NEW q \in Run, NEW pc \in {"returned", "raised", "died"}
  PROVE  /\ Ended(q, pc) \in Run /\ Ended(q, pc).pc = pc /\ Ended(q, pc).row = q.row
         /\ Genuine(Ended(q, pc)) /\ Paired(Ended(q, pc))
<1>1. \A d \in Docs : 0 <= site[d]
  BY ConstantsAssumption DEF Inv, TypeOK, Versions
<1>2. Fresh \in Run /\ Fresh.docs = Nothing /\ Fresh.chunks = Nothing /\ Fresh.held = Nothing
  BY NothingHeld DEF Fresh, Run
<1>3. Ended(q, pc) = [Fresh EXCEPT !.pc = pc, !.row = q.row]
  BY DEF Ended
<1>4. /\ Ended(q, pc) \in Run /\ Ended(q, pc).pc = pc /\ Ended(q, pc).row = q.row
      /\ Ended(q, pc).docs = Nothing /\ Ended(q, pc).chunks = Nothing /\ Ended(q, pc).held = Nothing
  BY <1>2, <1>3 DEF Run
<1> QED
  BY <1>1, <1>4, NothingHeld DEF Genuine, Paired

LEMMA EndsKeeps ==
  ASSUME Inv, NEW r \in Runs, NEW outcome \in {"completed", "partial", "failed"}, Ends(r, outcome),
         run[r].pc # "returned"
  PROVE  Inv'
<1> DEFINE pc == IF run[r].row = "lost" THEN "raised" ELSE "returned"
           q == Ended(run[r], pc)
           status == IF run[r].row \in {"new", "kept"} THEN outcome ELSE audit[r]
<1>1. run[r] \in Run /\ audit[r] \in Statuses /\ Audited(run[r], audit[r])
  BY Known
<1>2. run' = [run EXCEPT ![r] = q] /\ UNCHANGED <<site, docs, chunks, faults>>
  BY DEF Ends
<1>3. audit' = [audit EXCEPT ![r] = status]
  BY DEF Ends, Record
<1>4. q \in Run /\ q.pc = pc /\ q.row = run[r].row /\ Genuine(q) /\ Paired(q)
  BY <1>1, EndedRun
<1> HIDE DEF q
<1>5. status \in Statuses /\ Audited(q, status)
  BY <1>1, <1>4 DEF Statuses, Audited, Run
<1> QED
  BY <1>2, <1>3, <1>4, <1>5, Known, RunSteps

\* A run that the process or a refused commit ends takes its batch with it.
LEMMA BrokenOffKeeps ==
  ASSUME Inv, NEW r \in Runs, NEW pc \in {"raised", "died"},
         run' = [run EXCEPT ![r] = Ended(RolledBack(@), pc)],
         UNCHANGED <<site, docs, chunks, audit>>, faults' \in 0 .. MaxFaults,
         run[r].pc # "returned"
  PROVE  Inv'
<1> DEFINE b == RolledBack(run[r])
           q == Ended(b, pc)
<1>1. run' = [run EXCEPT ![r] = q]
  OBVIOUS
<1>2. b \in Run /\ b.row # "new" /\ (b.row \in {"forgotten", "lost"} => audit[r] = "none")
  BY RolledBackBatch
<1>3. q \in Run /\ q.pc = pc /\ q.row = b.row /\ Genuine(q) /\ Paired(q)
  BY <1>2, EndedRun
<1> HIDE DEF b, q
<1>4. Audited(q, audit[r])
  BY <1>2, <1>3 DEF Audited
<1> QED
  BY <1>1, <1>3, <1>4, QuietSteps

LEMMA CrashKeeps ==
  ASSUME Inv, NEW r \in Runs, Crash(r) \/ CommitRaises(r)
  PROVE  Inv'
<1>1. CASE Crash(r)
  BY <1>1, FaultCounts, BrokenOffKeeps DEF Crash
<1>2. CASE CommitRaises(r)
  BY <1>2, FaultCounts, Known, BrokenOffKeeps DEF CommitRaises, Refusal
<1> QED
  BY <1>1, <1>2

-------------------------------------------------------------------------------

LEMMA NextKeeps ==
  ASSUME Inv, Next
  PROVE  Inv'
<1>1. ASSUME NEW d \in Edited, Edit(d) PROVE Inv'
  BY <1>1, EditKeeps, ConstantsAssumption
<1>2. ASSUME NEW r \in Runs,
             Start(r) \/ SourceFails(r) \/ EmbedFails(r) \/ WriteFails(r) \/ CommitRaises(r) \/ Crash(r)
      PROVE  Inv'
  BY <1>2, StartKeeps, SourceFailsKeeps, EmbedFailsKeeps, WriteFailsKeeps, CrashKeeps
<1>3. ASSUME NEW r \in Runs, Step(r) PROVE Inv'
  <2>1. CASE Fetch(r) \/ Check(r) \/ NothingChanged(r) \/ Embed(r)
    BY <2>1, FetchKeeps, CheckKeeps, NothingChangedKeeps, EmbedKeeps
  <2>2. CASE Upsert(r) \/ Replace(r) \/ CommitBatch(r) \/ CommitLost(r)
    BY <2>2, UpsertKeeps, ReplaceKeeps, CommitBatchKeeps, CommitLostKeeps
  <2>3. CASE Finish(r)
    <3>1. Outcome(r) \in {"completed", "partial", "failed"}
      BY DEF Outcome
    <3> QED
      BY <2>3, <3>1, EndsKeeps DEF Finish
  <2>4. CASE Abort(r)
    BY <2>4, EndsKeeps DEF Abort
  <2> QED
    BY <1>3, <2>1, <2>2, <2>3, <2>4 DEF Step
<1> QED
  BY <1>1, <1>2, <1>3 DEF Next

LEMMA StutterKeeps == Inv /\ UNCHANGED vars => Inv'
  BY DEF Inv, TypeOK, Whole, Genuine, Paired, Audited, vars

LEMMA Invariance == Spec => []Inv
<1>1. Inv /\ [Next]_vars => Inv'
  BY NextKeeps, StutterKeeps
<1> QED
  BY <1>1, InitInv, PTL DEF Spec

\* Whatever the source and the runs do, every variable keeps its type: a
\* batch never outgrows the documents, a status is one of IngestionRun's.
THEOREM TypeCorrect == Spec => []TypeOK
<1>1. Inv => TypeOK
  BY DEF Inv
<1> QED
  BY <1>1, Invariance, PTL

\* For any number of documents, batches and concurrent runs: a run that
\* gives its caller a result has its outcome in the database, unless a
\* rollback came before its first commit.
THEOREM OutcomeIsRecorded == Spec => []RecordedUnlessForgotten
<1>1. Inv => RecordedUnlessForgotten
  BY DEF Inv, Audited, RecordedUnlessForgotten
<1> QED
  BY <1>1, Invariance, PTL

-------------------------------------------------------------------------------
(* The refinement.                                                         *)

mapped == [d \in Docs |-> IF docs[d] = chunks[d] THEN docs[d] ELSE MaxVersion + 1]

\* While documents and chunks agree, the index is the documents.
LEMMA MappedIndex == Inv => mapped = docs
  BY DEF Inv, TypeOK, Whole, mapped

LEMMA EditIsEdit ==
  ASSUME Inv, Inv', NEW d \in Docs, Edit(d)
  PROVE  Index!Edit
<1>1. mapped' = mapped
  BY DEF Edit, mapped
<1> QED
  BY <1>1 DEF Edit, Index!Edit, mapped

LEMMA CommitIsPublish ==
  ASSUME Inv, Inv', NEW r \in Runs, CommitBatch(r)
  PROVE  Index!Publish
<1>1. mapped = docs /\ mapped' = docs'
  <2>1. Inv' => mapped' = docs'
    BY DEF Inv, TypeOK, Whole, mapped
  <2> QED
    BY <2>1, MappedIndex
<1>2. run[r].docs \in [Docs -> Versions] /\ \A d \in Docs : run[r].docs[d] <= site[d]
  BY Known DEF Run, Genuine
<1>3. docs' = [d \in Docs |-> IF run[r].docs[d] = 0 THEN docs[d] ELSE run[r].docs[d]]
  BY CommitBatchKeeps
<1>4. site' = site
  BY DEF CommitBatch
<1> QED
  BY <1>1, <1>2, <1>3, <1>4 DEF Index!Publish, Index!Versions, Versions, mapped

LEMMA OthersStutter ==
  ASSUME UNCHANGED <<site, docs, chunks>>
  PROVE  UNCHANGED <<site, mapped>>
  BY DEF mapped

LEMMA StepRefines ==
  ASSUME Inv, Inv', [Next]_vars
  PROVE  [Index!Next]_<<site, mapped>>
<1>1. ASSUME NEW d \in Edited, Edit(d) PROVE Index!Edit
  BY <1>1, EditIsEdit, ConstantsAssumption
<1>2. ASSUME NEW r \in Runs,
             Start(r) \/ SourceFails(r) \/ EmbedFails(r) \/ WriteFails(r) \/ CommitRaises(r) \/ Crash(r) \/ Step(r)
      PROVE  Index!Publish \/ UNCHANGED <<site, docs, chunks>>
  <2>1. CASE Start(r) \/ SourceFails(r) \/ EmbedFails(r) \/ WriteFails(r) \/ CommitRaises(r) \/ Crash(r)
    BY <2>1 DEF Start, SourceFails, EmbedFails, WriteFails, CommitRaises, Crash
  <2>2. CASE CommitBatch(r)
    BY <2>2, CommitIsPublish
  <2>3. CASE Fetch(r) \/ Check(r) \/ NothingChanged(r) \/ Embed(r) \/ Upsert(r) \/ Replace(r)
    BY <2>3 DEF Fetch, Check, NothingChanged, Embed, Upsert, Replace
  <2>4. CASE CommitLost(r) \/ Finish(r) \/ Abort(r)
    BY <2>4 DEF CommitLost, Finish, Abort, Ends
  <2> QED
    BY <1>2, <2>1, <2>2, <2>3, <2>4 DEF Step
<1>3. UNCHANGED vars => UNCHANGED <<site, docs, chunks>>
  BY DEF vars
<1> QED
  BY <1>1, <1>2, <1>3, OthersStutter DEF Next, Index!Next

LEMMA InitRefines == Init => Index!Init
<1>1. Init => docs = Nothing /\ mapped = docs
  BY DEF Init, mapped, Nothing
<1> QED
  BY <1>1 DEF Init, Index!Init, Nothing, mapped

\* Whatever the runs do and wherever they fail, a reader of the index sees
\* batches whole, and documents with their own chunks.
THEOREM Refinement == Spec => ImplementsIndex
<1>1. Inv /\ Inv' /\ [Next]_vars => [Index!Next]_<<site, mapped>>
  BY StepRefines
<1> QED
  BY <1>1, InitRefines, Invariance, PTL DEF Spec, ImplementsIndex, Index!Spec, mapped

-------------------------------------------------------------------------------
(* What a run recorded as completed has done.                              *)

\* Of a run without errors: a document that it has met is in the index, or
\* in the batch and still to be compared, to be written, or written.
Accounted(q, S) ==
  /\ q.aborted => q.errors
  /\ q.pc \in {"idle", "fetch"} => q.changed = {}
  /\ \A d \in q.changed : q.held[d] # 0
  /\ q.pc = "chunks" => q.held[q.doc] # 0
  /\ ~q.errors => /\ q.pc # "fatal"
                  /\ \A d \in Docs :
                       d \in S /\ d \notin q.todo =>
                       d \in q.safe \/ (q.held[d] # 0 /\ (q.pc = "fetch" \/ d \in q.changed \/ q.docs[d] # 0))

Complete == \A r \in Runs : Accounted(run[r], Listed[r])

\* Fields of a run whose batch is over.
LEMMA ClearedFields ==
  ASSUME NEW q \in Run
  PROVE  /\ Cleared(q).pc = "fetch" /\ Cleared(q).aborted = FALSE /\ Cleared(q).changed = {}
         /\ Cleared(q).todo = q.todo /\ Cleared(q).safe = q.safe /\ Cleared(q).errors = q.errors
  BY DEF Cleared, Run

\* A step of one run keeps Complete if it leaves that run accounted for.
LEMMA AccountedStep ==
  ASSUME Inv, Complete, NEW r \in Runs, NEW q, run' = [run EXCEPT ![r] = q], Accounted(q, Listed[r])
  PROVE  Complete'
<1>1. \A s \in Runs : run'[s] = IF s = r THEN q ELSE run[s]
  BY DEF Inv, TypeOK
<1>2. \A s \in Runs : Accounted(run'[s], Listed[s])
  BY <1>1 DEF Complete
<1> QED
  BY <1>2 DEF Complete, Accounted

LEMMA FetchAccounted ==
  ASSUME Inv, Complete, NEW r \in Runs, Fetch(r)
  PROVE  Complete'
<1>1. run[r] \in Run /\ Accounted(run[r], Listed[r]) /\ run[r].pc = "fetch"
  BY Known DEF Complete, Fetch
<1>2. PICK d \in Docs :
        \/ run' = [run EXCEPT ![r].todo = @ \ {d}, ![r].held[d] = site[d]]
        \/ run' = [run EXCEPT ![r].todo = @ \ {d}, ![r].errors = TRUE]
  BY <1>1 DEF Fetch, First, Run
<1>3. CASE run' = [run EXCEPT ![r].todo = @ \ {d}, ![r].held[d] = site[d]]
  <2> DEFINE held == [run[r].held EXCEPT ![d] = site[d]]
             q == [run[r] EXCEPT !.todo = @ \ {d}, !.held[d] = site[d]]
  <2>1. held[d] # 0 /\ \A e \in Docs \ {d} : held[e] = run[r].held[e]
    BY <1>1 DEF Inv, TypeOK, Run
  <2>2. run' = [run EXCEPT ![r] = q]
    BY <1>3
  <2>3. q = [run[r] EXCEPT !.todo = @ \ {d}, !.held = held]
    BY <1>1 DEF Run
  <2> HIDE DEF q, held
  <2>4. /\ q.todo = run[r].todo \ {d} /\ q.held = held /\ q.pc = run[r].pc /\ q.errors = run[r].errors
        /\ q.aborted = run[r].aborted /\ q.changed = run[r].changed /\ q.safe = run[r].safe
        /\ q.docs = run[r].docs
    BY <1>1, <2>3 DEF Run
  <2>5. run[r].changed \subseteq Docs
    BY <1>1 DEF Run
  <2>6. Accounted(q, Listed[r])
    BY <1>1, <2>1, <2>4, <2>5 DEF Accounted
  <2> QED
    BY <2>2, <2>6, AccountedStep
<1>4. CASE run' = [run EXCEPT ![r].todo = @ \ {d}, ![r].errors = TRUE]
  <2> DEFINE q == [run[r] EXCEPT !.todo = @ \ {d}, !.errors = TRUE]
  <2>1. run' = [run EXCEPT ![r] = q]
    BY <1>4
  <2>2. Accounted(q, Listed[r])
    BY <1>1 DEF Accounted, Run
  <2> QED
    BY <2>1, <2>2, AccountedStep
<1> QED
  BY <1>2, <1>3, <1>4

LEMMA CheckAccounted ==
  ASSUME Inv, Complete, NEW r \in Runs, Check(r)
  PROVE  Complete'
<1> DEFINE current == {d \in Pending(r) : docs[d] = run[r].held[d]}
           changed == Pending(r) \ current
           q == [run[r] EXCEPT !.pc = "embed", !.changed = changed, !.safe = @ \cup current]
<1>1. run[r] \in Run /\ Accounted(run[r], Listed[r]) /\ run[r].pc = "fetch"
  BY Known DEF Complete, Check
<1>2. run' = [run EXCEPT ![r] = q]
  BY DEF Check
<1>3. /\ changed \subseteq Docs /\ \A d \in changed : run[r].held[d] # 0
      /\ \A d \in Docs : run[r].held[d] # 0 => d \in changed \/ d \in current
  BY DEF Pending
<1> HIDE DEF current, changed
<1>4. /\ q.pc = "embed" /\ q.changed = changed /\ q.safe = run[r].safe \cup current
      /\ q.todo = run[r].todo /\ q.held = run[r].held /\ q.errors = run[r].errors
      /\ q.aborted = run[r].aborted /\ q.docs = run[r].docs
  BY <1>1 DEF Run
<1> HIDE DEF q
<1>5. Accounted(q, Listed[r])
  BY <1>1, <1>3, <1>4 DEF Accounted
<1> QED
  BY <1>2, <1>5, AccountedStep

LEMMA UpsertAccounted ==
  ASSUME Inv, Complete, NEW r \in Runs, Upsert(r)
  PROVE  Complete'
<1>1. run[r] \in Run /\ Accounted(run[r], Listed[r]) /\ run[r].pc = "write"
  BY Known DEF Complete, Upsert
<1>2. PICK d \in run[r].changed :
        \/ run' = [run EXCEPT ![r].changed = @ \ {d}, ![r].dirty = @ \cup {d}, ![r].safe = @ \cup {d}]
        \/ run' = [run EXCEPT ![r].pc = "chunks", ![r].doc = d, ![r].docs[d] = run[r].held[d]]
  BY DEF Upsert, First
<1>3. d \in Docs /\ run[r].held[d] # 0
  BY <1>1 DEF Run, Accounted
<1>4. CASE run' = [run EXCEPT ![r].changed = @ \ {d}, ![r].dirty = @ \cup {d}, ![r].safe = @ \cup {d}]
  <2> DEFINE q == [run[r] EXCEPT !.changed = @ \ {d}, !.dirty = @ \cup {d}, !.safe = @ \cup {d}]
  <2>1. run' = [run EXCEPT ![r] = q]
    BY <1>4
  <2>2. /\ q.pc = "write" /\ q.changed = run[r].changed \ {d} /\ q.safe = run[r].safe \cup {d}
        /\ q.todo = run[r].todo /\ q.held = run[r].held /\ q.errors = run[r].errors
        /\ q.aborted = run[r].aborted /\ q.docs = run[r].docs
    BY <1>1 DEF Run
  <2> HIDE DEF q
  <2>3. Accounted(q, Listed[r])
    BY <1>1, <2>2 DEF Accounted
  <2> QED
    BY <2>1, <2>3, AccountedStep
<1>5. CASE run' = [run EXCEPT ![r].pc = "chunks", ![r].doc = d, ![r].docs[d] = run[r].held[d]]
  <2> DEFINE written == [run[r].docs EXCEPT ![d] = run[r].held[d]]
             q == [run[r] EXCEPT !.pc = "chunks", !.doc = d, !.docs[d] = run[r].held[d]]
  <2>1. written[d] = run[r].held[d] /\ \A e \in Docs \ {d} : written[e] = run[r].docs[e]
    BY <1>1, <1>3 DEF Run
  <2>2. run' = [run EXCEPT ![r] = q]
    BY <1>5
  <2>3. q = [run[r] EXCEPT !.pc = "chunks", !.doc = d, !.docs = written]
    BY <1>1 DEF Run
  <2> HIDE DEF q, written
  <2>4. /\ q.pc = "chunks" /\ q.doc = d /\ q.docs = written /\ q.changed = run[r].changed
        /\ q.safe = run[r].safe /\ q.todo = run[r].todo /\ q.held = run[r].held
        /\ q.errors = run[r].errors /\ q.aborted = run[r].aborted
    BY <1>1, <2>3 DEF Run
  <2>5. Accounted(q, Listed[r])
    BY <1>1, <1>3, <2>1, <2>4 DEF Accounted
  <2> QED
    BY <2>2, <2>5, AccountedStep
<1> QED
  BY <1>2, <1>4, <1>5

LEMMA ReplaceAccounted ==
  ASSUME Inv, Complete, NEW r \in Runs, Replace(r)
  PROVE  Complete'
<1> DEFINE q == [run[r] EXCEPT !.pc = "write", !.doc = NoDoc, !.changed = run[r].changed \ {run[r].doc},
                               !.chunks[run[r].doc] = run[r].held[run[r].doc], !.wrote = TRUE]
<1>1. run[r] \in Run /\ Accounted(run[r], Listed[r]) /\ Paired(run[r]) /\ run[r].pc = "chunks"
  BY Known DEF Complete, Replace
<1>2. run' = [run EXCEPT ![r] = q]
  BY DEF Replace
<1>3. /\ q.pc = "write" /\ q.changed = run[r].changed \ {run[r].doc}
      /\ q.safe = run[r].safe /\ q.todo = run[r].todo /\ q.held = run[r].held
      /\ q.errors = run[r].errors /\ q.aborted = run[r].aborted /\ q.docs = run[r].docs
  BY <1>1 DEF Run
<1> HIDE DEF q
<1>4. run[r].docs[run[r].doc] = run[r].held[run[r].doc] /\ run[r].held[run[r].doc] # 0
  BY <1>1 DEF Paired, Accounted
<1>5. Accounted(q, Listed[r])
  BY <1>1, <1>3, <1>4 DEF Accounted
<1> QED
  BY <1>2, <1>5, AccountedStep

LEMMA WriteFailsAccounted ==
  ASSUME Inv, Complete, NEW r \in Runs, WriteFails(r)
  PROVE  Complete'
<1>1. run[r] \in Run /\ Accounted(run[r], Listed[r]) /\ run[r].pc \in {"write", "chunks"}
  BY Known DEF Complete, WriteFails
<1>2. PICK d \in Docs :
        \/ /\ run[r].pc = "write" /\ run' = [run EXCEPT ![r].changed = @ \ {d}, ![r].errors = TRUE]
        \/ run' = [run EXCEPT ![r].pc = "write", ![r].doc = NoDoc, ![r].changed = @ \ {d},
                              ![r].aborted = TRUE, ![r].errors = TRUE]
  BY <1>1 DEF WriteFails, First, Run
<1>3. ASSUME NEW q, q.errors = TRUE, q.pc = "write", q.changed = run[r].changed \ {d},
             q.held = run[r].held
      PROVE  Accounted(q, Listed[r])
  BY <1>1, <1>3 DEF Accounted
<1>4. CASE run[r].pc = "write" /\ run' = [run EXCEPT ![r].changed = @ \ {d}, ![r].errors = TRUE]
  <2> DEFINE q == [run[r] EXCEPT !.changed = @ \ {d}, !.errors = TRUE]
  <2>1. run' = [run EXCEPT ![r] = q]
    BY <1>4
  <2>2. q.errors = TRUE /\ q.pc = "write" /\ q.changed = run[r].changed \ {d} /\ q.held = run[r].held
    BY <1>1, <1>4 DEF Run
  <2> HIDE DEF q
  <2> QED
    BY <1>3, <2>1, <2>2, AccountedStep
<1>5. CASE run' = [run EXCEPT ![r].pc = "write", ![r].doc = NoDoc, ![r].changed = @ \ {d},
                              ![r].aborted = TRUE, ![r].errors = TRUE]
  <2> DEFINE q == [run[r] EXCEPT !.pc = "write", !.doc = NoDoc, !.changed = @ \ {d},
                                 !.aborted = TRUE, !.errors = TRUE]
  <2>1. run' = [run EXCEPT ![r] = q]
    BY <1>5
  <2>2. q.errors = TRUE /\ q.pc = "write" /\ q.changed = run[r].changed \ {d} /\ q.held = run[r].held
    BY <1>1 DEF Run
  <2> HIDE DEF q
  <2> QED
    BY <1>3, <2>1, <2>2, AccountedStep
<1> QED
  BY <1>2, <1>4, <1>5

\* A batch that is written, or that had nothing to write, is in the index.
LEMMA BatchAccounted ==
  ASSUME Inv, Complete, NEW r \in Runs, NothingChanged(r) \/ CommitBatch(r)
  PROVE  Complete'
<1> DEFINE fresh == IF NothingChanged(r) THEN {} ELSE {d \in Docs : run[r].docs[d] # 0}
           k == Kept(run[r])
           q == IF NothingChanged(r) THEN k ELSE [k EXCEPT !.safe = run[r].safe \cup fresh]
<1>1. run[r] \in Run /\ Accounted(run[r], Listed[r]) /\ Paired(run[r]) /\ run[r].changed = {}
  BY Known DEF Complete, NothingChanged, Unchanged, CommitBatch
<1>2. run' = [run EXCEPT ![r] = q]
  BY DEF NothingChanged, CommitBatch
<1>0. Listed[r] \subseteq Docs
  BY ConstantsAssumption
<1>3. ~run[r].errors => Listed[r] \ run[r].todo \subseteq run[r].safe \cup fresh
  <2>1. CASE NothingChanged(r)
    <3>1. \A d \in Docs : run[r].docs[d] = 0
      BY <1>1, <2>1, NothingHeld DEF NothingChanged, Paired
    <3> QED
      BY <1>0, <1>1, <2>1, <3>1 DEF Accounted, NothingChanged
  <2>2. CASE ~NothingChanged(r)
    BY <1>0, <1>1, <2>2 DEF Accounted, CommitBatch
  <2> QED
    BY <2>1, <2>2
<1>4. k = [Cleared(run[r]) EXCEPT !.row = IF run[r].row = "new" THEN "kept" ELSE run[r].row]
  BY DEF Kept
<1>5. Cleared(run[r]) \in Run
  BY <1>1, ClearedBatch
<1>6. k \in Run
  BY <1>1, KeptBatch
<1>7. /\ k.pc = "fetch" /\ k.aborted = FALSE /\ k.changed = {} /\ k.todo = run[r].todo
      /\ k.safe = run[r].safe /\ k.errors = run[r].errors
  <2> DEFINE b == Cleared(run[r])
  <2> HIDE DEF k, b
  <2>1. /\ k.pc = b.pc /\ k.aborted = b.aborted /\ k.changed = b.changed /\ k.todo = b.todo
        /\ k.safe = b.safe /\ k.errors = b.errors
    BY <1>4, <1>5 DEF Run, b
  <2> QED
    BY <1>1, <2>1, ClearedFields DEF b
<1> HIDE DEF k
<1>8. /\ q.pc = "fetch" /\ q.aborted = FALSE /\ q.changed = {} /\ q.todo = run[r].todo
      /\ q.safe = run[r].safe \cup fresh /\ q.errors = run[r].errors
  BY <1>6, <1>7 DEF Run
<1> HIDE DEF q, fresh
<1>9. Accounted(q, Listed[r])
  BY <1>3, <1>8 DEF Accounted
<1> QED
  BY <1>2, <1>9, AccountedStep

LEMMA RolledBackFields ==
  ASSUME Inv, NEW q \in Run
  PROVE  RolledBack(q).pc = "fetch" /\ RolledBack(q).changed = {}
<1> DEFINE c == Cleared(q)
<1>1. c \in Run /\ c.pc = "fetch" /\ c.changed = {}
  BY ClearedBatch, ClearedFields
<1>2. RolledBack(q) = [c EXCEPT !.row = IF q.row = "new" THEN "forgotten" ELSE q.row]
  BY DEF RolledBack
<1> HIDE DEF c
<1> QED
  BY <1>1, <1>2 DEF Run

\* The steps of a run that fails: it has recorded an error.
LEMMA FailuresAccounted ==
  ASSUME Inv, Complete, NEW r \in Runs, SourceFails(r) \/ EmbedFails(r) \/ CommitLost(r)
  PROVE  Complete'
<1>1. run[r] \in Run /\ Accounted(run[r], Listed[r])
  BY Known DEF Complete
<1>2. ASSUME NEW q, q.errors = TRUE, q.changed = {}, q.pc # "chunks"
      PROVE  Accounted(q, Listed[r])
  BY <1>2 DEF Accounted
<1>3. CASE SourceFails(r)
  <2> DEFINE q == [run[r] EXCEPT !.pc = "fatal", !.held = Nothing, !.errors = TRUE]
  <2>1. run' = [run EXCEPT ![r] = q]
    BY <1>3 DEF SourceFails
  <2>2. q.errors = TRUE /\ q.changed = {} /\ q.pc # "chunks"
    BY <1>1, <1>3 DEF SourceFails, Accounted, Run
  <2> HIDE DEF q
  <2> QED
    BY <1>2, <2>1, <2>2, AccountedStep
<1>4. CASE EmbedFails(r)
  <2> DEFINE q == [RolledBack(run[r]) EXCEPT !.errors = TRUE]
  <2>1. run' = [run EXCEPT ![r] = q]
    BY <1>4 DEF EmbedFails
  <2>2. RolledBack(run[r]) \in Run
    BY <1>4, RolledBackBatch DEF EmbedFails
  <2>3. q.errors = TRUE /\ q.changed = {} /\ q.pc # "chunks"
    BY <1>1, <2>2, RolledBackFields DEF Run
  <2> HIDE DEF q
  <2> QED
    BY <1>2, <2>1, <2>3, AccountedStep
<1>5. CASE CommitLost(r)
  <2> DEFINE c == Cleared(run[r])
             q == [c EXCEPT !.row = IF run[r].row = "new" THEN "lost" ELSE run[r].row]
  <2>1. run' = [run EXCEPT ![r] = q]
    BY <1>5 DEF CommitLost, Lost
  <2>2. run[r].errors = TRUE
    BY <1>1, <1>5 DEF CommitLost, Accounted, Run
  <2>3. c \in Run /\ c.errors = TRUE /\ c.changed = {} /\ c.pc = "fetch"
    BY <1>1, <1>5, <2>2, ClearedBatch, ClearedFields DEF CommitLost
  <2> HIDE DEF c
  <2>4. q.errors = TRUE /\ q.changed = {} /\ q.pc # "chunks"
    BY <2>3 DEF Run
  <2> HIDE DEF q
  <2> QED
    BY <1>2, <2>1, <2>4, AccountedStep
<1> QED
  BY <1>3, <1>4, <1>5

\* A run that starts or has ended has met no document.
LEMMA EndsAccounted ==
  ASSUME Inv, Complete, NEW r \in Runs, Start(r) \/ Finish(r) \/ Abort(r) \/ CommitRaises(r) \/ Crash(r)
  PROVE  Complete'
<1>1. run[r] \in Run /\ Accounted(run[r], Listed[r])
  BY Known DEF Complete
<1>2. CASE Start(r)
  <2> DEFINE q == [run[r] EXCEPT !.pc = "fetch", !.todo = Listed[r]]
  <2>1. run' = [run EXCEPT ![r] = q]
    BY <1>2 DEF Start
  <2>2. Accounted(q, Listed[r])
    BY <1>1, <1>2 DEF Accounted, Start, Run
  <2> QED
    BY <2>1, <2>2, AccountedStep
<1>3. ASSUME NEW q, NEW pc \in {"returned", "raised", "died"} PROVE Accounted(Ended(q, pc), Listed[r])
  <2>1. /\ Ended(q, pc).pc = pc /\ Ended(q, pc).todo = Docs /\ Ended(q, pc).changed = {}
        /\ Ended(q, pc).aborted = FALSE
    BY DEF Ended, Fresh
  <2> QED
    BY <2>1 DEF Accounted
<1>4. CASE Finish(r) \/ Abort(r)
  <2> DEFINE pc == IF run[r].row = "lost" THEN "raised" ELSE "returned"
             q == Ended(run[r], pc)
  <2>1. run' = [run EXCEPT ![r] = q]
    BY <1>4 DEF Finish, Abort, Ends
  <2>2. Accounted(q, Listed[r])
    BY <1>3
  <2> HIDE DEF q
  <2> QED
    BY <2>1, <2>2, AccountedStep
<1>5. CASE CommitRaises(r) \/ Crash(r)
  <2> DEFINE q == Ended(RolledBack(run[r]), IF Crash(r) THEN "died" ELSE "raised")
  <2>1. run' = [run EXCEPT ![r] = q]
    BY <1>5 DEF CommitRaises, Crash
  <2>2. Accounted(q, Listed[r])
    BY <1>3
  <2> HIDE DEF q
  <2> QED
    BY <2>1, <2>2, AccountedStep
<1> QED
  BY <1>2, <1>4, <1>5

LEMMA EmbedAccounted ==
  ASSUME Inv, Complete, NEW r \in Runs, Embed(r)
  PROVE  Complete'
<1> DEFINE q == [run[r] EXCEPT !.pc = "write"]
<1>1. run[r] \in Run /\ Accounted(run[r], Listed[r]) /\ run[r].pc = "embed"
  BY Known DEF Complete, Embed
<1>2. run' = [run EXCEPT ![r] = q]
  BY DEF Embed
<1>3. Accounted(q, Listed[r])
  BY <1>1 DEF Accounted, Run
<1> QED
  BY <1>2, <1>3, AccountedStep

LEMMA CompleteInvariance == Spec => []Complete
<1>1. Init => Complete
  BY DEF Init, Complete, Accounted, Fresh
<1>2. ASSUME Inv, Complete, [Next]_vars PROVE Complete'
  <2>1. ASSUME UNCHANGED run PROVE Complete'
    BY <1>2, <2>1 DEF Complete, Accounted
  <2>2. ASSUME NEW d \in Edited, Edit(d) PROVE Complete'
    BY <1>2, <2>1, <2>2 DEF Edit
  <2>3. ASSUME NEW r \in Runs,
               Start(r) \/ SourceFails(r) \/ EmbedFails(r) \/ WriteFails(r) \/ CommitRaises(r) \/ Crash(r) \/ Step(r)
        PROVE  Complete'
    <3>1. CASE Start(r) \/ CommitRaises(r) \/ Crash(r) \/ Finish(r) \/ Abort(r)
      BY <1>2, <3>1, EndsAccounted
    <3>2. CASE SourceFails(r) \/ EmbedFails(r) \/ CommitLost(r)
      BY <1>2, <3>2, FailuresAccounted
    <3>3. CASE NothingChanged(r) \/ CommitBatch(r)
      BY <1>2, <3>3, BatchAccounted
    <3>4. CASE Fetch(r) \/ Check(r) \/ Embed(r)
      BY <1>2, <3>4, FetchAccounted, CheckAccounted, EmbedAccounted
    <3>5. CASE Upsert(r) \/ Replace(r) \/ WriteFails(r)
      BY <1>2, <3>5, UpsertAccounted, ReplaceAccounted, WriteFailsAccounted
    <3> QED
      BY <2>3, <3>1, <3>2, <3>3, <3>4, <3>5 DEF Step
  <2> QED
    BY <1>2, <2>1, <2>2, <2>3 DEF Next, vars
<1> QED
  BY <1>1, <1>2, Invariance, PTL DEF Spec

\* Only a run that ends writes "completed", and only without errors.
LEMMA CompletedStep ==
  ASSUME Inv, Complete, [Next]_vars, NEW r \in Runs, audit'[r] = "completed", audit[r] # "completed"
  PROVE  Listed[r] \subseteq run[r].safe
<1>1. ASSUME NEW s \in Runs, NEW status, Record(s, status) PROVE s = r /\ status = "completed"
  BY <1>1 DEF Record, Inv, TypeOK
<1>2. ASSUME UNCHANGED audit PROVE FALSE
  BY <1>2
<1>3. ASSUME NEW s \in Runs, NothingChanged(s) \/ CommitBatch(s) PROVE FALSE
  <2>1. Record(s, IF run[s].row = "new" THEN "running" ELSE audit[s])
    BY <1>3 DEF NothingChanged, CommitBatch
  <2>2. s = r /\ (IF run[s].row = "new" THEN "running" ELSE audit[s]) = "completed"
    BY <1>1, <2>1
  <2> QED
    BY <2>2
<1>4. ASSUME NEW s \in Runs, Abort(s) PROVE FALSE
  <2>1. Record(s, "failed")
    BY <1>4 DEF Abort, Ends
  <2> QED
    BY <1>1, <2>1
<1>5. ASSUME NEW s \in Runs, Finish(s) PROVE Listed[r] \subseteq run[r].safe
  <2>1. Record(s, Outcome(s))
    BY <1>5 DEF Finish, Ends
  <2>2. s = r /\ Outcome(s) = "completed"
    BY <1>1, <2>1
  <2>3. ~run[r].errors
    BY <2>2 DEF Outcome
  <2>4. Accounted(run[r], Listed[r]) /\ Paired(run[r]) /\ run[r].pc = "fetch" /\ Pending(r) = {}
      /\ run[r].todo = {}
    BY <1>5, <2>2, Known DEF Complete, Finish
  <2>5. Listed[r] \subseteq Docs
    BY ConstantsAssumption
  <2> QED
    BY <2>3, <2>4, <2>5 DEF Accounted, Pending
<1>6. ASSUME NEW s \in Runs,
             Start(s) \/ SourceFails(s) \/ EmbedFails(s) \/ WriteFails(s) \/ CommitRaises(s) \/ Crash(s) \/ Fetch(s)
             \/ Check(s) \/ Embed(s) \/ Upsert(s) \/ Replace(s) \/ CommitLost(s)
      PROVE  FALSE
  BY <1>2, <1>6
  DEF Start, SourceFails, EmbedFails, WriteFails, CommitRaises, Crash, Fetch, Check, Embed, Upsert, Replace, CommitLost
<1>7. ASSUME NEW d \in Edited, Edit(d) PROVE FALSE
  BY <1>2, <1>7 DEF Edit
<1>8. ~ UNCHANGED vars
  BY <1>2 DEF vars
<1> QED
  BY <1>3, <1>4, <1>5, <1>6, <1>7, <1>8 DEF Next, Step

\* For any number of documents, batches and concurrent runs: a run recorded
\* as completed has every document that it listed in the index, found
\* unchanged or committed by the run.
THEOREM CompletedRunsIndexed == Spec => CompletedMeansIndexed
<1>1. Inv /\ Complete /\ [Next]_vars =>
        [\A r \in Runs : audit'[r] = "completed" /\ audit[r] # "completed"
                           => Listed[r] \subseteq run[r].safe]_vars
  BY CompletedStep
<1> QED
  BY <1>1, Invariance, CompleteInvariance, PTL DEF Spec, CompletedMeansIndexed

===============================================================================
