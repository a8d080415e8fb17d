------------------------------- MODULE Ingestion -------------------------------
(***************************************************************************)
(* Ingestion runs (IngestionPipeline in src/backend/app/knowledge/         *)
(* ingestion.py, PgVectorStore.upsert_document in vector_store.py), each   *)
(* in its own session, over the documents of one source.                   *)
(*                                                                         *)
(* A statement that the server refuses leaves the transaction in error:    *)
(* every later statement of it is refused too, and its COMMIT is answered  *)
(* with a rollback that raises nothing.  A row that another transaction    *)
(* has written is waited for, and the server ends a cycle of waits by      *)
(* refusing a statement.  A source lists its documents in one order, in    *)
(* which every run meets them.  The embeddings have the dimension that was *)
(* asked for: the insert of the chunks fails at the server or not at all.  *)
(***************************************************************************)
EXTENDS Naturals, FiniteSets

CONSTANTS
  Docs,         \* the documents, numbered as the source lists them
  Listed,       \* those that the connector of each run lists: all, or up to its limit
  Runs, NoDoc,
  FlushEvery,   \* _FLUSH_EVERY
  Edited,       \* bound: the documents that change at their source
  MaxVersion,   \* bound on the versions of a document at its source
  MaxFaults     \* bound on the failures of documents, embeddings, writes, sources, processes

ASSUME ConstantsAssumption ==
  /\ FlushEvery \in Nat \ {0} /\ MaxVersion \in Nat \ {0} /\ MaxFaults \in Nat
  /\ Edited \subseteq Docs /\ Docs \subseteq Nat /\ IsFiniteSet(Docs) /\ NoDoc \notin Docs
  /\ Listed \in [Runs -> SUBSET Docs]

VARIABLES
  site,           \* what the source holds: the version of each document
  docs, chunks,   \* committed: the version of a document and of its chunks
  audit,          \* committed: the status of each run's IngestionRun row
  run,            \* the runs
  faults          \* the failures so far

vars == <<site, docs, chunks, audit, run, faults>>

Versions == 0 .. MaxVersion

(* held: the pending batch, by the version fetched; changed: its documents *)
(* left to write; docs, chunks: what the transaction has written; row: the *)
(* run's own row as the session knows it - "new" in this transaction,      *)
(* "kept" by a commit, "lost" by a COMMIT that rolled back, "forgotten" by *)
(* a rollback; dirty: the documents whose fetched_at waits for the flush of *)
(* the commit; wrote: documents_written is not zero; safe records the      *)
(* documents found unchanged, or committed.                                *)
Nothing == [d \in Docs |-> 0]
Fresh == [pc |-> "idle", todo |-> Docs, held |-> Nothing, changed |-> {},
          doc |-> NoDoc, docs |-> Nothing, chunks |-> Nothing, aborted |-> FALSE, dirty |-> {},
          row |-> "new", errors |-> FALSE, wrote |-> FALSE, safe |-> {}]

TypeOK ==
  /\ site \in [Docs -> Versions \ {0}] /\ faults \in 0 .. MaxFaults
  /\ docs \in [Docs -> Versions] /\ chunks \in [Docs -> Versions]
  /\ audit \in [Runs -> {"none", "running", "completed", "partial", "failed"}]
  /\ run \in [Runs ->
       [pc : {"idle", "fetch", "embed", "write", "chunks", "fatal", "returned", "raised", "died"},
        todo : SUBSET Docs, held : [Docs -> Versions], changed : SUBSET Docs,
        doc : Docs \cup {NoDoc}, docs : [Docs -> Versions], chunks : [Docs -> Versions],
        aborted : BOOLEAN, dirty : SUBSET Docs, row : {"new", "kept", "lost", "forgotten"},
        errors : BOOLEAN, wrote : BOOLEAN, safe : SUBSET Docs]]

Init ==
  /\ site = [d \in Docs |-> 1]
  /\ docs = Nothing /\ chunks = Nothing
  /\ audit = [r \in Runs |-> "none"]
  /\ run = [r \in Runs |-> Fresh] /\ faults = 0

-----------------------------------------------------------------------------
Pending(r) == {d \in Docs : run[r].held[d] # 0}
First(S) == {d \in S : \A e \in S : d <= e}
(* What the run reads: its own writes over the committed rows.             *)
Stored(r, d) == IF run[r].docs[d] # 0 THEN run[r].docs[d] ELSE docs[d]
Lockers(r, d) == {s \in Runs \ {r} : run[s].docs[d] # 0 /\ ~run[s].aborted}

(* The rows a run asks for: of the document it writes, or of all those     *)
(* whose fetched_at its commit flushes.                                    *)
Wanted(r) ==
  {d \in Docs : /\ run[r].pc = "write" /\ ~run[r].aborted
                /\ IF run[r].changed = {} THEN d \in run[r].dirty
                   ELSE d \in First(run[r].changed) /\ Stored(r, d) # run[r].held[d]}
Blockers(r) == UNION {Lockers(r, d) : d \in Wanted(r)}
Deadlocked(r) ==
  Blockers(r) # {} /\ \E cycle \in SUBSET Runs : r \in cycle /\ \A s \in cycle : Blockers(s) \cap cycle # {}

Fault == faults < MaxFaults /\ faults' = faults + 1

(* The source publishes a new version of a document.                       *)
Edit(d) ==
  /\ site[d] < MaxVersion
  /\ site' = [site EXCEPT ![d] = @ + 1]
  /\ UNCHANGED <<docs, chunks, audit, run, faults>>

(* ingest(): the run's row is flushed, and the source is read.             *)
Start(r) ==
  /\ run[r].pc = "idle"
  /\ run' = [run EXCEPT ![r].pc = "fetch", ![r].todo = Listed[r]]
  /\ UNCHANGED <<site, docs, chunks, audit, faults>>

(* The next document of the source joins the batch, unless it cannot be    *)
(* chunked.                                                                *)
Fetch(r) ==
  /\ run[r].pc = "fetch" /\ Cardinality(Pending(r)) < FlushEvery
  /\ \E d \in First(run[r].todo) :
       \/ /\ run' = [run EXCEPT ![r].todo = @ \ {d}, ![r].held[d] = site[d]]
          /\ UNCHANGED faults
       \/ /\ run' = [run EXCEPT ![r].todo = @ \ {d}, ![r].errors = TRUE]
          /\ Fault
  /\ UNCHANGED <<site, docs, chunks, audit>>

SourceFails(r) ==
  /\ Fault
  /\ run[r].pc = "fetch" /\ run[r].todo # {} /\ Cardinality(Pending(r)) < FlushEvery
  /\ run' = [run EXCEPT ![r].pc = "fatal", ![r].held = Nothing, ![r].errors = TRUE]
  /\ UNCHANGED <<site, docs, chunks, audit>>

(* Mutant: a last batch that is not full is never flushed.                 *)
CheckFullOnly(r) ==
  LET current == {d \in Pending(r) : docs[d] = run[r].held[d]} IN
  /\ run[r].pc = "fetch" /\ Pending(r) # {}
  /\ Cardinality(Pending(r)) >= FlushEvery
  /\ run' = [run EXCEPT ![r].pc = "embed", ![r].changed = Pending(r) \ current, ![r].safe = @ \cup current]
  /\ UNCHANGED <<site, docs, chunks, audit, faults>>

(* _flush of a full batch, or the last one: _is_unchanged drops what is    *)
(* current.  Its lookups are one step: upsert_document looks again.        *)
Check(r) ==
  LET current == {d \in Pending(r) : docs[d] = run[r].held[d]} IN
  /\ run[r].pc = "fetch" /\ Pending(r) # {}
  /\ Cardinality(Pending(r)) >= FlushEvery \/ run[r].todo = {}
  /\ run' = [run EXCEPT ![r].pc = "embed", ![r].changed = Pending(r) \ current, ![r].safe = @ \cup current]
  /\ UNCHANGED <<site, docs, chunks, audit, faults>>

-----------------------------------------------------------------------------
(* The end of a batch: nothing of it is held or written any more.          *)
Cleared(q) == [q EXCEPT !.pc = "fetch", !.held = Nothing, !.changed = {}, !.doc = NoDoc,
                        !.docs = Nothing, !.chunks = Nothing, !.aborted = FALSE, !.dirty = {}]
Kept(q) == [Cleared(q) EXCEPT !.row = IF q.row = "new" THEN "kept" ELSE q.row]
RolledBack(q) == [Cleared(q) EXCEPT !.row = IF q.row = "new" THEN "forgotten" ELSE q.row]
Lost(q) == [Cleared(q) EXCEPT !.row = IF q.row = "new" THEN "lost" ELSE q.row]

(* The rows of a transaction become visible together.                      *)
Publish(r) ==
  /\ docs' = [d \in Docs |-> IF run[r].docs[d] # 0 THEN run[r].docs[d] ELSE docs[d]]
  /\ chunks' = [d \in Docs |-> IF run[r].chunks[d] # 0 THEN run[r].chunks[d] ELSE chunks[d]]
Record(r, status) == audit' = [audit EXCEPT ![r] = IF run[r].row \in {"new", "kept"} THEN status ELSE @]
Unchanged(r) == run[r].changed = {}

(* A batch without changes is committed as it is.                          *)
NothingChanged(r) ==
  /\ run[r].pc = "embed" /\ Unchanged(r)
  /\ Record(r, IF run[r].row = "new" THEN "running" ELSE audit[r])
  /\ run' = [run EXCEPT ![r] = Kept(run[r])]
  /\ UNCHANGED <<site, docs, chunks, faults>>

(* The chunks of the changed documents are embedded, or the batch fails.   *)
Embed(r) ==
  /\ run[r].pc = "embed" /\ ~Unchanged(r)
  /\ run' = [run EXCEPT ![r].pc = "write"]
  /\ UNCHANGED <<site, docs, chunks, audit, faults>>

EmbedFails(r) ==
  /\ Fault
  /\ run[r].pc = "embed" /\ ~Unchanged(r)
  /\ run' = [run EXCEPT ![r] = [RolledBack(@) EXCEPT !.errors = TRUE]]
  /\ UNCHANGED <<site, docs, chunks, audit>>

(* upsert_document: the document, unless it has become current meanwhile.  *)
Upsert(r) ==
  /\ run[r].pc = "write" /\ ~run[r].aborted
  /\ \E d \in First(run[r].changed) :
       IF Stored(r, d) = run[r].held[d]
       THEN run' = [run EXCEPT ![r].changed = @ \ {d}, ![r].dirty = @ \cup {d}, ![r].safe = @ \cup {d}]
       ELSE /\ Blockers(r) = {}
            /\ run' = [run EXCEPT ![r].pc = "chunks", ![r].doc = d, ![r].docs[d] = run[r].held[d]]
  /\ UNCHANGED <<site, docs, chunks, audit, faults>>

(* Mutant: the chunks are replaced only when the document had none.        *)
ReplaceOnce(r) ==
  LET q == run[r] IN
  /\ q.pc = "chunks"
  /\ run' = [run EXCEPT ![r] = [q EXCEPT !.pc = "write", !.doc = NoDoc, !.changed = q.changed \ {q.doc},
               !.chunks[q.doc] = IF chunks[q.doc] = 0 THEN q.held[q.doc] ELSE 0, !.wrote = TRUE]]
  /\ UNCHANGED <<site, docs, chunks, audit, faults>>

(* Its chunks are deleted and inserted anew.                               *)
Replace(r) ==
  LET q == run[r] IN
  /\ q.pc = "chunks"
  /\ run' = [run EXCEPT ![r] = [q EXCEPT !.pc = "write", !.doc = NoDoc, !.changed = q.changed \ {q.doc},
               !.chunks[q.doc] = q.held[q.doc], !.wrote = TRUE]]
  /\ UNCHANGED <<site, docs, chunks, audit, faults>>

(* Mutant: a document that cannot be written is passed over.               *)
WriteFailsSilently(r) ==
  /\ run[r].pc \in {"write", "chunks"}
  /\ \E d \in First(run[r].changed) :
       /\ \/ run[r].pc = "write" /\ ~run[r].aborted /\ run' = [run EXCEPT ![r].changed = @ \ {d}]
          \/ run' = [run EXCEPT ![r].pc = "write", ![r].doc = NoDoc, ![r].changed = @ \ {d},
                                ![r].aborted = TRUE, ![r].errors = TRUE]
  /\ IF run[r].aborted THEN UNCHANGED faults ELSE Fault
  /\ UNCHANGED <<site, docs, chunks, audit>>

(* What the server refuses: all in a transaction in error, and a statement *)
(* of a cycle of waits; anything else is a failure of its own.             *)
Refusal(r) == IF run[r].aborted \/ Deadlocked(r) THEN UNCHANGED faults ELSE Fault

(* A document fails: its first statement cannot be sent, or the server     *)
(* refuses one.                                                            *)
WriteFails(r) ==
  /\ run[r].pc \in {"write", "chunks"}
  /\ \E d \in First(run[r].changed) :
       \/ /\ Fault /\ run[r].pc = "write" /\ ~run[r].aborted
          /\ run' = [run EXCEPT ![r].changed = @ \ {d}, ![r].errors = TRUE]
       \/ /\ Refusal(r)
          /\ run' = [run EXCEPT ![r].pc = "write", ![r].doc = NoDoc, ![r].changed = @ \ {d},
                                ![r].aborted = TRUE, ![r].errors = TRUE]
  /\ UNCHANGED <<site, docs, chunks, audit>>

(* The commit of a batch, with the flush of fetched_at.                    *)
CommitBatch(r) ==
  /\ run[r].pc = "write" /\ run[r].changed = {} /\ ~run[r].aborted /\ Blockers(r) = {}
  /\ Publish(r)
  /\ Record(r, IF run[r].row = "new" THEN "running" ELSE audit[r])
  /\ run' = [run EXCEPT ![r] = [Kept(run[r]) EXCEPT !.safe = run[r].safe \cup {d \in Docs : run[r].docs[d] # 0}]]
  /\ UNCHANGED <<site, faults>>

(* In a transaction in error COMMIT rolls back without a word, and the     *)
(* session takes its rows for stored.                                      *)
CommitLost(r) ==
  /\ run[r].pc = "write" /\ run[r].changed = {} /\ run[r].aborted /\ run[r].dirty = {}
  /\ run' = [run EXCEPT ![r] = Lost(run[r])]
  /\ UNCHANGED <<site, docs, chunks, audit, faults>>

(* The end of a run: it keeps nothing but its row.                         *)
Ended(q, pc) == [Fresh EXCEPT !.pc = pc, !.row = q.row]

(* A commit whose flush is refused raises and rolls back; the session      *)
(* waits for a rollback of its own, so the commit of the fatal path raises *)
(* too, out of ingest(), with nothing recorded.                            *)
CommitRaises(r) ==
  /\ run[r].pc = "write" /\ run[r].changed = {} /\ run[r].dirty # {} /\ Refusal(r)
  /\ run' = [run EXCEPT ![r] = Ended(RolledBack(@), "raised")]
  /\ UNCHANGED <<site, docs, chunks, audit>>

-----------------------------------------------------------------------------
(* The run records its outcome.  A row that a rollback has made the        *)
(* session forget is not written; the update of a row that is not there    *)
(* raises.                                                                 *)
Ends(r, status) ==
  /\ Record(r, status)
  /\ run' = [run EXCEPT ![r] = Ended(@, IF @.row = "lost" THEN "raised" ELSE "returned")]
  /\ UNCHANGED <<site, docs, chunks, faults>>

(* status of IngestionResult.                                              *)
Outcome(r) == IF ~run[r].errors THEN "completed" ELSE IF run[r].wrote THEN "partial" ELSE "failed"

(* Mutant: the fatal path returns without recording its outcome.           *)
AbortUnrecorded(r) ==
  /\ run[r].pc = "fatal"
  /\ run' = [run EXCEPT ![r] = Ended(@, "returned")]
  /\ UNCHANGED <<site, docs, chunks, audit, faults>>

Finish(r) == run[r].pc = "fetch" /\ run[r].todo = {} /\ Pending(r) = {} /\ Ends(r, Outcome(r))
Abort(r) == run[r].pc = "fatal" /\ Ends(r, "failed")

(* The process dies, or loses its connection: the open transaction goes.   *)
Crash(r) ==
  /\ Fault
  /\ run[r].pc \notin {"idle", "returned", "raised", "died"}
  /\ run' = [run EXCEPT ![r] = Ended(RolledBack(@), "died")]
  /\ UNCHANGED <<site, docs, chunks, audit>>

Step(r) ==
  \/ Fetch(r) \/ Check(r) \/ NothingChanged(r) \/ Embed(r) \/ Upsert(r) \/ Replace(r)
  \/ CommitBatch(r) \/ CommitLost(r) \/ Finish(r) \/ Abort(r)
Next ==
  \/ \E d \in Edited : Edit(d)
  \/ \E r \in Runs : Start(r) \/ SourceFails(r) \/ EmbedFails(r) \/ WriteFails(r) \/ CommitRaises(r) \/ Crash(r) \/ Step(r)

(* A run that can go on goes on; so does one that the server refuses,      *)
(* through failures.                                                       *)
Fairness ==
  \A r \in Runs :
    WF_vars(Step(r) \/ ((run[r].aborted \/ Deadlocked(r)) /\ (WriteFails(r) \/ CommitRaises(r))))
Spec == Init /\ [][Next]_vars /\ Fairness

-----------------------------------------------------------------------------
(* A run recorded as completed has every document that it listed in the    *)
(* index: found unchanged, or committed by the run.                        *)
CompletedMeansIndexed ==
  [][\A r \in Runs : audit'[r] = "completed" /\ audit[r] # "completed" => Listed[r] \subseteq run[r].safe]_vars

(* A run that gives its caller a result has recorded its outcome, unless   *)
(* a rollback came before its first commit.  A row that a rollback took    *)
(* away never comes back.  (A run that raises records nothing: see         *)
(* CommitRaises and the row that is "lost".)                               *)
RecordedUnlessForgotten ==
  \A r \in Runs :
    /\ run[r].pc = "returned" /\ run[r].row # "forgotten" => audit[r] \notin {"none", "running"}
    /\ run[r].row \in {"forgotten", "lost"} => audit[r] = "none"

(* Every run that has started ends for good, however the runs wait for     *)
(* each other's documents, in a cycle too.                                 *)
RunsEnd == <>[](\A r \in Runs : run[r].pc \in {"idle", "returned", "raised", "died"})

(* Ingestion implements the index: whatever the runs do and wherever they  *)
(* fail, a reader sees batches whole, and documents with their own chunks. *)
Index == INSTANCE KnowledgeIndex WITH
  index <- [d \in Docs |-> IF docs[d] = chunks[d] THEN docs[d] ELSE MaxVersion + 1]
ImplementsIndex == Index!Spec
===============================================================================
