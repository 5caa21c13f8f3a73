-------------------------- MODULE DocumentIngestion --------------------------
(***************************************************************************)
(* The life of an uploaded document: its row in the documents table, its   *)
(* live file on disk, its chunks in the vector store, its entries in every *)
(* process's BM25 index, and the requests and background tasks that move   *)
(* it from "pending" to "ready".                                           *)
(*                                                                         *)
(* A job is one request together with the background work it starts: the   *)
(* FastAPI handler commits, then its BackgroundTask or a Celery worker     *)
(* runs IngestionService step by step.  pc[j] names the await at which job *)
(* j is suspended; every action below is the code between two awaits that  *)
(* touch shared state.                                                     *)
(*                                                                         *)
(* Abstractions.  A file content is a value with a number of batches (one  *)
(* vector_store.insert call each, ten chunks in the code); a chunk list is *)
(* the function from batch number to the content it was cut from, because  *)
(* chunk ids are uuid5(document, index) and insertion overwrites.  Access  *)
(* metadata, the knowledge graph, webhooks and auto-tagging are left out:  *)
(* the last three are non-fatal and change nothing modelled here.  A save  *)
(* of the keyword index takes another thread's chunks whole or not at all. *)
(***************************************************************************)
EXTENDS Naturals, FiniteSets

CONSTANTS
    Docs,        \* document ids (uuid4: every id is used at most once)
    Contents,    \* file contents
    Batches,     \* Batches[c]: insert calls content c needs; 0 = no text
    MaxBatches,  \* bound on Batches
    Jobs,        \* slots for concurrently active jobs
    Workers,     \* Celery worker processes; {} when REDIS_URL is unset
    ForeignKeys, \* TRUE on PostgreSQL, FALSE on SQLite without the pragma
    MaxFaults,   \* bound on each kind of fault
    NoContent, NoDoc

FaultKinds == {"api_crash", "worker_crash", "child_killed", "store_down",
               "db_down", "index_error"}

ASSUME BatchesAssumption ==
    /\ MaxBatches \in Nat
    /\ Batches \in [Contents -> 0..MaxBatches]

ASSUME NullAssumption == NoContent \notin Contents /\ NoDoc \notin Docs

ASSUME HostAssumption == "api" \notin Workers /\ "broker" \notin Workers

ASSUME FaultAssumption == MaxFaults \in [FaultKinds -> Nat]

ASSUME ForeignKeysAssumption == ForeignKeys \in BOOLEAN

VARIABLES
    status,      \* documents.status, or "absent" / "deleted" without a row
    chunkCount,  \* documents.chunk_count, in batches
    logged,      \* does an ingestion_logs row refer to the document?
    file,        \* content of the live file at documents.file_path
    vec,         \* vector store: batch number -> content it came from
    bm25,        \* each process's in-memory BM25 chunk store, once loaded
    loaded,      \* processes whose BM25Service singleton exists
    keeper,      \* history: the running process that indexed it last, if any
    bm25File,    \* data/bm25_index.json
    pc,          \* where each job is suspended
    target,      \* the document a job works on
    host,        \* the process that runs it, or "broker" while queued there
    parsed,      \* the content its parser read
    next,        \* the next batch it will insert
    faults,      \* how many faults of each kind have happened
    serial,      \* history: no two jobs of this document ever overlapped
    stranded     \* history: the last job of this document died half-way

docVars   == <<status, chunkCount, logged, file>>
bm25Vars  == <<bm25, loaded, bm25File, keeper>>
indexVars == <<vec, bm25Vars>>
jobVars   == <<pc, target, host, parsed, next>>
histVars  == <<faults, serial, stranded>>
vars      == <<docVars, indexVars, jobVars, histVars>>

Idx     == 1..MaxBatches
Hosts   == {"api"} \cup Workers
NoIndex == [i \in Idx |-> NoContent]

\* What the store holds when exactly content c is indexed.
Image(c) == [i \in Idx |-> IF i <= Batches[c] THEN c ELSE NoContent]

\* Deterministic chunk ids: the new chunks replace those with the same index
\* and leave the others alone.
Upsert(index, c) ==
    [i \in Idx |-> IF i <= Batches[c] THEN c ELSE index[i]]

Terminal   == {"ready", "failed", "embedding_failed"}
InProgress == {"pending", "processing"}
Exists(d)  == status[d] \in Terminal \cup InProgress

Busy(j, d) == pc[j] # "idle" /\ target[j] = d

\* Steps that still owe the document a terminal status.
WorkingPCs == {"dispatching", "queued", "requeued", "cleaning", "unindexing",
               "parsing", "embedding", "inserting", "indexing", "committing",
               "embfailing", "failing", "marking"}
PCs == WorkingPCs \cup {"idle", "bumping", "acking"}

Working(j, d) == pc[j] \in WorkingPCs /\ target[j] = d

TypeOK ==
    /\ status \in [Docs -> Terminal \cup InProgress \cup {"absent", "deleted"}]
    /\ chunkCount \in [Docs -> 0..MaxBatches]
    /\ logged \in [Docs -> BOOLEAN]
    /\ file \in [Docs -> Contents \cup {NoContent}]
    /\ vec \in [Docs -> [Idx -> Contents \cup {NoContent}]]
    /\ bm25 \in [Hosts -> [Docs -> [Idx -> Contents \cup {NoContent}]]]
    /\ loaded \subseteq Hosts
    /\ bm25File \in [Docs -> [Idx -> Contents \cup {NoContent}]]
    /\ keeper \in [Docs -> Hosts \cup {"none"}]
    /\ pc \in [Jobs -> PCs]
    /\ target \in [Jobs -> Docs \cup {NoDoc}]
    /\ host \in [Jobs -> Hosts \cup {"broker"}]
    /\ parsed \in [Jobs -> Contents \cup {NoContent}]
    /\ next \in [Jobs -> 1..(MaxBatches + 1)]
    /\ faults \in [FaultKinds -> Nat]
    /\ serial \in [Docs -> BOOLEAN]
    /\ stranded \in [Docs -> BOOLEAN]
    /\ \A j \in Jobs : pc[j] # "idle" => target[j] \in Docs
    /\ \A j \in Jobs : pc[j] \in {"inserting", "indexing", "committing"}
                         => parsed[j] \in Contents

Init ==
    /\ status = [d \in Docs |-> "absent"]
    /\ chunkCount = [d \in Docs |-> 0]
    /\ logged = [d \in Docs |-> FALSE]
    /\ file = [d \in Docs |-> NoContent]
    /\ vec = [d \in Docs |-> NoIndex]
    /\ bm25 = [h \in Hosts |-> [d \in Docs |-> NoIndex]]
    /\ loaded = {"api"}
    /\ bm25File = [d \in Docs |-> NoIndex]
    /\ keeper = [d \in Docs |-> "none"]
    /\ pc = [j \in Jobs |-> "idle"]
    /\ target = [j \in Jobs |-> NoDoc]
    /\ host = [j \in Jobs |-> "api"]
    /\ parsed = [j \in Jobs |-> NoContent]
    /\ next = [j \in Jobs |-> 1]
    /\ faults = [k \in FaultKinds |-> 0]
    /\ serial = [d \in Docs |-> TRUE]
    /\ stranded = [d \in Docs |-> FALSE]

----------------------------------------------------------------------------
(* Helpers *)

\* A request for document d takes slot j and stops at step p.
Claim(j, d, p) ==
    /\ pc[j] = "idle"
    /\ pc' = [pc EXCEPT ![j] = p]
    /\ target' = [target EXCEPT ![j] = d]
    /\ serial' = [serial EXCEPT ![d] = @ /\ ~\E k \in Jobs : Busy(k, d)]
    /\ UNCHANGED <<host, parsed, next>>

\* Job j goes on to step p.
Goto(j, p) ==
    /\ pc' = [pc EXCEPT ![j] = p]
    /\ UNCHANGED <<target, host, parsed, next>>

\* The jobs in S lose what they held and are suspended at p on host h.
Drop(S, p, h) ==
    /\ pc' = [j \in Jobs |-> IF j \in S THEN p ELSE pc[j]]
    /\ target' = [j \in Jobs |-> IF j \in S /\ p = "idle"
                                   THEN NoDoc ELSE target[j]]
    /\ host' = [j \in Jobs |-> IF j \in S THEN h ELSE host[j]]
    /\ parsed' = [j \in Jobs |-> IF j \in S THEN NoContent ELSE parsed[j]]
    /\ next' = [j \in Jobs |-> IF j \in S THEN 1 ELSE next[j]]

End(j) == Drop({j}, "idle", "api")

\* The last step of the service: a BackgroundTask ends, a Celery task is still
\* to be acknowledged (task_acks_late).
Finish(j) ==
    IF host[j] = "api" THEN End(j) ELSE Drop({j}, "acking", host[j])

\* Mutant: set_status writes (re-inserts) the row without looking for it.
SetStatusUnguarded(d, s) == status' = [status EXCEPT ![d] = s]

\* DocumentRepository.set_status: nothing happens when the row is gone.
SetStatus(d, s) ==
    status' = IF Exists(d) THEN [status EXCEPT ![d] = s] ELSE status

\* AuditRepository.log_ingestion; its foreign key refuses a vanished document.
LogIngestion(d) ==
    logged' = [logged EXCEPT ![d] = @ \/ Exists(d) \/ ~ForeignKeys]

\* The processes that may run the next step of job j: its own, or an idle
\* worker (one task at a time) when it is queued in the broker.
Runners(j) == IF host[j] = "broker"
                THEN {w \in Workers : \A k \in Jobs : host[k] # w}
                ELSE {host[j]}

\* BM25Service() reads the file the first time a process constructs it: the
\* API at startup, a worker when it first ingests.
Memory(h) == IF h \in loaded THEN bm25[h] ELSE bm25File

Memorise(h, store) ==
    /\ bm25' = [bm25 EXCEPT ![h] = store]
    /\ loaded' = loaded \cup {h}

Fault(k) ==
    /\ faults[k] < MaxFaults[k]
    /\ faults' = [faults EXCEPT ![k] = @ + 1]

\* _save_to_disk writes one temporary file, the same in every process and
\* thread, renames it and swallows every error: the file holds the store, or
\* is as it was, or, when another save runs, may be one that no reader can
\* parse (and so starts from nothing).
SaveToDisk(j, store) ==
    \/ bm25File' = store /\ UNCHANGED faults
    \/ bm25File' = bm25File /\ Fault("index_error")
    \/ /\ \E k \in Jobs \ {j} : pc[k] \in {"indexing", "unindexing"}
       /\ bm25File' \in {bm25File, [d \in Docs |-> NoIndex]}
       /\ UNCHANGED faults

\* The processes in H restart: the API loads the file at once (lifespan),
\* a worker when it needs it.
Restart(H) ==
    /\ bm25' = [h \in Hosts |->
                   IF h \notin H THEN bm25[h]
                   ELSE IF h = "api" THEN bm25File ELSE [d \in Docs |-> NoIndex]]
    /\ loaded' = loaded \ (H \ {"api"})
    /\ keeper' = [d \in Docs |-> IF keeper[d] \in H THEN "none" ELSE keeper[d]]

\* The jobs in S die: a document whose last working job is among them is
\* stranded until somebody requests a re-ingestion.
Strand(S) ==
    stranded' = [d \in Docs |->
        \/ stranded[d]
        \/ /\ \E j \in S : Working(j, d)
           /\ \A j \in Jobs \ S : ~Working(j, d)]

Rescue(d) == stranded' = [stranded EXCEPT ![d] = FALSE]

----------------------------------------------------------------------------
(* Requests *)

\* POST /documents/upload of a filename the owner does not have yet: write
\* the file, create the row, commit.  The response is not sent yet.
UploadNew(j, d, c) ==
    /\ status[d] = "absent"
    /\ Claim(j, d, "dispatching")
    /\ status' = [status EXCEPT ![d] = "pending"]
    /\ file' = [file EXCEPT ![d] = c]
    /\ UNCHANGED <<chunkCount, logged, indexVars, faults, stranded>>

\* Hand the first ingestion to Celery when Redis is configured, else (or when
\* delay() raises) to a BackgroundTask of this process.
Dispatch(j) ==
    /\ pc[j] = "dispatching"
    /\ pc' = [pc EXCEPT ![j] = "queued"]
    /\ \/ UNCHANGED host
       \/ /\ Workers # {}
          /\ host' = [host EXCEPT ![j] = "broker"]
    /\ UNCHANGED <<docVars, indexVars, target, parsed, next, histVars>>

\* The same request for a filename the owner already has: the old file is
\* archived and the live file overwritten before the row is committed.
UploadVersion(j, d, c) ==
    /\ Exists(d)
    /\ Claim(j, d, "bumping")
    /\ file' = [file EXCEPT ![d] = c]
    /\ UNCHANGED <<status, chunkCount, logged, indexVars, faults, stranded>>

\* Its commit: the row goes back to "pending" and a re-ingestion follows the
\* response.  A row deleted meanwhile makes the UPDATE fail (StaleDataError).
CommitVersion(j) ==
    /\ pc[j] = "bumping"
    /\ IF Exists(target[j]) THEN Goto(j, "requeued") ELSE End(j)
    /\ SetStatus(target[j], "pending")
    /\ Rescue(target[j])
    /\ UNCHANGED <<chunkCount, logged, file, indexVars, faults, serial>>

\* POST /documents/{id}/reingest.
RequestReingest(j, d) ==
    /\ Exists(d)
    /\ Claim(j, d, "requeued")
    /\ SetStatus(d, "pending")
    /\ Rescue(d)
    /\ UNCHANGED <<chunkCount, logged, file, indexVars, faults>>

\* DELETE /documents/{id} and POST /documents/bulk/delete: one transaction
\* over the rows, and over nothing else.  With foreign keys enforced a
\* document that has ingestion_logs rows cannot be deleted, and one such
\* document rolls the whole request back.
DeleteDocuments(S) ==
    /\ S # {}
    /\ \A d \in S : Exists(d) /\ (ForeignKeys => ~logged[d])
    /\ status' = [d \in Docs |-> IF d \in S THEN "deleted" ELSE status[d]]
    /\ UNCHANGED <<chunkCount, logged, file, indexVars, jobVars, histVars>>

----------------------------------------------------------------------------
(* IngestionService.reingest_document, before it calls ingest_document *)

LoadForReingest(j) ==
    /\ pc[j] = "requeued"
    /\ IF Exists(target[j]) THEN Goto(j, "cleaning") ELSE End(j)
    /\ UNCHANGED <<docVars, indexVars, histVars>>

\* Mutant: the old vectors are left in place.
DeleteVectorsSkipped(j) ==
    /\ pc[j] = "cleaning"
    /\ Goto(j, "unindexing")
    /\ UNCHANGED <<docVars, indexVars, histVars>>

DeleteVectors(j) ==
    /\ pc[j] = "cleaning"
    /\ Goto(j, "unindexing")
    /\ vec' = [vec EXCEPT ![target[j]] = NoIndex]
    /\ UNCHANGED <<docVars, bm25Vars, histVars>>

\* VectorStoreError from delete_by_document_id: it is raised outside the
\* try block of ingest_document, so nothing records it.
DeleteVectorsFails(j) ==
    /\ pc[j] = "cleaning"
    /\ Fault("store_down")
    /\ Strand({j})
    /\ End(j)
    /\ UNCHANGED <<docVars, indexVars, serial>>

\* Mutant: the old keywords are left in the index.
UnindexSkipped(j) ==
    /\ pc[j] = "unindexing"
    /\ Goto(j, "queued")
    /\ UNCHANGED <<docVars, indexVars, histVars>>

\* BM25Service.remove_document in the API process; saves only if it removed.
Unindex(j) ==
    LET d == target[j] IN
    /\ pc[j] = "unindexing"
    /\ Goto(j, "queued")
    /\ Memorise("api", [Memory("api") EXCEPT ![d] = NoIndex])
    /\ IF Memory("api")[d] = NoIndex
         THEN UNCHANGED <<bm25File, faults>>
         ELSE SaveToDisk(j, bm25'["api"])
    /\ UNCHANGED <<docVars, vec, keeper, serial, stranded>>

\* It may also raise, before it removed (the store changed under its loop) or
\* after (rebuild_index): again outside the try block.
UnindexFails(j) ==
    /\ pc[j] = "unindexing"
    /\ Fault("index_error")
    /\ Strand({j})
    /\ End(j)
    /\ \/ Memorise("api", [Memory("api") EXCEPT ![target[j]] = NoIndex])
       \/ UNCHANGED <<bm25, loaded>>
    /\ UNCHANGED <<docVars, vec, bm25File, keeper, serial>>

----------------------------------------------------------------------------
(* IngestionService.ingest_document *)

\* Its first commit.
Start(j) ==
    /\ pc[j] = "queued"
    /\ pc' = [pc EXCEPT ![j] = "parsing"]
    /\ \E h \in Runners(j) : host' = [host EXCEPT ![j] = h]
    /\ SetStatus(target[j], "processing")
    /\ UNCHANGED <<chunkCount, logged, file, indexVars, target, parsed, next,
                   histVars>>

\* Read, parse and chunk the live file.
Parse(j) ==
    LET c == file[target[j]] IN
    /\ pc[j] = "parsing"
    /\ c \in Contents
    /\ Batches[c] > 0
    /\ pc' = [pc EXCEPT ![j] = "embedding"]
    /\ parsed' = [parsed EXCEPT ![j] = c]
    /\ UNCHANGED <<docVars, indexVars, target, host, next, histVars>>

Embed(j) ==
    /\ pc[j] = "embedding"
    /\ Goto(j, "inserting")
    /\ UNCHANGED <<docVars, indexVars, histVars>>

\* Mutant: the insertion loop runs once more than there are batches.
InsertBatchOneMore(j) ==
    /\ pc[j] = "inserting"
    /\ vec' = [vec EXCEPT ![target[j]][next[j]] = parsed[j]]
    /\ next' = [next EXCEPT ![j] = @ + 1]
    /\ pc' = [pc EXCEPT ![j] = IF next[j] > Batches[parsed[j]]
                                 THEN "indexing" ELSE "inserting"]
    /\ UNCHANGED <<docVars, bm25Vars, target, host, parsed, histVars>>

\* One vector_store.insert call.
InsertBatch(j) ==
    LET d == target[j] IN
    /\ pc[j] = "inserting"
    /\ vec' = [vec EXCEPT ![d][next[j]] = parsed[j]]
    /\ next' = [next EXCEPT ![j] = @ + 1]
    /\ pc' = [pc EXCEPT ![j] = IF next[j] = Batches[parsed[j]]
                                 THEN "indexing" ELSE "inserting"]
    /\ UNCHANGED <<docVars, bm25Vars, target, host, parsed, histVars>>

\* Mutant: the new store holds the chunks just added and no others.
IndexForgets(j) ==
    LET h == host[j] IN
    /\ pc[j] = "indexing"
    /\ Goto(j, "committing")
    /\ Memorise(h, [d \in Docs |-> IF d = target[j] THEN Image(parsed[j]) ELSE NoIndex])
    /\ SaveToDisk(j, bm25'[h])
    /\ keeper' = [keeper EXCEPT ![target[j]] = h]
    /\ UNCHANGED <<docVars, vec, serial, stranded>>

\* BM25Service.add_chunks in the process that runs the job: its whole
\* in-memory store, which may lack what other processes indexed, is saved.
Index(j) ==
    LET d == target[j]
        h == host[j]
    IN
    /\ pc[j] = "indexing"
    /\ Goto(j, "committing")
    /\ Memorise(h, [Memory(h) EXCEPT ![d] = Upsert(@, parsed[j])])
    /\ SaveToDisk(j, bm25'[h])
    /\ keeper' = [keeper EXCEPT ![d] = h]
    /\ UNCHANGED <<docVars, vec, serial, stranded>>

\* add_chunks raises in rebuild_index: the chunks are in memory, unsaved.
IndexFails(j) ==
    LET h == host[j] IN
    /\ pc[j] = "indexing"
    /\ Goto(j, "failing")
    /\ Fault("index_error")
    /\ Memorise(h, [Memory(h) EXCEPT ![target[j]] = Upsert(@, parsed[j])])
    /\ UNCHANGED <<docVars, vec, bm25File, keeper, serial, stranded>>

\* chunk_count, status "ready" and the audit row in one transaction.  When
\* the row is gone the first two do nothing and, with foreign keys enforced,
\* the audit row is refused, which takes the generic failure path.
MarkReady(j) ==
    LET d == target[j] IN
    /\ pc[j] = "committing"
    /\ IF Exists(d) \/ ~ForeignKeys THEN Finish(j) ELSE Goto(j, "failing")
    /\ SetStatus(d, "ready")
    /\ chunkCount' = IF Exists(d)
                       THEN [chunkCount EXCEPT ![d] = Batches[parsed[j]]]
                       ELSE chunkCount
    /\ LogIngestion(d)
    /\ UNCHANGED <<file, indexVars, histVars>>

\* Mutant: a failed ingestion is retried without limit.
IngestRetries(j) ==
    /\ pc[j] \in {"parsing", "inserting"}
    /\ Drop({j}, "queued", host[j])
    /\ UNCHANGED <<docVars, indexVars, histVars>>

\* Unreadable or empty document; insert raising VectorStoreError.
IngestFails(j) ==
    /\ pc[j] \in {"parsing", "inserting"}
    /\ Goto(j, "failing")
    /\ UNCHANGED <<docVars, indexVars, histVars>>

EmbedFails(j) ==
    /\ pc[j] = "embedding"
    /\ Goto(j, "embfailing")
    /\ UNCHANGED <<docVars, indexVars, histVars>>

\* Mutant: an embedding failure is audited but its status never written.
RecordEmbeddingFailureUnset(j) ==
    LET d == target[j] IN
    /\ pc[j] = "embfailing"
    /\ Finish(j)
    /\ LogIngestion(d)
    /\ UNCHANGED <<status, chunkCount, file, indexVars, histVars>>

\* except EmbeddingError: not re-raised, so a Celery task ends normally; an
\* audit row refused by the foreign key raises, and only Celery's task reacts.
RecordEmbeddingFailure(j) ==
    LET d == target[j] IN
    /\ pc[j] = "embfailing"
    /\ IF Exists(d) \/ ~ForeignKeys \/ host[j] = "api"
         THEN Finish(j) ELSE Drop({j}, "marking", host[j])
    /\ SetStatus(d, "embedding_failed")
    /\ LogIngestion(d)
    /\ UNCHANGED <<chunkCount, file, indexVars, histVars>>

\* except Exception: recorded and re-raised to the Celery task, if any.
RecordFailure(j) ==
    LET d == target[j] IN
    /\ pc[j] = "failing"
    /\ IF host[j] = "api" THEN End(j) ELSE Drop({j}, "marking", host[j])
    /\ SetStatus(d, "failed")
    /\ LogIngestion(d)
    /\ UNCHANGED <<chunkCount, file, indexVars, histVars>>

\* ingest_document_task's own handler marks the document failed once more.
MarkFailed(j) ==
    /\ pc[j] = "marking"
    /\ Goto(j, "acking")
    /\ SetStatus(target[j], "failed")
    /\ UNCHANGED <<chunkCount, logged, file, indexVars, histVars>>

\* The worker acknowledges the message: the broker forgets the task.
Ack(j) ==
    /\ pc[j] = "acking"
    /\ End(j)
    /\ UNCHANGED <<docVars, indexVars, histVars>>

----------------------------------------------------------------------------
(* The database refuses a commit. *)

\* The version upload answers 500: the new file is under the old row.
CommitVersionFails(j) ==
    /\ pc[j] = "bumping"
    /\ Fault("db_down")
    /\ End(j)
    /\ serial' = [serial EXCEPT ![target[j]] = FALSE]
    /\ UNCHANGED <<docVars, indexVars, stranded>>

\* The commit of "ready" fails: the generic failure path.
MarkReadyFails(j) ==
    /\ pc[j] = "committing"
    /\ Fault("db_down")
    /\ Goto(j, "failing")
    /\ UNCHANGED <<docVars, indexVars, serial, stranded>>

\* Outside the try block, or in its handlers, the error leaves the service:
\* a Celery task marks its document failed, a BackgroundTask just ends.
RecordFails(j) ==
    /\ Fault("db_down")
    /\ \/ /\ pc[j] \in {"queued", "embfailing", "failing"}
          /\ \E w \in Runners(j) \ {"api"} : Drop({j}, "marking", w)
          /\ UNCHANGED stranded
       \/ /\ pc[j] \in {"requeued", "queued", "embfailing", "failing"}
          /\ host[j] = "api"
          /\ End(j)
          /\ Strand({j})
    /\ UNCHANGED <<docVars, indexVars, serial>>

\* _mark_failed itself fails: logged, and the task is acknowledged.
MarkFailedFails(j) ==
    /\ pc[j] = "marking"
    /\ Fault("db_down")
    /\ Goto(j, "acking")
    /\ Strand({j})
    /\ UNCHANGED <<docVars, indexVars, serial>>

----------------------------------------------------------------------------
(* Crashes *)

OnHost(H) == {j \in Jobs : pc[j] # "idle" /\ host[j] \in H}

\* The API process restarts: its requests and BackgroundTasks are gone, and
\* its BM25 index is loaded from disk.  A version upload that dies between
\* writing the file and committing leaves the new file under the old row.
ApiCrash ==
    /\ Fault("api_crash")
    /\ Drop(OnHost({"api"}), "idle", "api")
    /\ Strand(OnHost({"api"}))
    /\ serial' = [d \in Docs |-> serial[d] /\
                    ~\E j \in Jobs : pc[j] = "bumping" /\ target[j] = d]
    /\ Restart({"api"})
    /\ UNCHANGED <<docVars, vec, bm25File>>

\* The whole worker container restarts: unacknowledged tasks are redelivered.
WorkerCrash ==
    /\ Workers # {}
    /\ Fault("worker_crash")
    /\ Drop(OnHost(Workers), "queued", "broker")
    /\ Restart(Workers)
    /\ UNCHANGED <<docVars, vec, bm25File, serial, stranded>>

\* One prefork child is killed (out of memory, say) under a living parent:
\* without task_reject_on_worker_lost Celery acknowledges its task.
ChildKilled(w) ==
    /\ Fault("child_killed")
    /\ Drop(OnHost({w}), "idle", "api")
    /\ Strand(OnHost({w}))
    /\ Restart({w})
    /\ UNCHANGED <<docVars, vec, bm25File, serial>>

----------------------------------------------------------------------------
(* Specification *)

Step(j) ==
    \/ Dispatch(j) \/ CommitVersion(j)
    \/ LoadForReingest(j) \/ DeleteVectors(j) \/ DeleteVectorsFails(j)
    \/ Unindex(j) \/ UnindexFails(j)
    \/ Start(j) \/ Parse(j) \/ Embed(j) \/ InsertBatch(j) \/ Index(j)
    \/ MarkReady(j) \/ IngestFails(j) \/ EmbedFails(j) \/ IndexFails(j)
    \/ RecordEmbeddingFailure(j) \/ RecordFailure(j) \/ MarkFailed(j) \/ Ack(j)
    \/ CommitVersionFails(j) \/ MarkReadyFails(j) \/ RecordFails(j)
    \/ MarkFailedFails(j)

Request(j, d) ==
    \/ \E c \in Contents : UploadNew(j, d, c) \/ UploadVersion(j, d, c)
    \/ RequestReingest(j, d)

Crash == ApiCrash \/ WorkerCrash \/ \E w \in Workers : ChildKilled(w)

Next ==
    \/ \E j \in Jobs : Step(j) \/ \E d \in Docs : Request(j, d)
    \/ \E S \in SUBSET Docs : DeleteDocuments(S)
    \/ Crash

Spec == Init /\ [][Next]_vars

\* The event loop and the workers keep running what they have started, and
\* the broker's list is first-in first-out, so a queued task is not starved.
FairSpec ==
    /\ Spec
    /\ \A j \in Jobs : WF_vars(Step(j)) /\ SF_vars(Start(j))

----------------------------------------------------------------------------
(* Properties *)

\* A document that shows "pending" or "processing" has a job that will still
\* write a terminal status, whatever the interleaving of uploads, re-ingests,
\* deletions and redeliveries, unless a crash, a killed child, a failed
\* clean-up or a failure that could not be recorded ended that job half-way
\* (set_status writes in ingest_document).
NeverInLimbo ==
    \A d \in Docs : status[d] \in InProgress /\ ~stranded[d]
                      => \E j \in Jobs : Working(j, d)

\* If the jobs of a document never overlapped, then while it is "ready" the
\* vector store holds exactly the chunks of its live file, none stale and
\* none missing, and chunk_count is their number: across re-ingests, partial
\* inserts, API and worker crashes and redelivered tasks.  (A version upload
\* that has written its file but not committed is the one exception.)
ReadyIndexExact ==
    \A d \in Docs :
        status[d] = "ready" /\ serial[d]
          /\ (\A j \in Jobs : Busy(j, d) => pc[j] # "bumping")
        => /\ vec[d] = Image(file[d])
           /\ chunkCount[d] = Batches[file[d]]

\* The same for the keyword index, in the process that indexed the document
\* last and has not restarted since, be it the API or a worker: none of the
\* chunks of an earlier content stays behind and none is missing, whatever
\* other documents, re-ingestions, redelivered tasks, restarts, failed saves
\* and spoilt files come in between.
KeywordIndexExact ==
    \A d \in Docs :
        status[d] = "ready" /\ serial[d] /\ keeper[d] # "none"
          /\ (\A j \in Jobs : Busy(j, d) => pc[j] # "bumping")
        => Memory(keeper[d])[d] = Image(file[d])

\* What a document's status says of the work on it, to whoever watches it.
Shown(s) == CASE s \in InProgress -> "waiting" [] s \in Terminal -> "settled"
              [] s = "deleted" -> "removed" [] OTHER -> "absent"
Owed(d) == Exists(d) /\ \E j \in Jobs : Working(j, d)
Lost(d) == Exists(d) /\ stranded[d]

\* Every step keeps the promise of IngestionPromise: a document in progress
\* is owed an end or lost, a status is written for a request or by a job that
\* owes it, and a late or redelivered ingestion of a deleted document does not
\* bring its row back (the guard in DocumentRepository.set_status).
Promise == INSTANCE IngestionPromise WITH
    shown <- [d \in Docs |-> Shown(status[d])],
    owed <- {d \in Docs : Owed(d)}, lost <- {d \in Docs : Lost(d)}
Refines == Promise!Spec

\* Every upload and re-ingest settles: pending or processing ends in ready,
\* failed, embedding_failed or deletion, even when workers crash and tasks
\* are redelivered, unless the document's last job died half-way.
Settles ==
    \A d \in Docs : status[d] \in InProgress
                      ~> status[d] \notin InProgress \/ stranded[d]

=============================================================================
