---------------------------- MODULE ConnectorSync ----------------------------
(***************************************************************************)
(* One external connector: the Celery tasks that synchronise it (hourly    *)
(* from beat, or on request), the ingestion tasks they dispatch, and the   *)
(* requests that pause, resume and delete it.                              *)
(*                                                                         *)
(* A sync is one database transaction from its first query to its commit.  *)
(* PostgreSQL isolates it at READ COMMITTED: what it added is seen by      *)
(* nobody else before the commit, a row it wrote blocks other writers of   *)
(* that row, and UNIQUE(connector_id, external_id) makes the later of two  *)
(* inserts fail.  Objects loaded once in a session are not read again.     *)
(* The ingestion task is DocumentIngestion's, in two steps.                *)
(***************************************************************************)
EXTENDS Naturals, FiniteSets

CONSTANTS
    NumItems,    \* documents of the remote source, in listing order
    Versions,    \* contents an item can have; their MD5s are distinct
    Size,        \* Size[v]: how many chunks version v has
    MaxSize,     \* bound on Size
    ListsMD5,    \* list_documents reports the MD5 of the content
    Syncs,       \* slots for sync tasks queued or running
    Tasks,       \* slots for ingestion tasks queued or running
    MaxDocs,     \* bound on the document ids handed out
    MaxChanges,  \* bound on the changes at the remote source
    MaxFaults,   \* bound on failed calls and worker restarts together
    NoVersion

Items  == 1..NumItems
DocIds == 1..MaxDocs
NoDoc  == 0
Idx    == 1..MaxSize

ASSUME SyncAssumption ==
    /\ NumItems \in Nat \ {0} /\ MaxDocs \in Nat /\ MaxSize \in Nat \ {0}
    /\ MaxChanges \in Nat /\ MaxFaults \in Nat /\ ListsMD5 \in BOOLEAN
    /\ Size \in [Versions -> 1..MaxSize]
    /\ NoVersion \notin Versions

VARIABLES
    remote,      \* the content of every item at the source
    status,      \* connectors.status, or "deleted"
    total,       \* connectors.total_docs_synced
    rec,         \* connector_documents: content_hash and document_id
    row,         \* documents.status of every id; "none" until committed
    lastDoc,     \* the document ids handed out so far are 1..lastDoc
    disk,        \* the file saved for every item
    index,       \* vector store: chunks of every document id
    spc,         \* where each sync is suspended
    loaded,      \* the connector's status and total as the sync loaded them
    known,       \* the records it has read
    listed,      \* what list_documents returned
    at,          \* the item it is at
    got,         \* the content it has fetched
    mine,        \* the records it has written and not committed
    task,        \* ingestion tasks
    changes, faults,
    overlapped   \* history: syncs ran at once, a sync lost a file or a task
                 \* it had left, or a document had two tasks at once

store    == <<remote, disk, index, lastDoc>>
database == <<status, total, rec, row>>
syncVars == <<spc, loaded, known, listed, at, got, mine>>
vars == <<store, database, syncVars, task, changes, faults, overlapped>>

Record   == [hash : Versions, ref : DocIds]
NoRecord == [hash |-> NoVersion, ref |-> NoDoc]
NoFile   == [i \in Idx |-> NoVersion]
Free     == [pc |-> "free", doc |-> NoDoc, item |-> 1, read |-> NoVersion]

Fresh  == [i \in Items |-> NoRecord]
Active == {s \in Syncs : spc[s] \notin {"idle", "queued"}}
Live(d) == {t \in Tasks : task[t].pc # "free" /\ task[t].doc = d}

\* Items whose connector_documents row sync s has written in its transaction.
Holds(s) == {i \in Items : mine[s][i] # NoRecord
                             /\ ~(spc[s] = "flushing" /\ at[s] = i)}

TypeOK ==
    /\ remote \in [Items -> Versions]
    /\ status \in {"active", "paused", "error", "deleted"}
    /\ total \in Nat
    /\ rec \in [Items -> Record \cup {NoRecord}]
    /\ row \in [DocIds -> {"none", "pending", "processing", "ready", "failed"}]
    /\ lastDoc \in 0..MaxDocs
    /\ disk \in [Items -> Versions \cup {NoVersion}]
    /\ index \in [DocIds -> [Idx -> Versions \cup {NoVersion}]]
    /\ spc \in [Syncs -> {"idle", "queued", "listing", "scanning", "fetching",
                          "saving", "flushing", "failing"}]
    /\ loaded \in [Syncs -> [status : {"active", "error"}, total : Nat]]
    /\ known \in [Syncs -> [Items -> Record \cup {NoRecord}]]
    /\ listed \in [Syncs -> [Items -> Versions \cup {NoVersion}]]
    /\ at \in [Syncs -> 1..(NumItems + 1)]
    /\ got \in [Syncs -> Versions \cup {NoVersion}]
    /\ mine \in [Syncs -> [Items -> Record \cup {NoRecord}]]
    /\ task \in [Tasks -> [pc : {"free", "queued", "running", "marking"},
                           doc : DocIds \cup {NoDoc}, item : Items,
                           read : Versions \cup {NoVersion}]]
    /\ changes \in 0..MaxChanges /\ faults \in 0..MaxFaults
    /\ overlapped \in BOOLEAN

\* create_connector has committed the row and dispatched its first sync.
Init ==
    /\ remote \in [Items -> Versions]
    /\ status = "active" /\ total = 0
    /\ rec = Fresh
    /\ row = [d \in DocIds |-> "none"]
    /\ lastDoc = 0
    /\ disk = [i \in Items |-> NoVersion]
    /\ index = [d \in DocIds |-> NoFile]
    /\ \E s \in Syncs :
         spc = [x \in Syncs |-> IF x = s THEN "queued" ELSE "idle"]
    /\ loaded = [s \in Syncs |-> [status |-> "active", total |-> 0]]
    /\ known = [s \in Syncs |-> Fresh]
    /\ listed = [s \in Syncs |-> [i \in Items |-> NoVersion]]
    /\ at = [s \in Syncs |-> 1]
    /\ got = [s \in Syncs |-> NoVersion]
    /\ mine = [s \in Syncs |-> Fresh]
    /\ task = [t \in Tasks |-> Free]
    /\ changes = 0 /\ faults = 0 /\ overlapped = FALSE

Fault == faults < MaxFaults /\ faults' = faults + 1

----------------------------------------------------------------------------
(* The source, the clock and the administrator *)

\* Somebody edits an item at the source.
RemoteChange(i, v) ==
    /\ changes < MaxChanges
    /\ v # remote[i]
    /\ remote' = [remote EXCEPT ![i] = v]
    /\ changes' = changes + 1
    /\ UNCHANGED <<disk, index, lastDoc, database, syncVars, task, faults,
                   overlapped>>

Enqueue(s) ==
    /\ spc[s] = "idle"
    /\ spc' = [spc EXCEPT ![s] = "queued"]
    /\ UNCHANGED <<store, database, loaded, known, listed, at, got, mine, task,
                   changes, faults, overlapped>>

\* sync_all_connectors_task, hourly: active connectors only.
Beat(s) == status = "active" /\ Enqueue(s)

\* POST /connectors/{id}/sync: whatever the status.
TriggerSync(s) == status # "deleted" /\ Enqueue(s)

\* PATCH /connectors/{id} with a status.
SetConnectorStatus(new) ==
    /\ status \notin {"deleted", new}
    /\ new \in {"active", "paused"}
    /\ status' = new
    /\ UNCHANGED <<store, total, rec, row, syncVars, task, changes, faults,
                   overlapped>>

\* DELETE /connectors/{id}: its records go with it, the documents stay.  The
\* DELETE waits for a transaction that has written one of the records.
DeleteConnector ==
    /\ status # "deleted"
    /\ \A s \in Syncs : Holds(s) = {}
    /\ status' = "deleted"
    /\ rec' = Fresh
    /\ UNCHANGED <<store, total, row, syncVars, task, changes, faults,
                   overlapped>>

----------------------------------------------------------------------------
(* _run_sync *)

\* The sync ends: nothing of its session survives.
Forget(S, pc) ==
    /\ spc' = [s \in Syncs |-> IF s \in S THEN pc ELSE spc[s]]
    /\ loaded' = [s \in Syncs |-> IF s \in S
                    THEN [status |-> "active", total |-> 0] ELSE loaded[s]]
    /\ known' = [s \in Syncs |-> IF s \in S THEN Fresh ELSE known[s]]
    /\ listed' = [s \in Syncs |-> IF s \in S
                    THEN [i \in Items |-> NoVersion] ELSE listed[s]]
    /\ at' = [s \in Syncs |-> IF s \in S THEN 1 ELSE at[s]]
    /\ got' = [s \in Syncs |-> IF s \in S THEN NoVersion ELSE got[s]]
    /\ mine' = [s \in Syncs |-> IF s \in S THEN Fresh ELSE mine[s]]

\* 1. Load the connector, and with it (selectin) all its records.
Load(s) ==
    /\ spc[s] = "queued"
    /\ IF status \in {"deleted", "paused"}
         THEN Forget({s}, "idle") /\ UNCHANGED overlapped
         ELSE /\ spc' = [spc EXCEPT ![s] = "listing"]
              /\ loaded' = [loaded EXCEPT ![s] = [status |-> status,
                                                  total |-> total]]
              /\ known' = [known EXCEPT ![s] = rec]
              /\ overlapped' = (overlapped \/ Active # {})
              /\ UNCHANGED <<listed, at, got, mine>>
    /\ UNCHANGED <<store, database, task, changes, faults>>

\* 3. List the source.  A connector that has only an ETag or a date lists
\* that instead of the content's MD5: it equals no recorded hash.
List(s) ==
    /\ spc[s] = "listing"
    /\ spc' = [spc EXCEPT ![s] = "scanning"]
    /\ listed' = [listed EXCEPT ![s] =
                    [i \in Items |-> IF ListsMD5 THEN remote[i] ELSE NoVersion]]
    /\ UNCHANGED <<store, database, loaded, known, at, got, mine, task, changes,
                   faults, overlapped>>

ListFails(s) ==
    /\ spc[s] = "listing"
    /\ Fault
    /\ spc' = [spc EXCEPT ![s] = "failing"]
    /\ UNCHANGED <<store, database, loaded, known, listed, at, got, mine, task,
                   changes, overlapped>>

\* The record of item i as the session of s sees it: one it already holds is
\* not read again.
Seen(s, i) == IF known[s][i] # NoRecord THEN known[s][i] ELSE rec[i]

SkipOrFetch(s, skip) ==
    /\ spc[s] = "scanning"
    /\ at[s] \in Items
    /\ known' = [known EXCEPT ![s][at[s]] = Seen(s, at[s])]
    /\ IF skip THEN at' = [at EXCEPT ![s] = @ + 1] /\ UNCHANGED spc
               ELSE spc' = [spc EXCEPT ![s] = "fetching"] /\ UNCHANGED at
    /\ UNCHANGED <<store, database, loaded, listed, got, mine, task, changes,
                   faults, overlapped>>

\* Mutant: an item is recognised by its record, not by its hash.
ExamineAnyRecord(s) == SkipOrFetch(s, Seen(s, at[s]) # NoRecord)

\* 4a, 4b. Look the item's record up and skip the item when the listed hash
\* is the recorded one.
Examine(s) ==
    SkipOrFetch(s, LET seen == Seen(s, at[s])
                   IN  seen # NoRecord /\ seen.hash = listed[s][at[s]])

\* 4c. Fetch what the item holds now; skip it if that is what was recorded.
Fetch(s) ==
    LET i == at[s] IN
    /\ spc[s] = "fetching"
    /\ IF known[s][i].hash = remote[i]
         THEN /\ spc' = [spc EXCEPT ![s] = "scanning"]
              /\ at' = [at EXCEPT ![s] = i + 1]
              /\ UNCHANGED got
         ELSE /\ spc' = [spc EXCEPT ![s] = "saving"]
              /\ got' = [got EXCEPT ![s] = remote[i]]
              /\ UNCHANGED at
    /\ UNCHANGED <<store, database, loaded, known, listed, mine, task, changes,
                   faults, overlapped>>

\* Mutant: a fetch failure steps over the next item as well.
FetchFailsTwice(s) ==
    /\ spc[s] = "fetching"
    /\ Fault
    /\ spc' = [spc EXCEPT ![s] = "scanning"]
    /\ at' = [at EXCEPT ![s] = @ + 2]
    /\ UNCHANGED <<store, database, loaded, known, listed, got, mine, task,
                   changes, overlapped>>

\* An item that cannot be fetched is left for the next sync.
FetchFails(s) ==
    /\ spc[s] = "fetching"
    /\ Fault
    /\ spc' = [spc EXCEPT ![s] = "scanning"]
    /\ at' = [at EXCEPT ![s] = @ + 1]
    /\ UNCHANGED <<store, database, loaded, known, listed, got, mine, task,
                   changes, overlapped>>

\* Write the file, create the documents row or reuse the recorded one, send
\* the ingestion task, and write the record: before anything is committed.
Save(s, t) ==
    LET i == at[s]
        d == IF known[s][i] = NoRecord THEN lastDoc + 1 ELSE known[s][i].ref
    IN
    /\ spc[s] = "saving"
    /\ task[t].pc = "free" /\ d \in DocIds
    /\ disk' = [disk EXCEPT ![i] = got[s]]
    /\ lastDoc' = IF d > lastDoc THEN d ELSE lastDoc
    /\ mine' = [mine EXCEPT ![s][i] = [hash |-> got[s], ref |-> d]]
    /\ task' = [task EXCEPT ![t] = [pc |-> "queued", doc |-> d, item |-> i,
                                    read |-> NoVersion]]
    /\ overlapped' = (overlapped \/ Live(d) # {})
    /\ got' = [got EXCEPT ![s] = NoVersion]
    /\ spc' = [spc EXCEPT ![s] = "flushing"]
    /\ UNCHANGED <<remote, index, database, loaded, known, listed, at, changes,
                   faults>>

\* The file cannot be written, or the document's row or the task not sent
\* once it is.
SaveFails(s) ==
    /\ spc[s] = "saving" /\ Fault
    /\ disk' \in {disk, [disk EXCEPT ![at[s]] = got[s]]}
    /\ overlapped' = (overlapped \/ disk' # disk)
    /\ got' = [got EXCEPT ![s] = NoVersion]
    /\ spc' = [spc EXCEPT ![s] = "failing"]
    /\ UNCHANGED <<remote, index, lastDoc, database, loaded, known, listed, at,
                   mine, task, changes>>

FlushUnless(s, refused) ==
    LET i == at[s] IN
    /\ spc[s] = "flushing"
    /\ \A x \in Syncs \ {s} : i \notin Holds(x)
    /\ IF refused
         THEN spc' = [spc EXCEPT ![s] = "failing"] /\ UNCHANGED at
         ELSE /\ spc' = [spc EXCEPT ![s] = "scanning"]
              /\ at' = [at EXCEPT ![s] = i + 1]
    /\ UNCHANGED <<store, database, loaded, known, listed, got, mine, task,
                   changes, faults, overlapped>>

\* Mutant: connector_documents has no unique constraint.
FlushUnconstrained(s) == FlushUnless(s, status = "deleted")

\* The next query flushes the record: the statement waits for a transaction
\* that has written the same record, and fails if that one has inserted it
\* first or the connector is gone.
Flush(s) ==
    LET i == at[s] IN
    FlushUnless(s, \/ status = "deleted"
                   \/ known[s][i] = NoRecord /\ rec[i] # NoRecord)

Written(s) == {i \in Items : mine[s][i] # NoRecord}
Created(s) == {mine[s][i].ref : i \in {x \in Written(s) : known[s][x] = NoRecord}}

CommitRows(s, newRow) ==
    /\ spc[s] = "scanning" /\ at[s] \notin Items
    /\ status # "deleted"
    /\ rec' = [i \in Items |-> IF i \in Written(s) THEN mine[s][i] ELSE rec[i]]
    /\ row' = newRow
    /\ Forget({s}, "idle")
    /\ UNCHANGED <<store, task, changes, faults, overlapped>>

NewRows(s) == [d \in DocIds |-> IF d \in Created(s) THEN "pending" ELSE row[d]]
NewTotal(s) == IF Written(s) = {} THEN total
               ELSE loaded[s].total + Cardinality(Written(s))
NewStatus(s) == IF loaded[s].status = "active" THEN status ELSE "active"

\* Mutant: the status column is written whatever the loaded value was.
CommitActive(s) ==
    CommitRows(s, NewRows(s)) /\ total' = NewTotal(s) /\ status' = "active"

\* Mutant: the counter grows by the items listed, not by those synchronised.
CommitListed(s) ==
    /\ CommitRows(s, NewRows(s))
    /\ total' = loaded[s].total + NumItems
    /\ status' = NewStatus(s)

\* 5. Update the connector and commit.  The UPDATE names only the columns
\* whose value differs from the loaded one, and finds no row when the
\* connector was deleted meanwhile.
Commit(s) ==
    /\ CommitRows(s, NewRows(s))
    /\ total' = NewTotal(s)
    /\ status' = NewStatus(s)

CommitFails(s) ==
    /\ spc[s] = "scanning" /\ at[s] \notin Items
    /\ status = "deleted"
    /\ spc' = [spc EXCEPT ![s] = "failing"]
    /\ UNCHANGED <<store, database, loaded, known, listed, at, got, mine, task,
                   changes, faults, overlapped>>

\* except Exception: roll back, and in a session of its own mark the error.
Fail(s) ==
    /\ spc[s] = "failing"
    /\ status' = IF status = "deleted" THEN status ELSE "error"
    /\ overlapped' = (overlapped \/ Written(s) # {})
    /\ Forget({s}, "idle")
    /\ UNCHANGED <<store, total, rec, row, task, changes, faults>>

----------------------------------------------------------------------------
(* ingest_document_task, on the worker's other process *)

SetRow(d, st) == row' = IF row[d] = "none" THEN row ELSE [row EXCEPT ![d] = st]

\* "processing", if the row can be seen, and the file is read.
Begin(t) ==
    /\ task[t].pc = "queued"
    /\ task' = [task EXCEPT ![t].pc = "running",
                            ![t].read = disk[task[t].item]]
    /\ SetRow(task[t].doc, "processing")
    /\ UNCHANGED <<store, status, total, rec, syncVars, changes, faults,
                   overlapped>>

CompleteWith(t, chunks) ==
    LET d == task[t].doc IN
    /\ task[t].pc = "running"
    /\ index' = [index EXCEPT ![d] = chunks]
    /\ SetRow(d, "ready")
    /\ task' = IF row[d] = "none" THEN [task EXCEPT ![t].pc = "marking"]
                                  ELSE [task EXCEPT ![t] = Free]
    /\ UNCHANGED <<remote, disk, lastDoc, status, total, rec, syncVars, changes,
                   faults, overlapped>>

\* Mutant: a chunk id that exists already is not overwritten.
CompleteKeepsOld(t) ==
    LET old == index[task[t].doc] IN
    CompleteWith(t, [k \in Idx |->
        IF k <= Size[task[t].read] /\ old[k] = NoVersion
          THEN task[t].read ELSE old[k]])

\* The chunks go in over those with the same index; the status and the audit
\* row are committed together, and the audit row's foreign key refuses a
\* document that cannot be seen, which the task's handler then marks failed.
Complete(t) ==
    CompleteWith(t, [k \in Idx |->
        IF k <= Size[task[t].read] THEN task[t].read
                                   ELSE index[task[t].doc][k]])

IngestFails(t) ==
    /\ task[t].pc = "running"
    /\ Fault
    /\ task' = [task EXCEPT ![t].pc = "marking"]
    /\ UNCHANGED <<store, database, syncVars, changes, overlapped>>

MarkFailed(t) ==
    /\ task[t].pc = "marking"
    /\ SetRow(task[t].doc, "failed")
    /\ task' = [task EXCEPT ![t] = Free]
    /\ UNCHANGED <<store, status, total, rec, syncVars, changes, faults,
                   overlapped>>

\* The worker restarts: transactions are lost, and Celery delivers every
\* unacknowledged task again.
WorkerCrash ==
    /\ Fault
    /\ Forget(Active, "queued")
    /\ task' = [t \in Tasks |-> IF task[t].pc = "free" THEN Free
                 ELSE [task[t] EXCEPT !.pc = "queued", !.read = NoVersion]]
    /\ overlapped' = (overlapped \/ \E s \in Active : Written(s) # {})
    /\ UNCHANGED <<store, database, changes>>

----------------------------------------------------------------------------
(* Specification *)

SyncStep(s) ==
    \/ Load(s) \/ List(s) \/ Examine(s) \/ Fetch(s)
    \/ \E t \in Tasks : Save(s, t)
    \/ Flush(s) \/ Commit(s) \/ CommitFails(s) \/ Fail(s)

TaskStep(t) == Begin(t) \/ Complete(t) \/ MarkFailed(t)

Failure ==
    \/ \E s \in Syncs : ListFails(s) \/ FetchFails(s) \/ SaveFails(s)
    \/ \E t \in Tasks : IngestFails(t)
    \/ WorkerCrash

Next ==
    \/ \E i \in Items, v \in Versions : RemoteChange(i, v)
    \/ \E s \in Syncs : Beat(s) \/ TriggerSync(s) \/ SyncStep(s)
    \/ \E t \in Tasks : TaskStep(t)
    \/ \E new \in {"active", "paused"} : SetConnectorStatus(new)
    \/ DeleteConnector
    \/ Failure

Spec == Init /\ [][Next]_vars

\* beat keeps ticking and the workers keep running what they have started.
FairSpec ==
    /\ Spec
    /\ WF_vars(\E s \in Syncs : Beat(s))
    /\ \A s \in Syncs : WF_vars(SyncStep(s))
    /\ \A t \in Tasks : WF_vars(TaskStep(t))

----------------------------------------------------------------------------
(* Properties *)

\* However many syncs run at once, fail or are delivered again, a committed
\* documents row is the one its item's record points at: no sync leaves a
\* second document behind for an item, nor a record without its document.
\* (Documents of a deleted connector stay, without records.)
OneDocumentPerItem ==
    status # "deleted" =>
      /\ \A d \in DocIds : row[d] # "none" =>
           Cardinality({i \in Items : rec[i].ref = d}) = 1
      /\ \A i \in Items : rec[i] # NoRecord => row[rec[i].ref] # "none"

\* An item the next sync will skip because its recorded hash is the source's
\* is indexed with that content, or still has a task that will index it, or
\* shows that it is not (pending or failed); given syncs that did not
\* overlap nor lose work, and one task per document.
SkippedIsIndexed ==
    \A i \in Items :
      LET d == rec[i].ref IN
      /\ status # "deleted" /\ ~overlapped
      /\ Active = {} /\ rec[i].hash = remote[i]
      => \/ Live(d) # {}
         \/ row[d] \in {"pending", "failed"}
         \/ \A k \in 1..Size[remote[i]] : index[d][k] = remote[i]

\* The documents counted are those whose records the syncs have committed
\* as new or changed: at least one for every item that has a record, and at
\* most one for every file saved, when no two syncs overlapped.
TotalCounts ==
    ~overlapped /\ status # "deleted" =>
      /\ total >= Cardinality({i \in Items : rec[i] # NoRecord})
      /\ total <= NumItems + changes

\* A pause is undone by a request, by an error, or by a sync that had loaded
\* the connector in error; never by one that started while it was active.
PauseHolds ==
    [][status = "paused" /\ status' = "active" =>
         \/ UNCHANGED spc
         \/ \E s \in Syncs : loaded[s].status = "error" /\ spc'[s] = "idle"]_vars

\* Once the source is quiet and the connector stays active, every item's
\* recorded hash becomes, and stays, that of the source.
Converges ==
    <>[](status = "active") =>
      <>[](\A i \in Items : rec[i].hash = remote[i])

\* ingest_document_task: on success the document is "ready", on failure
\* "failed"; so a recorded document with no task left has one of the two.
TaskSettlesDocument ==
    \A d \in DocIds : Live(d) = {} => row[d] \in {"none", "ready", "failed"}
=============================================================================
