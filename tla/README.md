# SecuredDocs in TLA+

SecuredDocs is a FastAPI application with Celery workers that stores documents,
indexes them for retrieval-augmented answering, mirrors external sources, and
offers chat, calls and a calendar around them. This directory holds TLA+ models
of the parts of it whose correctness depends on the order of things: steps of
several requests, tasks and processes over the same rows, files and indexes,
and what failures leave behind.

All paths below are relative to the repository.

## Running

    tlc -workers 2 -config ingest_index.cfg MCDocumentIngestion
    tlapm DocumentIngestionProofs.tla

`PROJECT.json` lists every run with its configuration, the mutant of the model
that each property catches, the source lines of each definition, and the
hazards that the properties are for.

## 1. The system

### Processes and shared state

| process | runs | keeps in memory |
| --- | --- | --- |
| API (`src/main.py`) | requests, FastAPI `BackgroundTask`s, two lifespan loops | the BM25 singleton, sockets, pending call notifications |
| Celery workers (`src/tasks/`, `--concurrency=2` in docker-compose) | ingestion tasks, connector syncs, evaluation | a BM25 singleton per child |
| Celery beat | the hourly sync of all connectors | - |
| RabbitMQ consumer (`src/services/rabbitmq_service.py`) | job handlers with retries | running callbacks |

They share the SQL database (SQLite by default, PostgreSQL in Docker), the
upload directory, `data/bm25_index.json`, the vector store and Redis. Nothing
locks: correctness rests on transactions, on the order of writes, on unique
constraints and on idempotent identifiers.

### Components

| component | state | operations | what makes it hard | what it must keep |
| --- | --- | --- | --- | --- |
| **Document ingestion**: `api/v1/documents.py`, `services/ingestion_service.py`, `services/bm25_service.py`, `tasks/ingestion_tasks.py` | `documents.status`, `chunk_count`, live file, vector chunks, BM25 in every process and on disk, `ingestion_logs` | upload, version upload, re-ingest, delete, bulk delete; parse, embed, insert in batches, index, mark | jobs of one document interleave; re-ingestion clears chunks first; late acknowledgement and redelivery; API restart loses background jobs | a status in progress is owed an end; a ready document is indexed exactly; a deleted one stays deleted |
| **Connector sync**: `tasks/connector_tasks.py`, `api/v1/connectors.py` | `connectors`, `connector_documents`, `documents`, saved files | create, edit, pause, delete; beat, manual, first sync; one transaction per sync | syncs overlap; ingestion tasks are sent before the commit; files are written before the commit; the connector's row is read once | one document per item; what will be skipped is indexed; counters; convergence to the source |
| **Document versions**: `api/v1/documents.py` | `documents.current_version`, `document_versions`, live file, `versions/v<n>` | upload over a name, restore, delete | version number read long before it is used; files and rows change at different moments | no version is lost from the list; each keeps its content |
| **RabbitMQ jobs**: `services/rabbitmq_service.py` | queue, unacknowledged messages, callbacks, `nexus.dlq` | publish, consume, retry, dead-letter | copy before acknowledge; reconnects under running callbacks | at-least-once, bounded retries |
| **Calendar**: `api/v1/calendar.py`, reminder loop in `main.py` | `calendar_events` with the links to their notes, transcript files and documents, `reminder_sent` | create, edit and delete events and series; upload of a recording and its pipeline; reminders | a pipeline of minutes over a row and files that edits, deletions, uploads and restarts change; the reminder window is narrower than its period | notes and documents of an event belong together, are its own and arrive; one reminder per occurrence |
| **Chat sockets, notifications and presence**: `api/v1/chat.py`, `api/v1/notifications.py`, `services/chat_manager.py`, `notification_manager.py`, `presence_service.py` | socket lists by channel and by user, presence, all in memory | connect, message, ping, disconnect, set a status, broadcast, push | sockets come and go while a broadcast awaits its sends; a broadcast disconnects other handlers' sockets; only one exception type runs the cleanup | broadcasts skip and repeat nobody; who has left is offline; a partner is told |
| **Chat messages**: `api/v1/chat.py` | messages with thread counts, pins, deletion marks; channels, reactions | open, send, reply, pin, react, edit, delete | counters and limits are read, then written | counters, the pin limit, a deleted message stays deleted |
| Huddle: `api/v1/huddle.py` | rooms, pending notifications | webhooks, delayed notification, call push | popped before sent | each call rings once |
| **Accounts and sessions**: `api/v1/auth.py`, `oauth.py`, `license.py` | users, sessions, second factor, backup codes, reset tokens, invites | login, refresh, logout, revoke, set up and disable the second factor, reset, invite, activation | check-then-write over awaits; a list rewritten as a whole | the second factor is whole, one-time things are used once, a revocation stands |
| Folders, collections, tags: `api/v1/documents.py`, `collections.py` | folder tree, memberships | create, move, delete, bulk move | a tree kept by parent pointers | no cycle |
| Caches and conversation memory | Redis values | get, set, append | read-modify-write, stale answers | best effort by design |
| Retrieval, answering, embeddings, vector stores, knowledge graph, connectors' clients, compliance, roles, admin, widgets, evaluation, transcription, frontend | no protocol state of their own | | | see `PROJECT.json` for each reason |

### Interactions

* `upload_document` commits the row and the file, then either adds a
  `BackgroundTask` or calls `ingest_document_task.delay`; re-ingestion is always
  a `BackgroundTask`. Both run the same `IngestionService`.
* `_run_sync` creates `documents` rows and dispatches the same Celery task.
* The ingestion service writes the vector store and the BM25 singleton of the
  process it happens to run in; queries read the API's singleton.
* Deleting a document or a connector touches rows (and cascades), never files
  or indexes.
* A chat handler commits its message and then broadcasts it; a meeting's
  pipeline calls the ingestion service for the two documents it creates.
* Every request handler is one SQLAlchemy session: it loads rows, assigns to
  the objects, and the flush before the commit writes the columns whose value
  changed. Two handlers over one row therefore lose only each other's changes
  of the *same* column. `UnitOfWork` says this once for the modules that
  depend on it.

## 2. Modules

| module | what it is | composes |
| --- | --- | --- |
| `IngestionPromise` | what ingestion promises to whoever watches a document's status | - |
| `DocumentIngestion` | one job = a request plus the background work it starts, suspended at its awaits | implements `IngestionPromise` |
| `DocumentIngestionProofs` | types, no limbo, the refinement, ready documents in both indexes | `DocumentIngestion` |
| `ConnectorSync` | one connector, its syncs, its ingestion tasks, its source | the ingestion of `DocumentIngestion` in two steps |
| `ConnectorSyncProofs` | all its safety | `ConnectorSync` |
| `JobPromise` | what a job queue promises | - |
| `JobQueue` | one queue of the RabbitMQ service | implements `JobPromise` |
| `JobQueueProofs` | the refinement, types, one copy until a fault | `JobQueue` |
| `DocumentVersions` | the documents of one owner and one file name, their versions and requests | - |
| `DocumentVersionsProofs` | types, the version list, the history | `DocumentVersions` |
| `Presence` | the WebSocket handlers of chat and notifications in one API process, their registries and broadcasts | - |
| `PresenceProofs` | all its safety | `Presence` |
| `UnitOfWork` | what a commit writes of a row that was loaded earlier | - |
| `ChatMessages` | the message rows of one channel under overlapping requests | `UnitOfWork` |
| `ChatMessagesProofs` | all its safety | `ChatMessages` |
| `MeetingNotes` | the recordings of one calendar event, from upload to linked notes | `UnitOfWork` |
| `Reminders` | the reminder task among changes of events, with a clock | - |
| `CalendarProofs` | all safety of the notes; nobody is reminded twice, a wide enough window misses nothing | `MeetingNotes`, `Reminders` |
| `Accounts` | one user's sessions, second factor and mailed links | `UnitOfWork` |
| `AccountsProofs` | all its safety | `Accounts` |
| `MC*` | finite sets, symmetry and functions for TLC | |

A step of every model is the code between two awaits (asyncio) or between two
points where another process may act (Celery, the broker). That is the
granularity at which this program can interleave.

### DocumentIngestion

`pc[j]` names the await at which job `j` is suspended. `Request` is the
handlers of `documents.py` (upload, version upload, re-ingest);
`Dispatch`/`CommitVersion` their commits and the hand-over;
`LoadForReingest`, `DeleteVectors`, `Unindex` are `reingest_document`; `Start`
to `MarkReady` are `ingest_document` with one `InsertBatch` per
`vector_store.insert`; `EmbedFails`, `IngestFails` and the two `Record...`
actions its except blocks; `MarkFailed` and `Ack` the Celery task around it.
`SetStatus` is `DocumentRepository.set_status` with its guard against deleted
rows. Crashes: the API restarts (its background jobs vanish), the worker
container restarts (unacknowledged tasks return to the broker), a prefork child
is killed (Celery acknowledges its task). Failures of one step: the vector store
(`DeleteVectorsFails`, `IngestFails`), the database at each commit
(`CommitVersionFails`, `MarkReadyFails`, `RecordFails`, and `MarkFailedFails`
when the task cannot record its failure either), the keyword index
(`UnindexFails`, `IndexFails`, and `SaveToDisk`, whose failure is swallowed).

Chunks have deterministic ids (`uuid5(document, index)`), so the vector store is
a function from batch number to the content it was cut from and an insertion
overwrites. `ForeignKeys` tells PostgreSQL from SQLite, where the pragma is not
set: it decides whether an audit row of a missing document is refused.

`bm25`, `loaded` and `bm25File` are the singletons and the file they load from
and overwrite. Documents meet there: a process saves its whole store, so it
overwrites what another process saved, and saves that run at once in threads of
the API share one temporary name, so the file that is renamed into place may be
one that no reader can parse. `SaveToDisk` gives these outcomes, and
`KeywordIndexExact` speaks of what survives them: the memory of the process that
indexed the document last (`keeper[d]`), until that process restarts. What the
file holds after a lost save, and what another process sees, nothing in the code
keeps. A save takes another
thread's chunks whole or not at all: the order in which `json.dump` meets them
is not modelled, its failure when the dictionary changes under it is.

Two more history variables say where a property can be expected: `serial[d]`
(no two jobs of `d` ever overlapped, and no version upload died between file and
row) and `stranded[d]` (the last job of `d` died half-way: an API restart, a
killed child, a re-ingestion that could not clear the indexes, or a failure that
could not be recorded).

`IngestionPromise` is what whoever watches a document's status may count on.
`Shown(status[d])` reads a status as waiting, settled, removed or absent; a
document is owed while a job will still write its status, and lost when it is
stranded. A request makes it wait and owed (`Submit`), a job that begins makes
it wait again (`Begin`), one that ends settles it (`Settle`), a crash loses
those whose last jobs it kills (`Lose`) and a redelivery owes them again
(`Return`); a removed document takes no further step. `Refines` maps
`DocumentIngestion` to it: the guard of `SetStatus`, the commit order of
requests and the crash rules of Celery are what it rests on.

### ConnectorSync

`spc[s]` follows `_run_sync`: `Load` reads the connector, `List` the source,
`SkipOrFetch` examines an item, `Save` writes the file, creates the row and
sends the task, `Flush` writes the record, `Commit` ends the transaction;
`SaveFails` and the other failures end in the handler that rolls it back. What a
sync has written and not committed is in `mine[s]`, invisible to the others
(READ COMMITTED); the unique constraint on `(connector_id, external_id)`
makes the second of two insertions wait, then fail. `loaded[s]` is the
connector as the sync read it: `Commit` computes the status and the counter
from that. `known[s]` are records in the session's identity map, which are not
refreshed. The ingestion task has the steps `Begin` and `Complete`; what
happens inside it is the business of `DocumentIngestion`.

`overlapped` records that two syncs ran at once, or that one which failed had
already changed a file or sent a task: `SkippedIsIndexed` and `TotalCounts` are
about connectors for which neither happened.

Assumed: PostgreSQL; the source lists items in a fixed order; a title does not
change, so a file's path is stable. Left out: `last_error`, `last_synced_at`,
credentials, and deletion of single documents by users, which is the only way to
a record without a document (`src/src/tasks/connector_tasks.py:167`).

### JobQueue and JobPromise

`msg` are the messages at the broker, `callback` the running `on_message`
callbacks. A callback that fails sleeps, publishes a copy with the next
`retry_count` (or a dead letter) and only then leaves `message.process()`,
which acknowledges. `Reconnect` is `connect_robust`: the broker puts the
messages back, the callbacks go on without one. `JobPromise` says: a job the
queue has accepted stays owed until it was handled or is in the dead-letter
queue, however many copies exist. `Refines` maps `owed` to the jobs that have
a message at the broker. The application does not publish yet; the service is
modelled as written, with an arbitrary handler.

### DocumentVersions

A request is: read (`found`/`target`), change files (`filed`), commit. Uploads
of a name look the document up by name and owner, and two of them may both
find none; `WriteNew` gives a new document its id and file. `CommitVersion`
uses the `current_version` that was read at the start. A restore adds a second
row, for the new version at the live path. `was[d][n]` remembers what was
committed as version `n` and `disturbed` the documents whose files were
changed by overlapping requests or by a request that never committed.

### Presence

`pc[s]` is where the handler of socket `s` waits: `Connect` is `connect()`,
`set_online` and the start of its announcement, `Roster` to `Notify` the body
of `websocket_endpoint`, `Leave` to `Gone` its `except WebSocketDisconnect`.
`notifications_ws` is the same with no messages. A broadcast in progress is
`run[t]`: the lists still to be walked and what is left of each. `Deliver` ends
one send; after the last it disconnects the sockets whose send failed, before
their own handlers do. A connect appends to a list in place, so a running
broadcast reaches the new socket; a disconnect replaces the list (`Replaced`),
so a running broadcast keeps walking the old one. `Announce` changes a status
and starts `broadcast_all`, which walks the channels in the order their lists
were created (`opened`).

`refused` are sockets on which a send has failed: Starlette then raises
RuntimeError at the next receive, or at the answer to a ping (`PongFails`), and
the handler ends without its cleanup (`Break`), as it does after a database
error. `broken` handlers stay in the model, with what they leave behind:
`GoneIsOffline` and `ClosedGoesOffline` are about users none of whose handlers
ended so, because nothing in the code promises more. A socket's end of the client
(`peer`) closes when the server notices it.

`due` and `chosen` are history: who was registered when a broadcast started and
has not been sent to, and users who set their status themselves. Left out:
access checks before the socket is accepted, malformed frames, the text of
messages, mentions (the same push as a direct message's), the second session
of a thread reply failing, restarts (everything modelled is in memory and
starts empty), `check_away_timeouts` (never called).

### ChatMessages

A request on a message is its load with its checks (`Start`, or `CountPins` and
`LoadToPin` for a pin, which counts the channel's pins in a query of its own)
and its commit (`Reply`, `Change`). `Wanted` is the loaded object after the
handler's assignments and `Flushed` the row after the UPDATE, column by column.
`Post` and `DeleteChannel` are one step: nothing they read decides what they
write. `Fail` is a commit whose message has gone with the channel. The history
variable `raced` holds the messages on which two requests about the same columns
overlapped, the thread count, the text or the pin: it is what the properties
are relative to, and what a reader of the code would want to know (which
overlaps can hurt, and that no other can). Left out: reactions, read marks,
members who leave, the text of a message beyond whether it was edited.

### MeetingNotes

`pipe[r].at` follows the upload of recording `r`: `Upload` loads the event,
`Accept` resets its notes and queues the background task, `Fetch` reads title
and date, `Summarise` ends the calls of the transcriber and of the language
model and writes both files, `Store` creates both documents, `Ingest` ingests
one and then the other, `LoadToLink` and `Link` are the last transaction.
`WriteFails` and `DatabaseFails` are the failures that nothing catches: the
pipeline stops, with the files as far as they were written, and the notes stay
unlinked. The files are a function of kind and *name*, because `_safe_name` and
the date are all that tells one file from another; a text is identified with the
recording it comes from. `EditEvent`, `DeleteEvent` and `Restart` happen around it.
`crowded` are the uploads that ran while another one did. Ingestion is one step
here; inside, it is `DocumentIngestion`'s.

### Reminders

Time goes in half-minutes: `Period` is 10 and `Reach` 4 in the code. `wake` is
when `asyncio.sleep(300)` ends; `Load` is the query and the choice by time,
`Commit` the one transaction of a sweep, `CommitFails` its except block,
`Restart` a restart of the process. `Create`, `Move` and `Delete` are what the
handlers of `calendar.py` do to the two columns that matter. `mended` records
that a sweep failed or the process restarted.

### Accounts

A request is again its load and its commit: `Load`, `LoadCode` and
`LoadSessions` with the checks (`Verified`, `ToRefresh`, `ToRevoke`,
`ToRevokeOthers`), `Commit` and `CommitSessions` with `Flushed`. Secrets, lists
of codes and reset tokens are numbered by the request that made them, so two are
never equal. `told` is the row as the answers to the user describe it, `spent`
the backup codes that completed a login, `raced` the pairs of operations that
overlapped on the user's row. `forgot_password` has a second part: after its
commit it waits, as a `MailRequest`, for the mail server (`Mail`), whose failure
is swallowed (`MailFails`); only a link that was mailed (`mailed`) is what the
user has been told. So the token of the row and the last link mailed differ
while a mail is on its way and for good when it fails, with no overlap at all:
`LastAnswerHolds` says that this, and overlapping requests for links, are the
only ways. Left out: passwords and TOTP arithmetic (a check of a code is
whether there is one to check against), expiry times, the failure counter of logins, registration, invites and licences.

## 3. Runs

Runs that pass, with what they are bounded by:

| run | instance | shows |
| --- | --- | --- |
| `ingest_index` | 2 documents, 2 contents (one and two batches), 1 job at a time in the API or on a worker, foreign keys, a failed index or save, an API and a worker restart; 8,610,000 states | `TypeOK`, `ReadyIndexExact`, `KeywordIndexExact` |
| `ingest_celery` | 1 document, 1 content of one batch, 2 jobs, 1 worker, foreign keys, one fault of each kind but the keyword index's, fairness; 772,000 states | `NeverInLimbo`, `Settles`, `Refines` |
| `connector_sync` | 1 item with 2 versions, MD5 listed, 2 syncs, 1 task, 4 document ids, 1 edit, 1 fault, fairness; 1,932,000 states | `TypeOK`, `OneDocumentPerItem`, `SkippedIsIndexed`, `TotalCounts`, `PauseHolds`, `Converges` |
| `job_queue` | 2 jobs, 5 messages, 3 callbacks, prefetch 1, 3 retries, 1 fault, fairness; 122,000 states | `TypeOK`, `OneCopyUntilFault`, `Refines`, `JobsSettle` |
| `versions` | 2 documents, 3 concurrent requests, 6 uploads and restores, version numbers up to 5; 2,176,000 states | `TypeOK`, `EveryNumberIsListed`, `HistoryKept`, `RestoreBringsBack` |
| `presence` | 2 users, 2 channels, 3 chat sockets (two of one user), 1 notification socket, 1 REST caller, 3 connections, messages, requests and database errors together, fairness; 498,000 states | `TypeOK`, `NobodySkippedOrRepeated`, `GoneIsOffline`, `PartnerIsTold`, `ClosedGoesOffline` |
| `chat_messages` | 2 users, 2 requests at once, 6 served, 3 messages, room for 1 pin; 977,000 states | `TypeOK`, `ThreadCounts`, `PinColumnsAgree`, `DeletedStaysDeleted` |
| `meeting_notes` | 2 recordings, 2 names, 3 failed calls, writes, transactions or restarts, fairness; 66,000 states | `TypeOK`, `NotesComeTogether`, `LinkedDocumentsAreItsOwn`, `NotesArrive` |
| `accounts` | 2 sessions, 2 requests at once, 6 served, 2 backup codes; 1,710,000 states | `TypeOK`, `SecondFactorIsWhole`, `LastAnswerHolds`, `RevokedStaysRevoked` |

Why the bounds are enough to meet the interesting cases:

* `ingest_index`: `ReadyIndexExact` and `KeywordIndexExact` are about documents
  whose jobs do not overlap, so one job at a time meets what they are about: any
  sequence of uploads, re-ingestions and redeliveries, half-done or not. Two
  batches are the least that can be half inserted. Rows, files and vectors of
  different documents do not meet, but their keywords do, in the file that every
  process saves whole: so there are two documents and two processes. Saves that
  overlap in threads of one process are in the model (`SaveToDisk`) and not in
  this run; the proofs of section 4 cover them, and a run with two jobs in the
  API process passed once over 4.8 million states.
* `ingest_celery`: two jobs are an upload and a re-ingestion, or two
  re-ingestions, in any overlap, one after the other as often as one likes. One
  worker suffices because two jobs can be in two processes (API and worker).
  Liveness keeps the instance small; the refinement and all safety are proved
  for every instance.
* `connector_sync`: two syncs can race and a third would only wait on the same
  rows; one edit is enough to meet an item both new and changed; four document
  ids are what two syncs can use before and after the one fault. With two tasks
  at once the safety properties passed over 3.9 million states, and with two
  items, two edits and a source that lists no MD5 one sync converged.
* `job_queue`: five message slots hold two jobs with the copies that one fault
  can leave.
* `versions`: two documents are possible for one name (two first uploads); six
  requests reach a restore of a restored version with uploads between.
* `presence`: three events connect three sockets, two of them of one user and of
  different kinds or channels, or two and a message between them, and closing
  sockets is free.
* `chat_messages`: six requests make a message, a reply to it and four more on
  either, two of them overlapped.
* `meeting_notes`: two recordings overlap in every way; three faults fail both
  summaries and one ingestion, or stop both pipelines. With three recordings the
  safety properties passed once, over 12.7 million states.
* `accounts`: set up, verify and four more requests are the shortest way to the
  deepest overlaps: a disabling beside a login by backup code, two backup codes
  at once (`codes_once`). Three requests mail a link, follow it, and lose the
  mail of another. Two sessions are a current one and another.

Fault bounds cap the number of faults of a kind, never where they strike.

Runs that TLC refutes, one sentence of the repository each (`findings` in
`PROJECT.json` quotes them):

| run | property | what happens |
| --- | --- | --- |
| `sync_dispatch` | `TaskSettlesDocument` | a task that runs before its document's row is committed finds none, and the document stays pending |
| `codes_once` | `BackupCodesOnce` | two logins load the list with the same backup code in it, and both complete |
| `reminders_gap` | `EveryEventIsReminded` | sweeps every 300 seconds look 120 seconds around themselves: what falls half-way between two is never sent |

Deadlock checking is off in every passing run because the systems really may
come to rest: every id of the instance is used and nothing is running, or (job
queue) every job is settled.

### What else the models show

Facts of the code that the models contain, without a run of their own:

* Deleting a document leaves its chunks in the vector store and in BM25
  (`src/src/api/v1/documents.py:440`).
* A re-ingestion that cannot clear the store raises before the `try` that
  records failures (`src/src/services/ingestion_service.py:486`): the document
  stays pending. So it does, or stays processing, when the recording of a
  failure fails in turn (`src/src/tasks/ingestion_tasks.py:138`), and after the
  crashes nothing makes up for. `NeverInLimbo` and `Settles` except exactly
  these (`stranded`).
* A failed save of the keyword index is swallowed
  (`src/src/services/bm25_service.py:130`): the document is ready, its keywords
  are in the memory of one process, and a restart before the next save loses
  them. So does another process's save. Nothing rebuilds the index.
* A document that a Celery worker ingested is in no keyword index of the API
  process, at least until that restarts: `summarize_document` then answers 422, although
  its docstring says "the BM25 index (or vector store fallback)"
  (`src/src/api/v1/documents.py:346` and `:361`). No code falls back.
* A user with a chat socket and a notification socket who closes one of them is
  shown as offline: each handler asks for the sockets of its own kind only
  (`src/src/api/v1/chat.py:1530`, `src/src/api/v1/notifications.py:190`). The
  comment at `chat.py:1529` says "mark offline only if no other sockets remain
  for this user", the docstring at `presence_service.py:38` "disconnects from all
  WebSockets". No property here says either: `GoneIsOffline` is about users all
  of whose handlers have cleaned up.
* Requests to pin that overlap exceed "Maximum 10 pinned messages per channel"
  (`src/src/api/v1/chat.py:1123`), by as many as overlap. `PinLimit` is no
  property of a passing run; it is proved of requests served one at a time
  (`OneAtATimeKeepsTheLimit`), which says what the limit rests on.
* A re-ingestion requested while the first ingestion finishes can leave a ready
  document whose `chunk_count` is not what the store holds
  (`src/src/services/ingestion_service.py:148`); `ReadyIndexExact` is about
  documents whose jobs did not overlap.
* A version made by a restore is listed twice, at the live path and, after the
  next upload, in the archive (`src/src/api/v1/documents.py:758` and `:806`).
* A deleted message can be replied to, pinned and deleted again; an edit that
  loaded it before the deletion overwrites the content kept for the audit
  (`src/src/api/v1/chat.py:744`), though it does not undelete it.
* `totp_setup` says that `totp_enabled` stays false until verified
  (`src/src/api/v1/auth.py:562`). For a user who has the second factor on it
  stays *on*, now with a secret nobody has confirmed.
* Overlapping requests lose what the code does not defend: one of two replies in
  `thread_count` (`src/src/api/v1/chat.py:1467`), one of two syncs' counts
  (`src/src/tasks/connector_tasks.py:231`), the content of a version archived
  twice under one number (`src/src/api/v1/documents.py:112`), a pin whose columns
  disagree (`src/src/api/v1/chat.py:1174`), a second factor that is half on
  (`src/src/api/v1/auth.py:597`). The models reach all of these; the properties
  next to them except exactly these overlaps (`raced`, `overlapped`,
  `disturbed`, `crowded`) and say what the rest may rely on. They are not run as
  violations because nothing in the repository says otherwise.
* A second request for a reset link whose mail fails kills the link that was
  mailed (`src/src/api/v1/auth.py:433` and `:438`).
* Two summaries that both fail write an empty text over an empty text, which is
  no UPDATE: notes another pipeline linked in between stay beside documents that
  are not theirs. `NotesComeTogether` excepts exactly this.

### Fairness

* `DocumentIngestion`: weak fairness of a job's step (the event loop and the
  workers keep running what they have started) and strong fairness of `Start`,
  because a queued task competes for a worker and the broker's list is
  first-in first-out. No fairness of requests, failures or crashes.
* `ConnectorSync`: weak fairness of beat (it ticks hourly), of each sync and of
  each task.
* `JobQueue`: weak fairness of a callback's steps, with its choice between
  success and failure left open, and strong fairness of delivery, because the
  prefetch limit closes and opens again.
* `MeetingNotes`: weak fairness of each upload's next step: what it awaits ends,
  as a success or as a failure. No fairness of uploads, edits or restarts.
* `Presence`: weak fairness of "some send ends or some handler goes on": the
  event loop does not idle while one is ready. Which task it resumes is left
  open. No fairness of clients, requests or errors.

## 4. Proofs

Every theorem holds for all values of the constants that meet the module's
named `ASSUME`s (finite sets where a cardinality is taken, null values outside
the types they stand beside, bounds that are naturals), or the assumptions it
states itself (`Reminders`).

| theorem | of | statement | argument |
| --- | --- | --- | --- |
| `TypeCorrect` | `DocumentIngestion` | `[]TypeOK` | not inductive: `next[j]` stays in range only because a job in its insertion loop has not gone beyond the batches of what it parsed; `LoopInv` says so. |
| `NoLimbo` | | `[]NeverInLimbo` | inductive with the types: the only actions that end a job write a terminal status, strand the document, or have another working job's steps to rely on. |
| `IngestionKeepsItsPromise` | | `Refines` | `PromiseInv`: `IndexInv` (an unused id has no job), `NeverInLimbo` (a row that nobody owes a status, and that is not lost, is settled, so marking a failure twice shows nothing) and `LostInv` (an unused id is not lost). Each step is one of `IngestionPromise` on the document of its job, and shows nothing of any other. |
| `ReadyDocumentsAreIndexed` | | `[]ReadyIndexExact` | `Phase` gives, for each place of the one job of a serial document, the chunks in the store as a function of what it parsed and the batch it is at; `SerialInv`: a serial document has at most one job; `FreshInv`: an unused id has no chunk. |
| `ReadyDocumentsAreInTheKeywordIndex` | | `[]KeywordIndexExact` | memory and file may differ, and each process has its own, so the invariant speaks of every copy: `KeyInv` bounds what the file and each memory may hold of a document at each place of its one job (nothing but chunks of its live file, none at all, or exactly these where it was just indexed), and `StoreInv` says that who indexed it has loaded its index. `Touch` is what any step does to the copies, with its save or without, and `Inherited` what it leaves of other documents' entries. |
| `SyncTypeCorrect` | `ConnectorSync` | `[]TypeOK` | with `AtInv`: what a sync has in hand at each of its places. |
| `ItemsHaveOneDocument` | | `[]OneDocumentPerItem` | the invariant must say what an open transaction holds that its rows do not. `DocsInv`: committed records refer to rows, one each (`RowsInv`); what a sync read stays true (`KnownInv`); a document it created is nobody else's (`NewInv`); it has written only what it went past (`PlaceInv`); no two hold the same key (`LockInv`, the unique constraint). |
| `PausesHold` | | `PauseHolds` | by cases over the commits: a sync that loaded the connector as active writes nothing to a column it does not change. |
| `TotalsAreBounded` | | `[]TotalCounts` | `LoneInv`: the only sync there is reads the counter that is there; `TotalInv` bounds the counter from below by the records and from above by a balance: counted + taken up + still behind the source never exceeds items + changes. |
| `SkippedItemsAreIndexed` | | `[]SkippedIsIndexed` | `IngestInv`, as the one sync sees the records: the file on disk is the recorded version (`FilesInv`), each task works on the document of its item and read what is there (`TasksInv`), each document has one task, and is in progress, visibly failed, or indexed (`Settled`). |
| `QueueTypeCorrect` | `JobQueue` | `[]TypeOK` | includes that no copy carries more than `_MAX_RETRIES`. |
| `JobsAreNeverLost` | | `Refines` | `QueueInv`: messages held by callbacks carry their job (`HoldInv`), messages are of published jobs (`JobInv`), and every published job is handled, dead, or has a message that nobody is about to acknowledge (`Covered`): why the copy comes before the acknowledgement. Every step then is an `Accept` or a `Work` of one job, or a stutter. |
| `OneCopyWhileNothingFails` | | `[]OneCopyUntilFault` | `CopyInv`: until a fault a callback has its message until it ends, a job has one open message at most, and none once settled. |
| `VersionsTypeCorrect`, `VersionListHasNoGap` | `DocumentVersions` | `[]TypeOK`, `[]EveryNumberIsListed` | `VersionInv`: a request read a number that is not beyond the current one (`ReqInv`) and archived under it (`FileInv`), so the number its commit makes current follows a listed one (`ListInv`); an upload of a new name that has not committed owns an id nobody else can reach (`CreateInv`). |
| `HistoryIsKept`, `RestoresBringBack` | | `[]HistoryKept`, `RestoreBringsBack` | `HistInv`: an undisturbed document has at most one request on it, and `Kept(d)` says for each stage of that request what the live file and the archive hold. |
| `ChatTypeCorrect`, `DeletedMessagesStayDeleted` | `ChatMessages` | `[]TypeOK`, `DeletedStaysDeleted` | `LoadInv`: a loaded row is there until its channel goes; only a deletion writes `is_deleted`, and to true. |
| `OneAtATimeKeepsTheLimit` | | `[]PinLimit` if there is one request at a time | `PinsInv` counts the pins and the pinnings under way together, for any number of requests; with one, the pinnings under way are what the check allowed. So an overlap is the only breach. |
| `ThreadCountsHold`, `PinsAgree` | | `[]ThreadCounts`, `[]PinColumnsAgree` | `ThreadSeen` and `PinSeen` say how far the row a request loaded may have fallen behind the row that is there: not at all, on the columns it is about, unless another has overlapped it. |
| `NotesTypeCorrect` | `MeetingNotes` | `[]TypeOK` | with what a pipeline has at hand (`HandInv`), that a summary is made once (`SummaryInv`) and how far its documents are (`DocsInv`). |
| `NotesAndDocumentsAgree` | | `[]NotesComeTogether` | `ViewInv`: not only the event's links but every copy of them that a request or a pipeline has loaded is of one recording that is done with. |
| `LinkedDocumentsHoldTheirOwn` | | `[]LinkedDocumentsAreItsOwn` | `AloneInv` (two at once are crowded) and `OwnOf`: from the writing of its files to the end of its ingestions the files are the recording's own. |
| `NobodyIsRemindedTwice` | `Reminders` | `[]RemindedOnce` | `SweepInv`: a running sweep holds only events nobody was reminded of. |
| `WideWindowRemindsOfAll` | | `[]EveryEventIsReminded` if `Reach <= Period <= 2 * Reach + 1` | `ReachInv`: an event planned a period ahead is in reach of the running sweep or of the next. The code has a period of 10 and a reach of 4, which misses the condition by one step of half a minute; `reminders_gap` shows what that costs. |
| `TypeCorrect` | `Presence` | `[]TypeOK` | part of one inductive `Inv`. `Sound`: a broadcast that runs is at a socket, and no list holds a socket twice; only unused sockets are appended. |
| `BroadcastReaches` | | `[]NobodySkippedOrRepeated` | `RunOK`: what a broadcast owes to a socket that is listed lies ahead of it. Lemmas follow `Ahead` through each operation: a send takes one socket from it (`SentSound`), a connect adds to it (`JoinSound`), a disconnect leaves it alone (`ReplaceSound`) because the list is replaced. |
| `CleanupShowsOffline` | | `[]GoneIsOffline` | `StayInv`: whoever is shown as online or away has a handler that has not cleaned up. A cleanup that leaves the status alone found another socket listed, and listed sockets have such a handler (`ListedInv`). |
| `PartnerNotLeftOut` | | `PartnerIsTold` | a broadcast that is over has nothing ahead (`OverIsDone`), so nobody listed is owed anything; and those it failed to reach were disconnected and are not used again (`RunOK`). |
| `AccountsTypeCorrect` | `Accounts` | `[]TypeOK` | with `OneList` and `CodeInv`: whoever rewrote the codes, what is left is of one list. |
| `RevokedSessionsStayRevoked` | | `RevokedStaysRevoked` | a refresh loaded `is_revoked` and does not change it. |
| `SecondFactorStaysWhole`, `LastAnswersHold` | | `[]SecondFactorIsWhole`, `[]LastAnswerHolds` | one inductive `AccountInv`. `NumberInv`: what was made is older than what will be; `MailInv`: a token that is mailed or on its way is older than any still to be committed; `SecretInv`, `ResetInv`, `CodesInv`, `WholeInv`, `SpentInv`: for each column, the row differs from what an open request has seen only if an operation on that column has overlapped it, or, for the link, if the row's token has not been mailed. |
| `OneAtATimeUsesCodesOnce` | | `[]BackupCodesOnce` if there is one request at a time | `SpentInv`: a second use needs two overlapping logins by code; with one request nothing overlaps. So the overlap in `codes_once` is the only breach. |

`Reminders` has no passing run of its own (its one run is the refuted property),
so its theorems stand alone.

Only model-checked:

* Liveness and what needs fairness (`Settles`, `Converges`, `JobsSettle`,
  `ClosedGoesOffline`, `NotesArrive`): out of the prover's reach.

Every invariant, every action property and both refinements of the passing runs
are proved. `BackupCodesOnce` and `PinLimit`, which overlapping requests break,
are proved of requests served one at a time.

What induction over data would say is reached without it. `PresenceProofs`
takes the first list a broadcast has left, and the sockets of a filtered list in
their order, from the least element of a set of naturals (`LeastOf`, by the
library's well-foundedness of `<`) and from cardinalities (`Ranks`, by its
theorems on finite sets). `Presence` filters with `Rest` for that reason:
`SelectSeq` is recursive, and what it keeps needs an induction over a predicate.

## 5. Not modelled

`PROJECT.json` gives the reason for each component. In short:

* Access metadata, tags, knowledge graph and webhooks of a document: nothing
  modelled reads them back. Retrieval and ranking: read-only. Clients of
  external services: their failures are inputs. Single-row administration, seed
  scripts, the web frontend: no protocol of their own. These are most of the
  repository's lines (the two largest scripts and the administration endpoints
  alone are 8,000), so the mapped part of the source stays small although it
  holds most of the program's concurrency.
* The *series* of the calendar. Creating an event of several occurrences reads
  `attendees` of an object that was just flushed
  (`src/src/api/v1/calendar.py:261`), a lazy load that an asyncio session
  refuses, before it commits. What is left of series are rules of one
  occurrence, moved to where the rule has several. An edit of "this and
  following" then selects by a start time it has just changed (`:320`) and
  gives all it finds the same times. A model would mostly be one of code that
  does not run.
* Huddle calls: the pending notifications of a room are popped before the first
  is sent (`src/src/api/v1/huddle.py:203`), so a failure loses the others; there
  is no second step to interleave with.
* Folders. `src/src/api/v1/documents.py:985` says "Prevent cycles: new parent
  must not be a descendant of this folder" and the code refuses only the folder
  itself: moving A below its child B closes a cycle in one request.
* First direct messages (`src/src/api/v1/chat.py:411`) and first uploads of one
  name (`src/src/repositories/document_repository.py:143`) can be made twice;
  from then on `scalar_one_or_none` raises. `DocumentVersions` contains the
  second (`UploadFails`).
* Celery's Redis visibility timeout: a task running longer than an hour would be
  delivered twice. `check_away_timeouts` and `retry_failed_embeddings` are never
  called.
* Two sessions that begin in the same second, expiry times, failed-login locks,
  invites, licences, single sign-on.

## 6. What could come next

1. `IngestionPromise` with the indexed content of a serial document, so that
   `ConnectorSync` and `MeetingNotes` could use it in place of their one- and
   two-step ingestions.
2. Folder moves, direct channels and invites, once the code says what is wanted
   of two requests at once.
3. Calendar series, once they can be created.
