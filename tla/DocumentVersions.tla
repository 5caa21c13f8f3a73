---------------------------- MODULE DocumentVersions ----------------------------
(***************************************************************************)
(* The versions of the documents one owner uploads under one file name:    *)
(* the documents and document_versions rows, the live file of a document   *)
(* and its archived files versions/v<n>, and the requests that upload,     *)
(* restore and delete.                                                     *)
(*                                                                         *)
(* A request reads the document, then changes files, then commits rows.    *)
(* Each of the three waits for the database, and other requests run in     *)
(* between; what happens between two waits is one step.                    *)
(***************************************************************************)
EXTENDS Naturals, FiniteSets

CONSTANTS
    Docs,         \* document ids
    Requests,     \* requests in progress at once
    MaxRequests,  \* bound on uploads and restores
    MaxVersion,   \* bound on version numbers
    NoDoc

ASSUME VersionAssumption ==
    /\ MaxRequests \in Nat /\ MaxVersion \in Nat \ {0}
    /\ NoDoc \notin Docs

VARIABLES
    doc,          \* the documents rows: state and current_version
    rows,         \* document_versions: how many rows a number has, of each kind
    live,         \* the file at a document's file_path
    archive,      \* the files versions/v<n>
    req,          \* the requests
    served,       \* requests so far; the k-th upload brings content k
    was,          \* history: the content committed as version n
    disturbed     \* history: documents two requests changed at once, or
                  \* that a request changed without committing

vars == <<doc, rows, live, archive, req, served, was, disturbed>>

Versions == 1..MaxVersion
Contents == 1..MaxRequests
NoFile   == 0

Free     == [pc |-> "idle", kind |-> "none", doc |-> NoDoc, cur |-> 0,
             target |-> 0, content |-> NoFile]
NoRow    == [archived |-> 0, restored |-> 0]
Existing == {d \in Docs : doc[d].state = "live"}

Document == [state : {"unused", "claimed", "live", "deleted"}, cur : 0..MaxVersion]
Request  == [pc : {"idle", "found", "target", "filed"},
             kind : {"none", "create", "bump", "restore"},
             doc : Docs \cup {NoDoc}, cur : 0..MaxVersion,
             target : 0..MaxVersion, content : Contents \cup {NoFile}]

TypeOK ==
    /\ doc \in [Docs -> Document]
    /\ rows \in [Docs -> [Versions -> [archived : Nat, restored : Nat]]]
    /\ live \in [Docs -> Contents \cup {NoFile}]
    /\ archive \in [Docs -> [Versions -> Contents \cup {NoFile}]]
    /\ req \in [Requests -> Request]
    /\ served \in 0..MaxRequests
    /\ was \in [Docs -> [Versions -> Contents \cup {NoFile}]]
    /\ disturbed \subseteq Docs

Init ==
    /\ doc = [d \in Docs |-> [state |-> "unused", cur |-> 0]]
    /\ rows = [d \in Docs |-> [n \in Versions |-> NoRow]]
    /\ live = [d \in Docs |-> NoFile]
    /\ archive = [d \in Docs |-> [n \in Versions |-> NoFile]]
    /\ req = [r \in Requests |-> Free]
    /\ served = 0
    /\ was = [d \in Docs |-> [n \in Versions |-> NoFile]]
    /\ disturbed = {}

Serve(r) == req[r].pc = "idle" /\ served < MaxRequests /\ served' = served + 1

----------------------------------------------------------------------------
(* upload_document *)

\* get_by_filename_and_owner finds nothing: a new document.
UploadNew(r) ==
    /\ Serve(r)
    /\ Existing = {}
    /\ req' = [req EXCEPT ![r] = [pc |-> "found", kind |-> "create", doc |-> NoDoc,
                                  cur |-> 0, target |-> 0, content |-> served']]
    /\ UNCHANGED <<doc, rows, live, archive, was, disturbed>>

\* It finds document d: its current_version is read here.
UploadVersion(r, d) ==
    /\ Serve(r)
    /\ Existing = {d} /\ doc[d].cur < MaxVersion
    /\ req' = [req EXCEPT ![r] = [pc |-> "found", kind |-> "bump", doc |-> d,
                                  cur |-> doc[d].cur, target |-> 0,
                                  content |-> served']]
    /\ UNCHANGED <<doc, rows, live, archive, was, disturbed>>

\* It finds two documents and raises MultipleResultsFound.
UploadFails(r) ==
    /\ Serve(r)
    /\ Cardinality(Existing) > 1
    /\ UNCHANGED <<doc, rows, live, archive, req, was, disturbed>>

\* The file of a new document, under a fresh id.
WriteNew(r, d) ==
    /\ req[r].pc = "found" /\ req[r].kind = "create"
    /\ doc[d].state = "unused"
    /\ doc' = [doc EXCEPT ![d].state = "claimed"]
    /\ live' = [live EXCEPT ![d] = req[r].content]
    /\ req' = [req EXCEPT ![r].pc = "filed", ![r].doc = d]
    /\ UNCHANGED <<rows, archive, served, was, disturbed>>

CommitNew(r) ==
    LET d == req[r].doc IN
    /\ req[r].pc = "filed" /\ req[r].kind = "create"
    /\ doc' = [doc EXCEPT ![d] = [state |-> "live", cur |-> 1]]
    /\ was' = [was EXCEPT ![d][1] = req[r].content]
    /\ req' = [req EXCEPT ![r] = Free]
    /\ UNCHANGED <<rows, live, archive, served, disturbed>>

\* r changes files of its document after a stale read, or under another
\* request that has yet to commit.
Disturbs(r) ==
    \/ doc[req[r].doc].cur # req[r].cur
    \/ \E o \in Requests \ {r} : req[o].pc = "filed" /\ req[o].doc = req[r].doc

NoteDisturbance(r) ==
    disturbed' = IF Disturbs(r) THEN disturbed \cup {req[r].doc} ELSE disturbed

\* Mutant: a restore archives the live file as the version it restores.
ArchivedAsTarget(r) ==
    [archive EXCEPT ![req[r].doc][IF req[r].kind = "restore" THEN req[r].target
                                                             ELSE req[r].cur]
       = live[req[r].doc]]

\* shutil.copy2 of the live file to versions/v<cur>.
Archived(r) == [archive EXCEPT ![req[r].doc][req[r].cur] = live[req[r].doc]]

\* Mutant: the file is archived after the new one was written.
WriteVersionFirst(r) ==
    /\ req[r].pc = "found" /\ req[r].kind = "bump"
    /\ archive' = [archive EXCEPT ![req[r].doc][req[r].cur] = req[r].content]
    /\ live' = [live EXCEPT ![req[r].doc] = req[r].content]
    /\ req' = [req EXCEPT ![r].pc = "filed"]
    /\ NoteDisturbance(r)
    /\ UNCHANGED <<doc, rows, served, was>>

\* Archive the live file, then write the upload over it.
WriteVersion(r) ==
    /\ req[r].pc = "found" /\ req[r].kind = "bump"
    /\ archive' = Archived(r)
    /\ live' = [live EXCEPT ![req[r].doc] = req[r].content]
    /\ req' = [req EXCEPT ![r].pc = "filed"]
    /\ NoteDisturbance(r)
    /\ UNCHANGED <<doc, rows, served, was>>

----------------------------------------------------------------------------
(* restore_version *)

\* get_by_id: the document, with its current_version.
Restore(r, d, n) ==
    /\ Serve(r)
    /\ d \in Existing /\ doc[d].cur < MaxVersion
    /\ req' = [req EXCEPT ![r] = [pc |-> "target", kind |-> "restore", doc |-> d,
                                  cur |-> doc[d].cur, target |-> n,
                                  content |-> NoFile]]
    /\ UNCHANGED <<doc, rows, live, archive, was, disturbed>>

RowCount(d, n) == rows[d][n].archived + rows[d][n].restored

\* The row of an earlier restore names the live path, noted here as target 0;
\* the row of an archived version n names versions/v<n>.
Target(d, n) == IF rows[d][n].archived = 0 THEN 0 ELSE n

\* scalar_one_or_none on the rows of the target number: none is a 404,
\* several raise MultipleResultsFound.
FindTarget(r) ==
    LET d == req[r].doc
        n == req[r].target
    IN
    /\ req[r].pc = "target"
    /\ req' = [req EXCEPT ![r] =
         IF RowCount(d, n) = 1
           THEN [req[r] EXCEPT !.pc = "found", !.target = Target(d, n)] ELSE Free]
    /\ UNCHANGED <<doc, rows, live, archive, served, was, disturbed>>

\* Archive the live file, then copy the target over it.
WriteRestored(r) ==
    LET d == req[r].doc
        c == Archived(r)[d][req[r].target]
    IN
    /\ req[r].pc = "found" /\ req[r].kind = "restore" /\ req[r].target # 0
    /\ archive' = Archived(r)
    /\ live' = [live EXCEPT ![d] = c]
    /\ req' = [req EXCEPT ![r].pc = "filed", ![r].content = c]
    /\ NoteDisturbance(r)
    /\ UNCHANGED <<doc, rows, served, was>>

\* The target is the live file: it is archived, and then copying it onto
\* itself raises SameFileError.
RestoreFails(r) ==
    /\ req[r].pc = "found" /\ req[r].kind = "restore" /\ req[r].target = 0
    /\ archive' = Archived(r)
    /\ req' = [req EXCEPT ![r] = Free]
    /\ NoteDisturbance(r)
    /\ UNCHANGED <<doc, rows, live, served, was>>

----------------------------------------------------------------------------
(* The commits, and what prevents them *)

\* The archive row of the version left behind and, for a restore, a row of
\* the new version at the live path.
AddRows(r) ==
    rows' = [rows EXCEPT ![req[r].doc] = [n \in Versions |->
      [archived |-> @[n].archived + (IF n = req[r].cur THEN 1 ELSE 0),
       restored |-> @[n].restored + (IF req[r].kind = "restore"
                                        /\ n = req[r].cur + 1 THEN 1 ELSE 0)]]]

\* Mutant: the version is counted on from the row as it is now.
CommitAsOfNow(r) ==
    LET d == req[r].doc IN
    /\ req[r].pc = "filed" /\ req[r].kind \in {"bump", "restore"}
    /\ d \in Existing
    /\ AddRows(r)
    /\ doc' = [doc EXCEPT ![d].cur = @ + 1]
    /\ was' = [was EXCEPT ![d][doc[d].cur + 1] = req[r].content]
    /\ req' = [req EXCEPT ![r] = Free]
    /\ UNCHANGED <<live, archive, served, disturbed>>

\* current_version becomes one more than what was read.
CommitVersion(r) ==
    LET d == req[r].doc IN
    /\ req[r].pc = "filed" /\ req[r].kind \in {"bump", "restore"}
    /\ d \in Existing
    /\ AddRows(r)
    /\ doc' = [doc EXCEPT ![d].cur = req[r].cur + 1]
    /\ was' = [was EXCEPT ![d][req[r].cur + 1] = req[r].content]
    /\ req' = [req EXCEPT ![r] = Free]
    /\ UNCHANGED <<live, archive, served, disturbed>>

\* The row is gone (StaleDataError), the database refuses the commit, or the
\* process dies: the files stay as they are.
Abort(r) ==
    /\ req[r].pc = "filed"
    /\ disturbed' = disturbed \cup {req[r].doc}
    /\ req' = [req EXCEPT ![r] = Free]
    /\ UNCHANGED <<doc, rows, live, archive, served, was>>

\* delete_document: the row and, by cascade, its version rows; no file.
Delete(d) ==
    /\ d \in Existing
    /\ doc' = [doc EXCEPT ![d].state = "deleted"]
    /\ rows' = [rows EXCEPT ![d] = [n \in Versions |-> NoRow]]
    /\ UNCHANGED <<live, archive, req, served, was, disturbed>>

RequestStep(r) ==
    \/ \E d \in Docs : UploadVersion(r, d) \/ WriteNew(r, d)
    \/ \E d \in Docs, n \in Versions : Restore(r, d, n)
    \/ UploadNew(r) \/ UploadFails(r) \/ CommitNew(r) \/ WriteVersion(r)
    \/ FindTarget(r) \/ WriteRestored(r) \/ RestoreFails(r)
    \/ CommitVersion(r) \/ Abort(r)

Next == (\E r \in Requests : RequestStep(r)) \/ (\E d \in Docs : Delete(d))

Spec == Init /\ [][Next]_vars

----------------------------------------------------------------------------
(* Properties *)

\* Whatever overlaps or dies, the archived versions of a document are listed
\* without a gap, and their files exist: restore_version never answers 404 or
\* 409 for a number below the current one.
EveryNumberIsListed ==
    \A d \in Existing : \A n \in 1..(doc[d].cur - 1) :
      rows[d][n].archived > 0 /\ archive[d][n] # NoFile

\* As long as requests on a document do not overlap or die half-way, version n
\* stays archived once, with the content that was uploaded or restored as
\* version n, and the live file is the current version.
HistoryKept ==
    \A d \in Existing \ disturbed :
      /\ \A n \in 1..(doc[d].cur - 1) :
           rows[d][n].archived = 1 /\ archive[d][n] = was[d][n]
      /\ (\A r \in Requests : req[r].pc = "filed" => req[r].doc # d)
           => live[d] = was[d][doc[d].cur]

\* A restore that goes through, on such a document, brings back the content
\* of the version it names.
RestoreBringsBack ==
    [][\A r \in Requests :
         LET d == req[r].doc IN
         (req[r].kind = "restore" /\ CommitVersion(r) /\ d \notin disturbed)
           => was'[d][doc'[d].cur] = was[d][req[r].target]]_vars

=============================================================================
