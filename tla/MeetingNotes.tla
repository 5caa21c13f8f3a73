----------------------------- MODULE MeetingNotes -----------------------------
(***************************************************************************)
(* The recordings of one calendar event: upload_transcript resets the      *)
(* event's notes and starts _run_transcript_pipeline, which transcribes,   *)
(* summarises, writes two files, creates and ingests two documents, and    *)
(* links them to the event. Pipelines are background tasks of the API      *)
(* process: several may run for one event, and a restart loses them.       *)
(*                                                                         *)
(* A text is told from another by the recording it comes from.             *)
(***************************************************************************)
EXTENDS Naturals, UnitOfWork

CONSTANTS
    Recordings,   \* uploads, each of a recording of its own
    Names,        \* what a title and a date give in a file name
    MaxFaults,    \* bound on failed calls and restarts
    None,
    NoText        \* the empty summary of a failed LLM call

ASSUME NotesAssumption ==
    /\ Names # {} /\ MaxFaults \in Nat
    /\ None \notin Recordings \cup Names /\ NoText \notin Recordings \cup {None}

Kinds == {"transcript", "summary"}

VARIABLES
    event,     \* the columns of calendar_events this is about, or None
    pipe,      \* each upload, from its request to the end of its pipeline
    file,      \* the files in the event's transcript directory
    doc,       \* the documents of each recording
    faults,
    crowded    \* uploads that ran while another one did

vars == <<event, pipe, file, doc, faults, crowded>>

Texts == Recordings \cup {None, NoText}
Links == [notes : Texts, transcript : Recordings \cup {None},
          summary : Recordings \cup {None}]
Event == [name : Names, links : Links]
NoLinks == [notes |-> None, transcript |-> None, summary |-> None]
Stages == {"none", "loaded", "queued", "transcribe", "store", "ingest",
           "ingest2", "link", "linking", "done", "stopped"}
Pipe == [at : Stages, name : Names \cup {None}, summary : Texts,
         seen : Links \cup {None}]
Document == [status : {"none", "pending", "ready", "failed"}, text : Texts]
NoDocument == [status |-> "none", text |-> None]

\* Uploads whose request or pipeline is under way.
Active == {r \in Recordings : pipe[r].at \notin {"none", "done", "stopped"}}

TypeOK ==
    /\ event \in Event \cup {None}
    /\ pipe \in [Recordings -> Pipe]
    /\ file \in [Kinds -> [Names -> Texts]]
    /\ doc \in [Recordings -> [Kinds -> Document]]
    /\ faults \in 0..MaxFaults
    /\ crowded \subseteq Recordings
    /\ \A r \in Recordings :
         \* Only a pipeline that stored its documents has any, or links them.
         /\ pipe[r].at \in {"none", "loaded", "queued", "transcribe", "store"}
              => \A k \in Kinds : doc[r][k].status = "none"
         /\ event # None /\ r \in {event.links.transcript, event.links.summary}
              => \A k \in Kinds : doc[r][k].status \in {"ready", "failed"}

Init ==
    /\ event \in [name : Names, links : {NoLinks}]
    /\ pipe = [r \in Recordings |-> [at |-> "none", name |-> None,
                                     summary |-> None, seen |-> None]]
    /\ file = [k \in Kinds |-> [n \in Names |-> None]]
    /\ doc = [r \in Recordings |-> [k \in Kinds |-> NoDocument]]
    /\ faults = 0
    /\ crowded = {}

Goto(r, stage) == pipe' = [pipe EXCEPT ![r].at = stage]
Ended(r, stage) ==
    [pipe[r] EXCEPT !.at = stage, !.name = None, !.seen = None]
Fault == faults < MaxFaults /\ faults' = faults + 1

\* The UPDATE that was to turn the loaded links into n, t and s.
Written(seen, n, t, s) ==
    [event EXCEPT !.links =
       [notes      |-> Column(@.notes, seen.notes, n),
        transcript |-> Column(@.transcript, seen.transcript, t),
        summary    |-> Column(@.summary, seen.summary, s)]]

-----------------------------------------------------------------------------
(* upload_transcript *)

\* The event is loaded, and the audio is read.
Upload(r) ==
    /\ pipe[r].at = "none" /\ event # None
    /\ pipe' = [pipe EXCEPT ![r].at = "loaded", ![r].seen = event.links]
    /\ crowded' = IF Active = {} THEN crowded ELSE crowded \cup Active \cup {r}
    /\ UNCHANGED <<event, file, doc, faults>>

\* What it showed before is reset, and the pipeline is left to run.
\* Mutant: the notes of an earlier recording are left.
ResetLinks(seen) == Written(seen, seen.notes, None, None)

ResetNotes(seen) == Written(seen, None, None, None)

Accept(r) ==
    /\ pipe[r].at = "loaded" /\ event # None
    /\ event' = ResetNotes(pipe[r].seen)
    /\ pipe' = [pipe EXCEPT ![r].at = "queued", ![r].seen = None]
    /\ UNCHANGED <<file, doc, faults, crowded>>

\* The row is gone, and the UPDATE matches none.
Reject(r) ==
    /\ pipe[r].at = "loaded" /\ event = None
    /\ pipe' = [pipe EXCEPT ![r] = Ended(r, "stopped")]
    /\ UNCHANGED <<event, file, doc, faults, crowded>>

-----------------------------------------------------------------------------
(* _run_transcript_pipeline *)

Fetch(r) ==
    /\ pipe[r].at = "queued"
    /\ pipe' = [pipe EXCEPT ![r] =
                  IF event = None THEN Ended(r, "stopped")
                  ELSE [@ EXCEPT !.at = "transcribe", !.name = event.name]]
    /\ UNCHANGED <<event, file, doc, faults, crowded>>

TranscriptionFails(r) ==
    /\ pipe[r].at = "transcribe" /\ Fault
    /\ pipe' = [pipe EXCEPT ![r] = Ended(r, "stopped")]
    /\ UNCHANGED <<event, file, doc, crowded>>

\* Mutant: a file that is there already is kept.
SummariseKeepingFiles(r, text) ==
    /\ pipe[r].at = "transcribe"
    /\ \/ text = NoText /\ Fault
       \/ text = r /\ faults' = faults
    /\ pipe' = [pipe EXCEPT ![r].at = "store", ![r].summary = text]
    /\ file' = [file EXCEPT
                  !["transcript"][pipe[r].name] = IF @ = None THEN r ELSE @,
                  !["summary"][pipe[r].name] = IF @ = None THEN text ELSE @]
    /\ UNCHANGED <<event, doc, crowded>>

\* The transcript, the summary, or none if that call fails, and both files:
\* their names do not tell one recording of the event from another. Nothing
\* that others see changes before the files are written.
Summarise(r, text) ==
    /\ pipe[r].at = "transcribe"
    /\ \/ text = NoText /\ Fault
       \/ text = r /\ faults' = faults
    /\ pipe' = [pipe EXCEPT ![r].at = "store", ![r].summary = text]
    /\ file' = [file EXCEPT !["transcript"][pipe[r].name] = r,
                            !["summary"][pipe[r].name] = text]
    /\ UNCHANGED <<event, doc, crowded>>

\* The directory or one of the files cannot be written, the summary's after
\* the transcript's: nothing catches that, and what is cut short has no text.
WriteFails(r) ==
    LET n == pipe[r].name IN
    /\ pipe[r].at = "transcribe" /\ Fault
    /\ pipe' = [pipe EXCEPT ![r] = Ended(r, "stopped")]
    /\ \E t \in {file["transcript"][n], NoText, r}, s \in {file["summary"][n], NoText} :
         /\ s # file["summary"][n] => t = r
         /\ file' = [file EXCEPT !["transcript"][n] = t, !["summary"][n] = s]
    /\ UNCHANGED <<event, doc, crowded>>

\* A query or a commit fails, in the request or in the pipeline, and nothing
\* catches that either: what it was to write is rolled back.
DatabaseFails(r) ==
    /\ pipe[r].at \in {"loaded", "queued", "store", "link", "linking"} /\ Fault
    /\ pipe' = [pipe EXCEPT ![r] = Ended(r, "stopped")]
    /\ UNCHANGED <<event, file, doc, crowded>>

\* Both documents, in one transaction.
Store(r) ==
    /\ pipe[r].at = "store" /\ Goto(r, "ingest")
    /\ doc' = [doc EXCEPT ![r] = [k \in Kinds |-> [status |-> "pending",
                                                   text |-> None]]]
    /\ UNCHANGED <<event, file, faults, crowded>>

\* The document of kind k is ingested from its file, as it is by now. A
\* failure is recorded in the document, and the pipeline goes on.
Ingested(r, k) ==
    doc' = [doc EXCEPT ![r][k] = [status |-> "ready",
                                  text |-> file[k][pipe[r].name]]]

\* Mutant: a failure ends the pipeline.
IngestOrStop(r, k, next) ==
    \/ Ingested(r, k) /\ Goto(r, next) /\ faults' = faults
    \/ /\ doc' = [doc EXCEPT ![r][k].status = "failed"]
       /\ Goto(r, "done") /\ Fault

IngestOne(r, k, next) ==
    \/ Ingested(r, k) /\ Goto(r, next) /\ faults' = faults
    \/ /\ doc' = [doc EXCEPT ![r][k].status = "failed"]
       /\ Goto(r, next) /\ Fault

Ingest(r) ==
    /\ \/ pipe[r].at = "ingest" /\ IngestOne(r, "transcript", "ingest2")
       \/ pipe[r].at = "ingest2" /\ IngestOne(r, "summary", "link")
    /\ UNCHANGED <<event, file, crowded>>

\* Mutant: the ingestion is not waited for.
LoadAtOnce(r) ==
    /\ pipe[r].at \in {"ingest", "link"}
    /\ pipe' = [pipe EXCEPT ![r] =
                  IF event = None THEN Ended(r, "done")
                  ELSE [@ EXCEPT !.at = "linking", !.name = None,
                                 !.seen = event.links]]
    /\ UNCHANGED <<event, file, doc, faults, crowded>>

LoadToLink(r) ==
    /\ pipe[r].at = "link"
    /\ pipe' = [pipe EXCEPT ![r] =
                  IF event = None THEN Ended(r, "done")
                  ELSE [@ EXCEPT !.at = "linking", !.name = None,
                                 !.seen = event.links]]
    /\ UNCHANGED <<event, file, doc, faults, crowded>>

Link(r) ==
    /\ pipe[r].at = "linking"
    /\ event' = IF event = None THEN None
                ELSE Written(pipe[r].seen, pipe[r].summary, r, r)
    /\ pipe' = [pipe EXCEPT ![r] = Ended(r, "done")]
    /\ UNCHANGED <<file, doc, faults, crowded>>

-----------------------------------------------------------------------------
(* Around them. *)

\* update_event, of the title or the date.
EditEvent(n) ==
    /\ event # None /\ event.name # n
    /\ event' = [event EXCEPT !.name = n]
    /\ UNCHANGED <<pipe, file, doc, faults, crowded>>

DeleteEvent ==
    /\ event # None /\ event' = None
    /\ UNCHANGED <<pipe, file, doc, faults, crowded>>

\* The API process restarts: its requests and background tasks are gone.
Restart ==
    /\ Active # {} /\ Fault
    /\ pipe' = [r \in Recordings |-> IF r \in Active THEN Ended(r, "stopped")
                                     ELSE pipe[r]]
    /\ UNCHANGED <<event, file, doc, crowded>>

-----------------------------------------------------------------------------

Step(r) ==
    \/ Accept(r) \/ Reject(r) \/ Fetch(r) \/ Store(r)
    \/ TranscriptionFails(r) \/ (\E text \in Texts : Summarise(r, text))
    \/ WriteFails(r) \/ DatabaseFails(r)
    \/ Ingest(r) \/ LoadToLink(r) \/ Link(r)

Next ==
    \/ \E r \in Recordings : Upload(r) \/ Step(r)
    \/ \E n \in Names : EditEvent(n)
    \/ DeleteEvent \/ Restart

\* What a request or a pipeline awaits ends, one way or another.
Spec == Init /\ [][Next]_vars /\ \A r \in Recordings : WF_vars(Step(r))

-----------------------------------------------------------------------------
(* Properties *)

\* The two documents an event links are of one recording, and its notes are
\* of that recording too, or empty, however uploads, pipelines and resets
\* overlap. Two failed summaries break it: an empty text over an empty text
\* writes nothing, and keeps what another has put there in between.
NotesComeTogether ==
    event # None =>
      LET l == event.links
          failed == {r \in Recordings : pipe[r].summary = NoText}
      IN
      /\ l.summary = l.transcript
      /\ (\A q, r \in failed : q = r) =>
           IF l.transcript = None THEN l.notes = None
                                  ELSE l.notes \in {l.transcript, NoText}

\* An upload that never ran beside another one: once linked, its documents
\* hold its own text, or have failed.
LinkedDocumentsAreItsOwn ==
    event # None => \A r \in Recordings \ crowded : event.links.transcript = r =>
      \A k \in Kinds :
        LET own == IF k = "transcript" THEN r ELSE pipe[r].summary IN
        doc[r][k].status = "ready" => doc[r][k].text = own

\* An accepted recording is linked at last, whatever part of its ingestion or
\* its summary failed, unless its pipeline was stopped (it could not be
\* transcribed, the process restarted, the files or the database failed),
\* the event is gone, or somebody uploaded another one meanwhile.
NotesArrive ==
    \A r \in Recordings :
      pipe[r].at = "queued" ~>
        \/ event = None \/ pipe[r].at = "stopped" \/ r \in crowded
        \/ event.links.transcript = r
=============================================================================
