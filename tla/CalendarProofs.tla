--------------------------- MODULE CalendarProofs ---------------------------
(***************************************************************************)
(* Proofs about the calendar. MeetingNotes, for any recordings and file    *)
(* names and any number of failures and restarts: types, notes that go     *)
(* with the documents linked, and documents that hold their own recording. *)
(* Reminders, for any number of events and any lengths of the task's sleep *)
(* and of its window: the flag on an event's row is a true record of       *)
(* whether its attendees have been reminded, and what the window must be   *)
(* for none to be missed.                                                  *)
(***************************************************************************)
EXTENDS MeetingNotes, TLAPS

\* What a request or a pipeline has at hand where it is.
HandOK(p) ==
    /\ p.at \in {"transcribe", "store", "ingest", "ingest2", "link"} => p.name \in Names
    /\ p.at \in {"loaded", "linking"} => p.seen \in Links

\* A summary is made once.
SummaryOK(r, p) ==
    /\ p.summary \in {None, r, NoText}
    /\ p.at \in {"none", "loaded", "queued", "transcribe"} => p.summary = None
    /\ p.at \in {"store", "ingest", "ingest2", "link", "linking"} => p.summary # None

\* The documents of a pipeline, by how far it is, and those that are linked.
Settled(r, k) == doc[r][k].status \in {"ready", "failed"}
Unstored == {"none", "loaded", "queued", "transcribe", "store"}
Linked(r) == event # None /\ r \in {event.links.transcript, event.links.summary}
DocsOf(r) ==
    /\ pipe[r].at \in Unstored => \A k \in Kinds : doc[r][k].status = "none"
    /\ pipe[r].at = "ingest2" => Settled(r, "transcript")
    /\ pipe[r].at \in {"link", "linking"} => \A k \in Kinds : Settled(r, k)
    /\ Linked(r) => \A k \in Kinds : Settled(r, k)

HandInv == \A r \in Recordings : HandOK(pipe[r])
SummaryInv == \A r \in Recordings : SummaryOK(r, pipe[r])
DocsInv == \A r \in Recordings : DocsOf(r)

ShapeOK ==
    /\ event \in Event \cup {None}
    /\ pipe \in [Recordings -> Pipe]
    /\ file \in [Kinds -> [Names -> Texts]]
    /\ doc \in [Recordings -> [Kinds -> Document]]
    /\ faults \in 0..MaxFaults
    /\ crowded \subseteq Recordings

TypeInv == ShapeOK /\ HandInv /\ SummaryInv /\ DocsInv

-----------------------------------------------------------------------------
(* Types *)

LEMMA NoneApart ==
    /\ None \notin Recordings /\ None \notin Names /\ NoText \notin Recordings
    /\ NoText # None /\ None \in Texts /\ NoText \in Texts
    /\ \A r \in Recordings : r \in Texts
  BY NotesAssumption DEF Texts

LEMMA FaultType == Fault /\ ShapeOK => faults' \in 0..MaxFaults
  BY NotesAssumption DEF Fault, ShapeOK

\* A pipeline that moves keeps the records of the others.
LEMMA PipeMoves ==
    ASSUME ShapeOK, NEW r \in Recordings, NEW p \in Pipe,
           pipe' = [pipe EXCEPT ![r] = p]
    PROVE  /\ pipe' \in [Recordings -> Pipe] /\ pipe'[r] = p
           /\ \A q \in Recordings \ {r} : pipe'[q] = pipe[q]
  BY DEF ShapeOK

LEMMA EndType ==
    ASSUME ShapeOK, NEW r \in Recordings, NEW stage \in {"done", "stopped"}
    PROVE  /\ Ended(r, stage) \in Pipe /\ Ended(r, stage).at = stage
           /\ Ended(r, stage).summary = pipe[r].summary
  BY DEF Ended, ShapeOK, Pipe, Stages

\* What an UPDATE may leave in the event.
LEMMA WrittenType ==
    ASSUME ShapeOK, event # None, NEW seen \in Links, NEW n \in Texts,
           NEW t \in Recordings \cup {None}
    PROVE  /\ Written(seen, n, t, t) \in Event
           /\ Written(seen, n, t, t).links.transcript \in {event.links.transcript, t}
           /\ Written(seen, n, t, t).links.summary \in {event.links.summary, t}
           /\ Written(seen, n, t, t).links =
                [notes |-> Column(event.links.notes, seen.notes, n),
                 transcript |-> Column(event.links.transcript, seen.transcript, t),
                 summary |-> Column(event.links.summary, seen.summary, t)]
  <1>1. event \in Event /\ event.links \in Links
    BY DEF ShapeOK, Event
  <1>2. PICK new \in Links : new =
          [notes |-> Column(event.links.notes, seen.notes, n),
           transcript |-> Column(event.links.transcript, seen.transcript, t),
           summary |-> Column(event.links.summary, seen.summary, t)]
    BY <1>1 DEF Links, Column
  <1>3. Written(seen, n, t, t) = [event EXCEPT !.links = new]
    BY <1>2 DEF Written
  <1>4. /\ Written(seen, n, t, t) \in Event
        /\ Written(seen, n, t, t).links = new
    BY <1>1, <1>3 DEF Event
  <1>5. /\ new.transcript \in {event.links.transcript, t}
        /\ new.summary \in {event.links.summary, t}
    BY <1>2 DEF Column
  <1> QED
    BY <1>2, <1>4, <1>5

\* One pipeline moves, its documents with it: what to show of the others.
LEMMA MoveTyped ==
    ASSUME TypeInv, NEW r \in Recordings, NEW p \in Pipe,
           pipe' = [pipe EXCEPT ![r] = p], HandOK(p), SummaryOK(r, p),
           \A q \in Recordings \ {r} :
             /\ \A k \in Kinds : doc'[q][k] = doc[q][k]
             /\ Linked(q)' => Linked(q),
           DocsOf(r)'
    PROVE  /\ pipe' \in [Recordings -> Pipe]
           /\ HandInv' /\ SummaryInv' /\ DocsInv'
  <1>1. /\ pipe' \in [Recordings -> Pipe] /\ pipe'[r] = p
        /\ \A q \in Recordings \ {r} : pipe'[q] = pipe[q]
    BY PipeMoves DEF TypeInv
  <1>2. HandInv'
    BY <1>1 DEF TypeInv, HandInv, HandOK
  <1>3. SummaryInv'
    BY <1>1 DEF TypeInv, SummaryInv, SummaryOK
  <1>4. ASSUME NEW q \in Recordings \ {r}
        PROVE  DocsOf(q)'
    <2>1. DocsOf(q) /\ pipe'[q] = pipe[q] /\ \A k \in Kinds : doc'[q][k] = doc[q][k]
      BY <1>1 DEF TypeInv, DocsInv
    <2>2. \A k \in Kinds : Settled(q, k)' <=> Settled(q, k)
      BY <2>1 DEF Settled
    <2>3. Linked(q)' => Linked(q)
      OBVIOUS
    <2> QED BY <2>1, <2>2, <2>3 DEF DocsOf, Kinds
  <1> QED
    BY <1>1, <1>2, <1>3, <1>4 DEF DocsInv

\* A pipeline that moves and touches neither documents nor links.
LEMMA QuietMove ==
    ASSUME TypeInv, NEW r \in Recordings, NEW p \in Pipe,
           pipe' = [pipe EXCEPT ![r] = p], HandOK(p), SummaryOK(r, p),
           UNCHANGED doc, \A q \in Recordings : Linked(q)' => Linked(q),
           \/ p.at \in {"done", "stopped", "ingest"}
           \/ p.at \in Unstored /\ pipe[r].at \in Unstored
           \/ p.at = "linking" /\ pipe[r].at = "link"
    PROVE  /\ pipe' \in [Recordings -> Pipe]
           /\ HandInv' /\ SummaryInv' /\ DocsInv'
  <1>1. pipe'[r] = p
    BY PipeMoves DEF TypeInv
  <1>2. DocsOf(r) /\ \A k \in Kinds : Settled(r, k)' <=> Settled(r, k)
    BY DEF TypeInv, DocsInv, Settled
  <1>3. DocsOf(r)'
    BY <1>1, <1>2 DEF DocsOf, Unstored
  <1> QED
    BY <1>3, MoveTyped

LEMMA InitTyped == Init => TypeInv
  <1> SUFFICES ASSUME Init PROVE TypeInv
    OBVIOUS
  <1>1. /\ event \in Event /\ event.links = NoLinks
        /\ NoLinks.transcript = None /\ NoLinks.summary = None
    BY NoneApart DEF Init, Event, NoLinks, Links
  <1>2. \A r \in Recordings : /\ pipe[r].at = "none" /\ pipe[r].summary = None
                              /\ pipe[r] \in Pipe
    BY NoneApart DEF Init, Pipe, Stages
  <1>3. ASSUME NEW r \in Recordings, NEW k \in Kinds
        PROVE  doc[r][k].status = "none" /\ doc[r][k] \in Document
    BY NoneApart DEF Init, Document, NoDocument
  <1>4. \A r \in Recordings : ~Linked(r)
    BY <1>1, NoneApart DEF Linked
  <1>5. ShapeOK
    <2>1. pipe \in [Recordings -> Pipe]
      BY <1>2 DEF Init
    <2>2. file \in [Kinds -> [Names -> Texts]]
      BY NoneApart DEF Init
    <2>3. doc \in [Recordings -> [Kinds -> Document]]
      BY NoneApart DEF Init, Document, NoDocument
    <2>4. faults \in 0..MaxFaults /\ crowded \subseteq Recordings
      BY NotesAssumption DEF Init
    <2> QED BY <1>1, <2>1, <2>2, <2>3, <2>4 DEF ShapeOK
  <1> QED
    BY <1>2, <1>3, <1>4, <1>5
    DEF TypeInv, HandInv, HandOK, SummaryInv, SummaryOK, DocsInv, DocsOf

LEMMA RequestTyped ==
    ASSUME TypeInv, NEW r \in Recordings, Upload(r) \/ Accept(r) \/ Reject(r)
    PROVE  TypeInv'
  <1>0. ShapeOK /\ pipe[r] \in Pipe /\ HandOK(pipe[r]) /\ SummaryOK(r, pipe[r])
    BY DEF TypeInv, ShapeOK, HandInv, SummaryInv
  <1>1. CASE Upload(r)
    <2>1. PICK p : p = [pipe[r] EXCEPT !.at = "loaded", !.seen = event.links]
      OBVIOUS
    <2>2. /\ pipe[r].at = "none" /\ event # None
          /\ pipe' = [pipe EXCEPT ![r] = p]
          /\ crowded' \subseteq Recordings
          /\ UNCHANGED <<event, file, doc, faults>>
      BY <1>0, <1>1, <2>1 DEF Upload, ShapeOK, Active
    <2>3. event.links \in Links
      BY <1>0, <2>2 DEF ShapeOK, Event
    <2>4. p \in Pipe /\ p.at = "loaded" /\ p.seen \in Links /\ p.summary = pipe[r].summary
      BY <1>0, <2>1, <2>3 DEF Pipe, Stages
    <2>5. HandOK(p) /\ SummaryOK(r, p) /\ \A q : Linked(q)' => Linked(q)
      BY <1>0, <2>2, <2>4 DEF HandOK, SummaryOK, Linked
    <2>6. pipe' \in [Recordings -> Pipe] /\ HandInv' /\ SummaryInv' /\ DocsInv'
      BY <2>2, <2>4, <2>5, QuietMove DEF Unstored
    <2> QED BY <1>0, <2>2, <2>6 DEF TypeInv, ShapeOK
  <1>2. CASE Accept(r)
    <2>1. PICK p : p = [pipe[r] EXCEPT !.at = "queued", !.seen = None]
      OBVIOUS
    <2>2. /\ pipe[r].at = "loaded" /\ event # None
          /\ event' = Written(pipe[r].seen, None, None, None)
          /\ pipe' = [pipe EXCEPT ![r] = p]
          /\ UNCHANGED <<file, doc, faults, crowded>>
      BY <1>0, <1>2, <2>1 DEF Accept, ResetNotes, ShapeOK
    <2>3. p \in Pipe /\ p.at = "queued" /\ p.summary = pipe[r].summary
      BY <1>0, <2>1 DEF Pipe, Stages
    <2>4. /\ event' \in Event
          /\ event'.links.transcript \in {event.links.transcript, None}
          /\ event'.links.summary \in {event.links.summary, None}
      BY <1>0, <2>2, NoneApart, WrittenType DEF HandOK
    <2>5. \A q \in Recordings : Linked(q)' => Linked(q)
      BY <2>2, <2>4, NoneApart DEF Linked
    <2>6. HandOK(p) /\ SummaryOK(r, p)
      BY <1>0, <2>2, <2>3 DEF HandOK, SummaryOK
    <2>7. pipe' \in [Recordings -> Pipe] /\ HandInv' /\ SummaryInv' /\ DocsInv'
      BY <2>2, <2>3, <2>5, <2>6, QuietMove DEF Unstored
    <2> QED BY <1>0, <2>2, <2>4, <2>7 DEF TypeInv, ShapeOK
  <1>3. CASE Reject(r)
    <2>1. PICK p \in Pipe : /\ p = Ended(r, "stopped") /\ p.at = "stopped"
                            /\ p.summary = pipe[r].summary
      BY <1>0, EndType
    <2>2. HandOK(p) /\ SummaryOK(r, p) /\ \A q : Linked(q)' => Linked(q)
      BY <1>0, <1>3, <2>1 DEF HandOK, SummaryOK, Reject, Linked
    <2>3. pipe' \in [Recordings -> Pipe] /\ HandInv' /\ SummaryInv' /\ DocsInv'
      BY <1>3, <2>1, <2>2, QuietMove DEF Reject
    <2> QED BY <1>0, <1>3, <2>3 DEF TypeInv, ShapeOK, Reject
  <1> QED
    BY <1>1, <1>2, <1>3

\* A file and a document change in one place.
LEMMA FileType ==
    ASSUME ShapeOK, NEW n \in Names, NEW t \in Texts, NEW u \in Texts,
           file' = [file EXCEPT !["transcript"][n] = t, !["summary"][n] = u]
    PROVE  /\ file' \in [Kinds -> [Names -> Texts]]
           /\ file'["transcript"][n] = t /\ file'["summary"][n] = u
  <1>1. \A k \in Kinds : file[k] \in [Names -> Texts]
    BY DEF ShapeOK
  <1>2. PICK a \in [Names -> Texts] : a = [file["transcript"] EXCEPT ![n] = t]
    BY <1>1 DEF Kinds
  <1>3. PICK b \in [Names -> Texts] : b = [file["summary"] EXCEPT ![n] = u]
    BY <1>1 DEF Kinds
  <1>4. \A k \in Kinds : k = "transcript" \/ k = "summary"
    BY DEF Kinds
  <1>5. file' = [[file EXCEPT !["transcript"] = a] EXCEPT !["summary"] = b]
    BY <1>2, <1>3 DEF ShapeOK, Kinds
  <1>6. PICK f \in [Kinds -> [Names -> Texts]] : f = [file EXCEPT !["transcript"] = a]
    BY <1>2 DEF ShapeOK
  <1>7. f["transcript"] = a
    BY <1>6 DEF ShapeOK, Kinds
  <1>8. file' = [f EXCEPT !["summary"] = b]
    BY <1>5, <1>6
  <1>9. /\ file' \in [Kinds -> [Names -> Texts]]
        /\ file'["transcript"] = a /\ file'["summary"] = b
    BY <1>6, <1>7, <1>8 DEF Kinds
  <1> QED
    BY <1>2, <1>3, <1>9

LEMMA DocType ==
    ASSUME ShapeOK, NEW r \in Recordings, NEW k \in Kinds, NEW e \in Document,
           doc' = [doc EXCEPT ![r][k] = e]
    PROVE  /\ doc' \in [Recordings -> [Kinds -> Document]] /\ doc'[r][k] = e
           /\ \A q \in Recordings, j \in Kinds :
                q # r \/ j # k => doc'[q][j] = doc[q][j]
  <1>1. doc[r] \in [Kinds -> Document]
    BY DEF ShapeOK
  <1>2. PICK a \in [Kinds -> Document] : a = [doc[r] EXCEPT ![k] = e]
    BY <1>1
  <1>3. doc' = [doc EXCEPT ![r] = a]
    BY <1>2
  <1> QED
    BY <1>1, <1>2, <1>3 DEF ShapeOK

\* Transcribing, summarising and storing.
LEMMA EarlyTyped ==
    ASSUME TypeInv, NEW r \in Recordings,
           \/ Fetch(r) \/ TranscriptionFails(r) \/ Store(r)
           \/ WriteFails(r) \/ DatabaseFails(r)
           \/ \E text \in Texts : Summarise(r, text)
    PROVE  TypeInv'
  <1>0. /\ ShapeOK /\ pipe[r] \in Pipe /\ HandOK(pipe[r]) /\ SummaryOK(r, pipe[r])
        /\ DocsOf(r)
    BY DEF TypeInv, ShapeOK, HandInv, SummaryInv, DocsInv
  <1>1. CASE Fetch(r)
    <2>1. PICK p : p = IF event = None THEN Ended(r, "stopped")
                       ELSE [pipe[r] EXCEPT !.at = "transcribe", !.name = event.name]
      OBVIOUS
    <2>2. /\ pipe[r].at = "queued" /\ pipe' = [pipe EXCEPT ![r] = p]
          /\ UNCHANGED <<event, file, doc, faults, crowded>>
      BY <1>0, <1>1, <2>1 DEF Fetch, ShapeOK
    <2>3. /\ p \in Pipe /\ p.summary = pipe[r].summary
          /\ p.at \in {"stopped", "transcribe"}
          /\ p.at = "transcribe" => p.name \in Names
      <3>1. CASE event = None
        BY <1>0, <2>1, <3>1, EndType
      <3>2. CASE event # None
        <4>1. event.name \in Names
          BY <1>0, <3>2 DEF ShapeOK, Event
        <4> QED BY <1>0, <2>1, <3>2, <4>1 DEF Pipe, Stages
      <3> QED BY <3>1, <3>2
    <2>4. HandOK(p) /\ SummaryOK(r, p) /\ \A q : Linked(q)' => Linked(q)
      BY <1>0, <2>2, <2>3 DEF HandOK, SummaryOK, Linked
    <2>5. pipe' \in [Recordings -> Pipe] /\ HandInv' /\ SummaryInv' /\ DocsInv'
      BY <2>2, <2>3, <2>4, QuietMove DEF Unstored
    <2> QED BY <1>0, <2>2, <2>5 DEF TypeInv, ShapeOK
  <1>2. CASE TranscriptionFails(r) \/ WriteFails(r) \/ DatabaseFails(r)
    <2>1. PICK p \in Pipe : /\ p = Ended(r, "stopped") /\ p.at = "stopped"
                            /\ p.summary = pipe[r].summary
      BY <1>0, EndType
    <2>2. pipe' = [pipe EXCEPT ![r] = p] /\ Fault /\ UNCHANGED <<event, doc, crowded>>
      BY <1>2, <2>1 DEF TranscriptionFails, WriteFails, DatabaseFails
    <2>3. HandOK(p) /\ SummaryOK(r, p) /\ \A q : Linked(q)' => Linked(q)
      BY <1>0, <2>1, <2>2 DEF HandOK, SummaryOK, Linked
    <2>4. pipe' \in [Recordings -> Pipe] /\ HandInv' /\ SummaryInv' /\ DocsInv'
      BY <2>1, <2>2, <2>3, QuietMove
    <2>5. faults' \in 0..MaxFaults
      BY <1>0, <2>2, FaultType
    <2>6. file' \in [Kinds -> [Names -> Texts]]
      <3>1. CASE WriteFails(r)
        <4>1. pipe[r].name \in Names
          BY <1>0, <3>1 DEF WriteFails, HandOK
        <4>2. \A k \in Kinds : file[k][pipe[r].name] \in Texts
          BY <1>0, <4>1 DEF ShapeOK
        <4>3. PICK t \in Texts, u \in Texts :
                file' = [file EXCEPT !["transcript"][pipe[r].name] = t,
                                     !["summary"][pipe[r].name] = u]
          BY <3>1, <4>2, NoneApart DEF WriteFails, Kinds
        <4> QED BY <1>0, <4>1, <4>3, FileType
      <3>2. CASE TranscriptionFails(r) \/ DatabaseFails(r)
        BY <1>0, <3>2 DEF TranscriptionFails, DatabaseFails, ShapeOK
      <3> QED BY <1>2, <3>1, <3>2
    <2> QED BY <1>0, <2>2, <2>4, <2>5, <2>6 DEF TypeInv, ShapeOK
  <1>3. ASSUME NEW text \in Texts, Summarise(r, text)
        PROVE  TypeInv'
    <2>1. PICK p : p = [pipe[r] EXCEPT !.at = "store", !.summary = text]
      OBVIOUS
    <2>2. /\ pipe[r].at = "transcribe" /\ pipe' = [pipe EXCEPT ![r] = p]
          /\ text \in {r, NoText} /\ text # None
          /\ UNCHANGED <<event, doc, crowded>>
          /\ faults' \in 0..MaxFaults
      BY <1>0, <1>3, <2>1, FaultType, NoneApart DEF Summarise, ShapeOK
    <2>3. p \in Pipe /\ p.summary = text /\ p.at = "store" /\ p.name = pipe[r].name
      BY <1>0, <2>1 DEF Pipe, Stages
    <2>4. HandOK(p) /\ SummaryOK(r, p) /\ \A q : Linked(q)' => Linked(q)
      BY <1>0, <2>2, <2>3 DEF HandOK, SummaryOK, Linked
    <2>5. pipe' \in [Recordings -> Pipe] /\ HandInv' /\ SummaryInv' /\ DocsInv'
      BY <2>2, <2>3, <2>4, QuietMove DEF Unstored
    <2>6. file' \in [Kinds -> [Names -> Texts]]
      BY <1>0, <1>3, <2>2, NoneApart, FileType DEF Summarise, HandOK
    <2> QED BY <1>0, <2>2, <2>5, <2>6 DEF TypeInv, ShapeOK
  <1>4. CASE Store(r)
    <2>1. PICK p : p = [pipe[r] EXCEPT !.at = "ingest"]
      OBVIOUS
    <2>2. PICK e \in Document : e = [status |-> "pending", text |-> None]
      BY NoneApart DEF Document
    <2>3. /\ pipe[r].at = "store" /\ pipe' = [pipe EXCEPT ![r] = p]
          /\ doc' = [doc EXCEPT ![r] = [k \in Kinds |-> e]]
          /\ UNCHANGED <<event, file, faults, crowded>>
      BY <1>0, <1>4, <2>1, <2>2 DEF Store, Goto, ShapeOK
    <2>4. p \in Pipe /\ p.at = "ingest" /\ p.summary = pipe[r].summary /\ p.name = pipe[r].name
      BY <1>0, <2>1 DEF Pipe, Stages
    <2>5. HandOK(p) /\ SummaryOK(r, p) /\ \A q : Linked(q)' <=> Linked(q)
      BY <1>0, <2>3, <2>4 DEF HandOK, SummaryOK, Linked
    <2>6. /\ doc' \in [Recordings -> [Kinds -> Document]]
          /\ \A q \in Recordings \ {r} : doc'[q] = doc[q]
      BY <1>0, <2>3 DEF ShapeOK
    <2>7. DocsOf(r)'
      <3>1. ~Linked(r)
        BY <1>0, <2>3 DEF DocsOf, Unstored, Settled, Kinds
      <3>2. pipe'[r] = p
        BY <1>0, <2>3, <2>4, PipeMoves
      <3> QED BY <2>4, <2>5, <3>1, <3>2 DEF DocsOf, Unstored
    <2>8. pipe' \in [Recordings -> Pipe] /\ HandInv' /\ SummaryInv' /\ DocsInv'
      BY <2>3, <2>4, <2>5, <2>6, <2>7, MoveTyped
    <2> QED BY <1>0, <2>3, <2>6, <2>8 DEF TypeInv, ShapeOK
  <1> QED
    BY <1>1, <1>2, <1>3, <1>4

LEMMA IngestTyped ==
    ASSUME TypeInv, NEW r \in Recordings, Ingest(r)
    PROVE  TypeInv'
  <1>0. /\ ShapeOK /\ pipe[r] \in Pipe /\ HandOK(pipe[r]) /\ SummaryOK(r, pipe[r])
        /\ DocsOf(r)
    BY DEF TypeInv, ShapeOK, HandInv, SummaryInv, DocsInv
  <1>1. ASSUME NEW k \in Kinds, NEW next \in {"ingest2", "link"},
               IngestOne(r, k, next), UNCHANGED <<event, file, crowded>>,
               \/ pipe[r].at = "ingest" /\ k = "transcript" /\ next = "ingest2"
               \/ pipe[r].at = "ingest2" /\ k = "summary" /\ next = "link"
        PROVE  TypeInv'
    <2>1. PICK p : p = [pipe[r] EXCEPT !.at = next]
      OBVIOUS
    <2>2. p \in Pipe /\ p.at = next /\ p.summary = pipe[r].summary /\ p.name = pipe[r].name
      BY <1>0, <2>1 DEF Pipe, Stages
    <2>3. pipe' = [pipe EXCEPT ![r] = p] /\ faults' \in 0..MaxFaults
      BY <1>0, <1>1, <2>1, FaultType DEF IngestOne, Goto, ShapeOK
    <2>4. PICK e \in Document : /\ doc' = [doc EXCEPT ![r][k] = e]
                                /\ e.status \in {"ready", "failed"}
      <3>1. CASE Ingested(r, k)
        <4>1. file[k][pipe[r].name] \in Texts
          BY <1>0, <1>1 DEF HandOK, ShapeOK
        <4>2. PICK e : e = [status |-> "ready", text |-> file[k][pipe[r].name]]
          OBVIOUS
        <4>3. e \in Document /\ e.status = "ready"
          BY <4>1, <4>2 DEF Document
        <4> QED BY <3>1, <4>2, <4>3 DEF Ingested
      <3>2. CASE doc' = [doc EXCEPT ![r][k].status = "failed"]
        <4>1. doc[r][k] \in Document /\ doc[r] \in [Kinds -> Document]
          BY <1>0 DEF ShapeOK
        <4>2. PICK e : e = [doc[r][k] EXCEPT !.status = "failed"]
          OBVIOUS
        <4>3. e \in Document /\ e.status = "failed"
          BY <4>1, <4>2 DEF Document
        <4>4. doc' = [doc EXCEPT ![r][k] = e]
          BY <1>0, <3>2, <4>1, <4>2 DEF ShapeOK
        <4> QED BY <4>3, <4>4
      <3> QED BY <1>1, <3>1, <3>2 DEF IngestOne
    <2>5. /\ doc' \in [Recordings -> [Kinds -> Document]] /\ doc'[r][k] = e
          /\ \A q \in Recordings, j \in Kinds :
               q # r \/ j # k => doc'[q][j] = doc[q][j]
      BY <1>0, <2>4, DocType
    <2>6. HandOK(p) /\ SummaryOK(r, p) /\ \A q : Linked(q)' <=> Linked(q)
      BY <1>0, <1>1, <2>2 DEF HandOK, SummaryOK, Linked
    <2>7. DocsOf(r)'
      <3>1. Settled(r, k)' /\ \A j \in Kinds : Settled(r, j) => Settled(r, j)'
        BY <2>4, <2>5 DEF Settled
      <3>2. pipe'[r] = p
        BY <1>0, <2>2, <2>3, PipeMoves
      <3> QED BY <1>0, <1>1, <2>2, <2>6, <3>1, <3>2 DEF DocsOf, Unstored, Kinds
    <2>8. pipe' \in [Recordings -> Pipe] /\ HandInv' /\ SummaryInv' /\ DocsInv'
      BY <2>2, <2>3, <2>5, <2>6, <2>7, MoveTyped
    <2> QED BY <1>0, <1>1, <2>3, <2>5, <2>8 DEF TypeInv, ShapeOK
  <1> QED
    BY <1>1 DEF Ingest, Kinds

LEMMA LinkTyped ==
    ASSUME TypeInv, NEW r \in Recordings, LoadToLink(r) \/ Link(r)
    PROVE  TypeInv'
  <1>0. /\ ShapeOK /\ pipe[r] \in Pipe /\ HandOK(pipe[r]) /\ SummaryOK(r, pipe[r])
        /\ DocsOf(r)
    BY DEF TypeInv, ShapeOK, HandInv, SummaryInv, DocsInv
  <1>1. CASE LoadToLink(r)
    <2>1. PICK p : p = IF event = None THEN Ended(r, "done")
                       ELSE [pipe[r] EXCEPT !.at = "linking", !.name = None,
                                            !.seen = event.links]
      OBVIOUS
    <2>2. /\ pipe[r].at = "link" /\ pipe' = [pipe EXCEPT ![r] = p]
          /\ UNCHANGED <<event, file, doc, faults, crowded>>
      BY <1>0, <1>1, <2>1 DEF LoadToLink, ShapeOK
    <2>3. /\ p \in Pipe /\ p.summary = pipe[r].summary
          /\ p.at \in {"done", "linking"}
          /\ p.at = "linking" => p.seen \in Links
      <3>1. CASE event = None
        BY <1>0, <2>1, <3>1, EndType
      <3>2. CASE event # None
        <4>1. event.links \in Links
          BY <1>0, <3>2 DEF ShapeOK, Event
        <4> QED BY <1>0, <2>1, <3>2, <4>1 DEF Pipe, Stages
      <3> QED BY <3>1, <3>2
    <2>4. HandOK(p) /\ SummaryOK(r, p) /\ \A q : Linked(q)' => Linked(q)
      BY <1>0, <2>2, <2>3 DEF HandOK, SummaryOK, Linked
    <2>5. pipe' \in [Recordings -> Pipe] /\ HandInv' /\ SummaryInv' /\ DocsInv'
      BY <2>2, <2>3, <2>4, QuietMove
    <2> QED BY <1>0, <2>2, <2>5 DEF TypeInv, ShapeOK
  <1>2. CASE Link(r)
    <2>1. PICK p \in Pipe : /\ p = Ended(r, "done") /\ p.at = "done"
                            /\ p.summary = pipe[r].summary
      BY <1>0, EndType
    <2>2. /\ pipe[r].at = "linking" /\ pipe' = [pipe EXCEPT ![r] = p]
          /\ UNCHANGED <<file, doc, faults, crowded>>
      BY <1>2, <2>1 DEF Link
    <2>3. /\ event' \in Event \cup {None} /\ (event' # None => event # None)
          /\ event' # None =>
               /\ event'.links.transcript \in {event.links.transcript, r}
               /\ event'.links.summary \in {event.links.summary, r}
      <3>1. CASE event = None
        BY <1>2, <3>1 DEF Link
      <3>2. CASE event # None
        <4>1. event' = Written(pipe[r].seen, pipe[r].summary, r, r)
          BY <1>2, <3>2 DEF Link
        <4>2. pipe[r].seen \in Links /\ pipe[r].summary \in Texts
          BY <1>0, <2>2, NoneApart DEF HandOK, SummaryOK
        <4> QED BY <1>0, <3>2, <4>1, <4>2, WrittenType
      <3> QED BY <3>1, <3>2
    <2>4. \A q \in Recordings \ {r} : Linked(q)' => Linked(q)
      BY <2>3 DEF Linked
    <2>5. HandOK(p) /\ SummaryOK(r, p)
      BY <1>0, <2>1 DEF HandOK, SummaryOK
    <2>6. DocsOf(r)'
      <3>1. \A k \in Kinds : Settled(r, k)'
        BY <1>0, <2>2 DEF DocsOf, Settled
      <3>2. pipe'[r] = p
        BY <1>0, <2>2, PipeMoves
      <3> QED BY <2>1, <3>1, <3>2 DEF DocsOf, Unstored
    <2>7. pipe' \in [Recordings -> Pipe] /\ HandInv' /\ SummaryInv' /\ DocsInv'
      BY <2>2, <2>4, <2>5, <2>6, MoveTyped
    <2> QED BY <1>0, <2>2, <2>3, <2>7 DEF TypeInv, ShapeOK
  <1> QED
    BY <1>1, <1>2

LEMMA AroundTyped ==
    ASSUME TypeInv,
           \/ \E n \in Names : EditEvent(n)
           \/ DeleteEvent \/ UNCHANGED vars
    PROVE  TypeInv'
  <1>1. /\ UNCHANGED <<pipe, file, doc, faults, crowded>>
        /\ event' \in Event \cup {None}
        /\ event' # None => event # None /\ event'.links = event.links
    <2>1. ASSUME NEW n \in Names, EditEvent(n)
          PROVE  /\ event' \in Event /\ event # None /\ event'.links = event.links
                 /\ UNCHANGED <<pipe, file, doc, faults, crowded>>
      BY <2>1 DEF EditEvent, TypeInv, ShapeOK, Event
    <2>2. CASE DeleteEvent \/ UNCHANGED vars
      BY <2>2 DEF DeleteEvent, vars, TypeInv, ShapeOK
    <2> QED BY <2>1, <2>2
  <1>2. HandInv' /\ SummaryInv'
    BY <1>1 DEF TypeInv, HandInv, HandOK, SummaryInv, SummaryOK
  <1>3. DocsInv'
    BY <1>1 DEF TypeInv, DocsInv, DocsOf, Linked, Settled
  <1> QED
    BY <1>1, <1>2, <1>3 DEF TypeInv, ShapeOK

LEMMA RestartTyped ==
    ASSUME TypeInv, Restart
    PROVE  TypeInv'
  <1>1. /\ UNCHANGED <<event, file, doc, crowded>> /\ faults' \in 0..MaxFaults
        /\ pipe' = [r \in Recordings |-> IF r \in Active THEN Ended(r, "stopped")
                                         ELSE pipe[r]]
    BY FaultType DEF Restart, TypeInv
  <1>2. ASSUME NEW r \in Recordings
        PROVE  /\ pipe'[r] \in Pipe /\ pipe'[r].summary = pipe[r].summary
               /\ pipe'[r] = pipe[r] \/ pipe'[r].at = "stopped"
    BY <1>1, EndType DEF TypeInv, ShapeOK
  <1>3. pipe' \in [Recordings -> Pipe]
    BY <1>1, <1>2
  <1>4. HandInv' /\ SummaryInv'
    BY <1>2 DEF TypeInv, HandInv, HandOK, SummaryInv, SummaryOK
  <1>5. DocsInv'
    BY <1>1, <1>2 DEF TypeInv, DocsInv, DocsOf, Linked, Settled, Unstored
  <1> QED
    BY <1>1, <1>3, <1>4, <1>5 DEF TypeInv, ShapeOK

LEMMA StepTyped ==
    ASSUME TypeInv, [Next]_vars
    PROVE  TypeInv'
  BY RequestTyped, EarlyTyped, IngestTyped, LinkTyped, AroundTyped, RestartTyped
  DEF Next, Step

LEMMA Implied == TypeInv => TypeOK
  BY DEF TypeInv, TypeOK, ShapeOK, DocsInv, DocsOf, Linked, Settled, Unstored

\* Every variable keeps its type, and only recordings whose documents have
\* been ingested are linked to the event (_run_transcript_pipeline links last).
THEOREM NotesTypeCorrect == Spec => []TypeOK
  <1>1. Init => TypeInv
    BY InitTyped
  <1>2. TypeInv /\ [Next]_vars => TypeInv'
    BY StepTyped
  <1> QED
    BY <1>1, <1>2, Implied, PTL DEF Spec

-----------------------------------------------------------------------------
(* Notes and documents of one recording *)

\* The links of the event, and what a request or a pipeline has seen of them.
Reading(q) == pipe[q].at \in {"loaded", "linking"}
View(l) == \/ event # None /\ l = event.links
           \/ \E q \in Recordings : Reading(q) /\ l = pipe[q].seen

OneFailure == \A q, r \in Recordings :
    pipe[q].summary = NoText /\ pipe[r].summary = NoText => q = r

\* Links that agree, of recordings that are done with.
Good(l) ==
    /\ l.summary = l.transcript
    /\ OneFailure => IF l.transcript = None THEN l.notes = None
                                            ELSE l.notes \in {l.transcript, NoText}
    /\ \A r \in Recordings :
         r \in {l.notes, l.transcript, l.summary} => pipe[r].at = "done"
    /\ l.notes = NoText =>
         \E q \in Recordings : pipe[q].at = "done" /\ pipe[q].summary = NoText

ViewInv == \A l \in Links : View(l) => Good(l)

\* Pipelines that are done stay so, and keep their summary.
Onward == \A r \in Recordings :
    /\ pipe[r].at = "done" => pipe'[r].at = "done"
    /\ pipe[r].summary = NoText => pipe'[r].summary = NoText

LEMMA GoodStays ==
    ASSUME Onward, NEW l \in Links, Good(l)
    PROVE  Good(l)'
  <1>1. OneFailure' => OneFailure
    BY DEF Onward, OneFailure
  <1> QED
    BY <1>1 DEF Good, Onward

\* Nothing new is seen.
LEMMA ViewsStay ==
    ASSUME ViewInv, Onward, \A l \in Links : View(l)' => View(l)
    PROVE  ViewInv'
  BY GoodStays DEF ViewInv

LEMMA OneMoves ==
    ASSUME TypeInv, NEW r \in Recordings, NEW p,
           pipe' = [pipe EXCEPT ![r] = p], pipe[r].at # "done",
           pipe[r].summary = NoText => p.summary = NoText
    PROVE  /\ Onward /\ pipe'[r] = p
           /\ \A q \in Recordings \ {r} : pipe'[q] = pipe[q]
  BY DEF TypeInv, ShapeOK, Onward

\* A pipeline moves; what it sees afterwards it saw, or the event shows.
LEMMA MoveViews ==
    ASSUME TypeInv, ViewInv, NEW r \in Recordings, NEW p,
           pipe' = [pipe EXCEPT ![r] = p], pipe[r].at # "done",
           pipe[r].summary = NoText => p.summary = NoText,
           UNCHANGED event,
           p.at \in {"loaded", "linking"} => event # None /\ p.seen = event.links
    PROVE  ViewInv'
  <1>1. /\ Onward /\ pipe'[r] = p
        /\ \A q \in Recordings \ {r} : pipe'[q] = pipe[q]
    BY OneMoves
  <1>2. \A l \in Links : View(l)' => View(l)
    BY <1>1 DEF View, Reading
  <1> QED
    BY <1>1, <1>2, ViewsStay

\* The row is written: what to show of the links it has then.
LEMMA WriteViews ==
    ASSUME TypeInv, ViewInv, NEW r \in Recordings, NEW p,
           pipe' = [pipe EXCEPT ![r] = p], pipe[r].at # "done",
           pipe[r].summary = NoText => p.summary = NoText,
           p.at \notin {"loaded", "linking"},
           event' # None => Good(event.links)'
    PROVE  ViewInv'
  <1>1. /\ Onward /\ pipe'[r] = p
        /\ \A q \in Recordings \ {r} : pipe'[q] = pipe[q]
    BY OneMoves
  <1>2. ASSUME NEW l \in Links, View(l)'
        PROVE  View(l) \/ (event' # None /\ l = event'.links)
    BY <1>1, <1>2 DEF View, Reading
  <1>3. ASSUME NEW l \in Links, View(l)'
        PROVE  Good(l)'
    <2>1. CASE View(l)
      BY <1>1, <2>1, GoodStays DEF ViewInv
    <2>2. CASE event' # None /\ l = event'.links
      BY <2>2 DEF Good
    <2> QED BY <1>2, <1>3, <2>1, <2>2
  <1> QED
    BY <1>3 DEF ViewInv

\* A reset over what was loaded leaves links that agree.
LEMMA ResetGood ==
    ASSUME TypeInv, NEW now \in Links, NEW seen \in Links, Good(now), Good(seen),
           NEW l, l = [notes |-> Column(now.notes, seen.notes, None),
                       transcript |-> Column(now.transcript, seen.transcript, None),
                       summary |-> Column(now.summary, seen.summary, None)]
    PROVE  Good(l)
  <1>1. /\ l.notes = Column(now.notes, seen.notes, None)
        /\ l.transcript = Column(now.transcript, seen.transcript, None)
        /\ l.summary = Column(now.summary, seen.summary, None)
    OBVIOUS
  <1>2. /\ l.notes \in {now.notes, None} /\ l.transcript \in {now.transcript, None}
        /\ l.summary \in {now.summary, None}
    BY <1>1 DEF Column
  <1>3. l.summary = l.transcript
    BY <1>1 DEF Good, Column
  <1>4. OneFailure => IF l.transcript = None THEN l.notes = None
                                             ELSE l.notes \in {l.transcript, NoText}
    <2> SUFFICES ASSUME OneFailure
                 PROVE  IF l.transcript = None THEN l.notes = None
                                               ELSE l.notes \in {l.transcript, NoText}
      OBVIOUS
    <2>1. CASE seen.transcript = None
      BY <1>1, <2>1 DEF Good, Column
    <2>2. CASE seen.transcript # None
      <3>1. seen.transcript \in Recordings
        BY <2>2 DEF Links
      <3>2. seen.notes # None
        BY <2>2, <3>1, NoneApart DEF Good
      <3> QED BY <1>1, <2>2, <3>2 DEF Column
    <2> QED BY <2>1, <2>2
  <1> QED
    BY <1>2, <1>3, <1>4, NoneApart DEF Good

\* What a pipeline links is its own, unless two summaries have failed.
LEMMA LinkGood ==
    ASSUME TypeInv, NEW r \in Recordings, pipe[r].at = "linking",
           NEW now \in Links, NEW seen \in Links, Good(now), Good(seen),
           NEW p, pipe' = [pipe EXCEPT ![r] = p], p.at = "done",
           p.summary = pipe[r].summary,
           NEW l, l = [notes |-> Column(now.notes, seen.notes, pipe[r].summary),
                       transcript |-> Column(now.transcript, seen.transcript, r),
                       summary |-> Column(now.summary, seen.summary, r)]
    PROVE  Good(l)'
  <1>0. /\ pipe[r].summary \in {r, NoText} /\ r # None /\ r # NoText
        /\ NoText \notin Recordings
    BY NoneApart DEF TypeInv, SummaryInv, SummaryOK
  <1>1. /\ Onward /\ pipe'[r] = p
        /\ \A q \in Recordings \ {r} : pipe'[q] = pipe[q]
    BY OneMoves
  <1>2. r \notin {seen.notes, seen.transcript, seen.summary}
    BY DEF Good
  <1>3. l.transcript = r /\ l.summary = r
    BY <1>2 DEF Column
  <1>4. l.notes = Column(now.notes, seen.notes, pipe[r].summary)
    OBVIOUS
  <1>5. l.notes \in {now.notes, r, NoText} /\ (l.notes = NoText =>
          now.notes = NoText \/ pipe[r].summary = NoText)
    BY <1>0, <1>4 DEF Column
  <1>6. OneFailure' => l.notes \in {r, NoText}
    <2>1. CASE seen.notes # pipe[r].summary
      BY <1>0, <1>4, <2>1 DEF Column
    <2>2. CASE seen.notes = pipe[r].summary
      <3>1. pipe[r].summary = NoText /\ seen.notes = NoText
        BY <1>0, <1>2, <2>2
      <3>2. PICK q \in Recordings : pipe[q].at = "done" /\ pipe[q].summary = NoText
        BY <3>1 DEF Good
      <3>3. q # r /\ pipe'[q].summary = NoText /\ pipe'[r].summary = NoText
        BY <1>1, <3>1, <3>2
      <3> QED BY <3>3 DEF OneFailure
    <2> QED BY <2>1, <2>2
  <1>7. \A q \in Recordings :
          q \in {l.notes, l.transcript, l.summary} => pipe'[q].at = "done"
    <2>1. \A q \in Recordings : q = now.notes => pipe'[q].at = "done"
      BY <1>1 DEF Good, Onward
    <2> QED BY <1>0, <1>1, <1>3, <1>5, <2>1
  <1>8. l.notes = NoText =>
          \E q \in Recordings : pipe'[q].at = "done" /\ pipe'[q].summary = NoText
    <2>1. CASE now.notes = NoText
      BY <1>1, <2>1 DEF Good, Onward
    <2>2. CASE pipe[r].summary = NoText
      BY <1>1, <2>2
    <2> QED BY <1>5, <2>1, <2>2
  <1> QED
    BY <1>0, <1>3, <1>6, <1>7, <1>8 DEF Good

LEMMA ViewStep ==
    ASSUME TypeInv, ViewInv, [Next]_vars
    PROVE  ViewInv'
  <1>0. /\ ShapeOK /\ \A r \in Recordings : HandOK(pipe[r]) /\ SummaryOK(r, pipe[r])
        /\ event # None => event.links \in Links
    BY DEF TypeInv, ShapeOK, HandInv, SummaryInv, Event
  <1>1. ASSUME NEW r \in Recordings, Upload(r) \/ LoadToLink(r)
        PROVE  ViewInv'
    <2>1. PICK p : /\ pipe' = [pipe EXCEPT ![r] = p] /\ p.summary = pipe[r].summary
                   /\ p.at \in {"loaded", "linking"} =>
                        event # None /\ p.seen = event.links
      <3>1. CASE Upload(r)
        <4>1. PICK p : p = [pipe[r] EXCEPT !.at = "loaded", !.seen = event.links]
          OBVIOUS
        <4>2. p.summary = pipe[r].summary /\ p.seen = event.links
          BY <1>0, <4>1 DEF ShapeOK, Pipe
        <4>3. pipe' = [pipe EXCEPT ![r] = p] /\ event # None
          BY <1>0, <3>1, <4>1 DEF Upload, ShapeOK
        <4> QED BY <4>2, <4>3
      <3>2. CASE LoadToLink(r) /\ event = None
        <4>1. PICK p : p = Ended(r, "done")
          OBVIOUS
        <4>2. p.summary = pipe[r].summary /\ p.at = "done"
          BY <1>0, <4>1, EndType
        <4>3. pipe' = [pipe EXCEPT ![r] = p]
          BY <1>0, <3>2, <4>1 DEF LoadToLink, ShapeOK
        <4> QED BY <4>2, <4>3
      <3>3. CASE LoadToLink(r) /\ event # None
        <4>1. PICK p : p = [pipe[r] EXCEPT !.at = "linking", !.name = None,
                                           !.seen = event.links]
          OBVIOUS
        <4>2. p.summary = pipe[r].summary /\ p.seen = event.links
          BY <1>0, <4>1 DEF ShapeOK, Pipe
        <4>3. pipe' = [pipe EXCEPT ![r] = p]
          BY <1>0, <3>3, <4>1 DEF LoadToLink, ShapeOK
        <4> QED BY <3>3, <4>2, <4>3
      <3> QED BY <1>1, <3>1, <3>2, <3>3
    <2>2. UNCHANGED event /\ pipe[r].at # "done"
      BY <1>1 DEF Upload, LoadToLink
    <2> QED BY <2>1, <2>2, MoveViews
  <1>2. ASSUME NEW r \in Recordings, Accept(r)
        PROVE  ViewInv'
    <2>1. PICK p : p = [pipe[r] EXCEPT !.at = "queued", !.seen = None]
      OBVIOUS
    <2>2. p.at = "queued" /\ p.summary = pipe[r].summary
      BY <1>0, <2>1 DEF ShapeOK, Pipe
    <2>3. /\ pipe[r].at = "loaded" /\ event # None
          /\ event' = Written(pipe[r].seen, None, None, None)
          /\ pipe' = [pipe EXCEPT ![r] = p]
      BY <1>0, <1>2, <2>1 DEF Accept, ResetNotes, ShapeOK
    <2>4. PICK now \in Links, seen \in Links : now = event.links /\ seen = pipe[r].seen
      BY <1>0, <2>3 DEF HandOK
    <2>5. Good(now) /\ Good(seen)
      BY <2>3, <2>4 DEF ViewInv, View, Reading
    <2>6. PICK l : l = [notes |-> Column(now.notes, seen.notes, None),
                        transcript |-> Column(now.transcript, seen.transcript, None),
                        summary |-> Column(now.summary, seen.summary, None)]
      OBVIOUS
    <2>7. event'.links = l /\ l \in Links
      <3>1. /\ event' \in Event /\ event'.links = l
        BY <1>0, <2>3, <2>4, <2>6, NoneApart, WrittenType
      <3> QED BY <3>1 DEF Event
    <2>8. Good(l)
      BY <2>5, <2>6, ResetGood
    <2>9. Good(event.links)'
      <3>1. Onward
        BY <2>2, <2>3, OneMoves
      <3>2. Good(l)'
        BY <2>7, <2>8, <3>1, GoodStays
      <3> QED BY <2>7, <3>2 DEF Good
    <2> QED BY <2>2, <2>3, <2>9, WriteViews
  <1>3. ASSUME NEW r \in Recordings,
               \/ Reject(r) \/ Fetch(r) \/ TranscriptionFails(r) \/ Store(r)
               \/ WriteFails(r) \/ DatabaseFails(r) \/ Ingest(r) \/ \E text \in Texts : Summarise(r, text)
        PROVE  ViewInv'
    <2>1. /\ UNCHANGED event /\ pipe[r].at # "done"
          /\ \A q \in Recordings \ {r} : pipe'[q] = pipe[q]
          /\ pipe'[r].at \notin {"loaded", "linking"}
          /\ pipe[r].summary = NoText => pipe'[r].summary = NoText
      <3>1. CASE Reject(r) \/ TranscriptionFails(r) \/ WriteFails(r) \/ DatabaseFails(r)
        <4>1. PICK p : /\ p = Ended(r, "stopped") /\ p.at = "stopped"
                       /\ p.summary = pipe[r].summary
          BY <1>0, EndType
        <4>2. pipe' = [pipe EXCEPT ![r] = p] /\ UNCHANGED event /\ pipe[r].at # "done"
          BY <3>1, <4>1 DEF Reject, TranscriptionFails, WriteFails, DatabaseFails
        <4> QED BY <1>0, <4>1, <4>2 DEF ShapeOK
      <3>2. CASE Fetch(r)
        <4>1. CASE event = None
          BY <1>0, <3>2, <4>1, EndType DEF Fetch, ShapeOK
        <4>2. CASE event # None
          BY <1>0, <3>2, <4>2 DEF Fetch, ShapeOK, Pipe
        <4> QED BY <4>1, <4>2
      <3>3. CASE Store(r) \/ Ingest(r)
        BY <1>0, <3>3 DEF Store, Ingest, IngestOne, Goto, ShapeOK, Pipe
      <3>4. CASE \E text \in Texts : Summarise(r, text)
        <4>1. pipe[r].at = "transcribe" /\ pipe[r].summary # NoText
          BY <1>0, <3>4, NoneApart DEF Summarise, SummaryOK
        <4>2. PICK text \in Texts : Summarise(r, text)
          BY <3>4
        <4>3. PICK p : p = [pipe[r] EXCEPT !.at = "store", !.summary = text]
          OBVIOUS
        <4>4. p.at = "store"
          BY <1>0, <4>3 DEF ShapeOK, Pipe
        <4>5. pipe' = [pipe EXCEPT ![r] = p] /\ UNCHANGED event
          BY <1>0, <4>2, <4>3 DEF Summarise, ShapeOK
        <4> QED BY <1>0, <4>1, <4>4, <4>5 DEF ShapeOK
      <3> QED BY <1>3, <3>1, <3>2, <3>3, <3>4
    <2>2. Onward /\ \A l \in Links : View(l)' => View(l)
      BY <2>1 DEF Onward, View, Reading
    <2> QED BY <2>2, ViewsStay
  <1>4. ASSUME NEW r \in Recordings, Link(r)
        PROVE  ViewInv'
    <2>1. PICK p : p = Ended(r, "done") /\ p.at = "done" /\ p.summary = pipe[r].summary
      BY <1>0, EndType
    <2>2. pipe' = [pipe EXCEPT ![r] = p] /\ pipe[r].at = "linking"
      BY <1>4, <2>1 DEF Link
    <2>3. event' # None => Good(event.links)'
      <3>1. CASE event = None
        BY <1>4, <3>1 DEF Link
      <3>2. CASE event # None
        <4>1. PICK now \in Links, seen \in Links : now = event.links /\ seen = pipe[r].seen
          BY <1>0, <2>2, <3>2 DEF HandOK
        <4>2. Good(now) /\ Good(seen)
          BY <2>2, <3>2, <4>1 DEF ViewInv, View, Reading
        <4>3. PICK l : l = [notes |-> Column(now.notes, seen.notes, pipe[r].summary),
                            transcript |-> Column(now.transcript, seen.transcript, r),
                            summary |-> Column(now.summary, seen.summary, r)]
          OBVIOUS
        <4>4. event'.links = l
          <5>1. event' = Written(seen, pipe[r].summary, r, r)
            BY <1>4, <3>2, <4>1 DEF Link
          <5>2. pipe[r].summary \in Texts
            BY <1>0, NoneApart DEF SummaryOK
          <5> QED BY <1>0, <3>2, <4>1, <4>3, <5>1, <5>2, WrittenType
        <4>5. Good(l)'
          BY <2>1, <2>2, <4>2, <4>3, LinkGood
        <4> QED BY <4>4, <4>5 DEF Good
      <3> QED BY <3>1, <3>2
    <2> QED BY <2>1, <2>2, <2>3, WriteViews
  <1>5. CASE \/ \E n \in Names : EditEvent(n)
             \/ DeleteEvent \/ UNCHANGED vars
    <2>1. UNCHANGED pipe /\ (event' # None => event # None /\ event'.links = event.links)
      BY <1>0, <1>5 DEF EditEvent, DeleteEvent, vars, ShapeOK, Event
    <2>2. Onward /\ \A l \in Links : View(l)' => View(l)
      BY <2>1 DEF Onward, View, Reading
    <2> QED BY <2>2, ViewsStay
  <1>6. CASE Restart
    <2>1. /\ UNCHANGED event
          /\ \A r \in Recordings :
               /\ pipe'[r].summary = pipe[r].summary
               /\ pipe'[r] = pipe[r] \/ (pipe[r].at # "done" /\ pipe'[r].at = "stopped")
      BY <1>0, <1>6, EndType DEF Restart, Active
    <2>2. Onward /\ \A l \in Links : View(l)' => View(l)
      BY <2>1 DEF Onward, View, Reading
    <2> QED BY <2>2, ViewsStay
  <1> QED
    BY <1>1, <1>2, <1>3, <1>4, <1>5, <1>6 DEF Next, Step

\* An event's documents and notes are of one recording, however uploads and
\* pipelines overlap, unless two summaries have failed (the "transcript",
\* "summary" and "notes" columns written by _run_transcript_pipeline).
THEOREM NotesAndDocumentsAgree == Spec => []NotesComeTogether
  <1>1. Init => TypeInv /\ ViewInv
    <2> SUFFICES ASSUME Init PROVE ViewInv
      BY InitTyped
    <2>1. /\ \A q \in Recordings : pipe[q].at = "none" /\ ~Reading(q)
          /\ event.links = NoLinks
      BY DEF Init, Reading
    <2>2. Good(NoLinks)
      BY NoneApart DEF Good, NoLinks
    <2> QED BY <2>1, <2>2 DEF ViewInv, View
  <1>2. TypeInv /\ ViewInv /\ [Next]_vars => TypeInv' /\ ViewInv'
    BY StepTyped, ViewStep
  <1>3. TypeInv /\ ViewInv => NotesComeTogether
    <2> SUFFICES ASSUME TypeInv, ViewInv, event # None PROVE NotesComeTogether
      BY DEF NotesComeTogether
    <2>1. event.links \in Links
      BY DEF TypeInv, ShapeOK, Event
    <2>2. Good(event.links)
      BY <2>1 DEF ViewInv, View
    <2> QED BY <2>2 DEF Good, OneFailure, NotesComeTogether
  <1> QED
    BY <1>1, <1>2, <1>3, PTL DEF Spec

-----------------------------------------------------------------------------
(* Documents that hold their own recording *)

Own(r, k) == IF k = "transcript" THEN r ELSE pipe[r].summary

\* Alone is what ran beside no other upload.
AloneInv == \A q, r \in Active : q # r => q \in crowded /\ r \in crowded

\* Then the files of the event hold its texts until its documents do.
OwnOf(r) ==
    /\ pipe[r].at \in {"store", "ingest", "ingest2"} =>
         \A k \in Kinds : file[k][pipe[r].name] = Own(r, k)
    /\ \A k \in Kinds : doc[r][k].status = "ready" => doc[r][k].text = Own(r, k)

OwnInv == AloneInv /\ \A r \in Recordings \ crowded : OwnOf(r)

\* A recording that is alone keeps what it has, when others move.
LEMMA OwnStays ==
    ASSUME TypeInv, OwnInv, crowded \subseteq crowded', NEW r \in Recordings \ crowded',
           \/ pipe'[r] = pipe[r] /\ UNCHANGED file
           \/ pipe'[r].at \notin {"store", "ingest", "ingest2"},
           pipe'[r].summary = pipe[r].summary, doc'[r] = doc[r]
    PROVE  OwnOf(r)'
  BY DEF OwnInv, OwnOf, Own

\* Whoever moves is alone, or crowded.
LEMMA ActiveMoves ==
    ASSUME TypeInv, OwnInv, NEW r \in Active, pipe'[r].at # "none",
           \A q \in Recordings \ {r} : pipe'[q].at = pipe[q].at, UNCHANGED crowded
    PROVE  /\ AloneInv'
           /\ \A q \in Recordings \ {r} : q \in Active => q \in crowded
  BY DEF OwnInv, AloneInv, Active

LEMMA OwnRequests ==
    ASSUME TypeInv, OwnInv,
           \/ \E r \in Recordings : Upload(r)
           \/ \E n \in Names : EditEvent(n)
           \/ DeleteEvent \/ Restart \/ UNCHANGED vars
    PROVE  OwnInv'
  <1>0. ShapeOK
    BY DEF TypeInv
  <1>1. ASSUME NEW r \in Recordings, Upload(r)
        PROVE  OwnInv'
    <2>1. /\ UNCHANGED <<file, doc>> /\ pipe[r].at = "none"
          /\ pipe'[r].at = "loaded" /\ pipe'[r].summary = pipe[r].summary
          /\ \A q \in Recordings \ {r} : pipe'[q] = pipe[q]
      <3>1. PICK p : p = [pipe[r] EXCEPT !.at = "loaded", !.seen = event.links]
        OBVIOUS
      <3>2. p.at = "loaded" /\ p.summary = pipe[r].summary
        BY <1>0, <3>1 DEF ShapeOK, Pipe
      <3>3. pipe' = [pipe EXCEPT ![r] = p] /\ UNCHANGED <<file, doc>> /\ pipe[r].at = "none"
        BY <1>0, <1>1, <3>1 DEF Upload, ShapeOK
      <3> QED BY <1>0, <3>2, <3>3 DEF ShapeOK
    <2>2. crowded' = IF Active = {} THEN crowded ELSE crowded \cup Active \cup {r}
      BY <1>1 DEF Upload
    <2>3. Active' \subseteq Active \cup {r} /\ crowded \subseteq crowded'
      BY <2>1, <2>2 DEF Active
    <2>4. AloneInv'
      BY <2>2, <2>3 DEF OwnInv, AloneInv
    <2>5. \A q \in Recordings \ crowded' : OwnOf(q)'
      BY <2>1, <2>3, OwnStays
    <2> QED BY <2>4, <2>5 DEF OwnInv
  <1>2. CASE \/ \E n \in Names : EditEvent(n)
             \/ DeleteEvent \/ UNCHANGED vars
    <2>1. UNCHANGED <<pipe, file, doc, crowded>>
      BY <1>2 DEF EditEvent, DeleteEvent, vars
    <2> QED BY <2>1 DEF OwnInv, AloneInv, Active, OwnOf, Own
  <1>3. CASE Restart
    <2>1. /\ UNCHANGED <<file, doc, crowded>> /\ Active' = {}
          /\ \A r \in Recordings :
               /\ pipe'[r].summary = pipe[r].summary
               /\ pipe'[r] = pipe[r] \/ pipe'[r].at = "stopped"
      BY <1>0, <1>3, EndType DEF Restart, Active
    <2>2. \A r \in Recordings \ crowded' : OwnOf(r)'
      BY <2>1, OwnStays
    <2> QED BY <2>1, <2>2 DEF OwnInv, AloneInv
  <1> QED
    BY <1>1, <1>2, <1>3

LEMMA OwnSteps ==
    ASSUME TypeInv, OwnInv, NEW r \in Recordings, Step(r)
    PROVE  OwnInv'
  <1>0. /\ ShapeOK /\ pipe[r] \in Pipe /\ HandOK(pipe[r]) /\ SummaryOK(r, pipe[r])
        /\ DocsOf(r)
    BY DEF TypeInv, ShapeOK, HandInv, SummaryInv, DocsInv
  <1>1. /\ r \in Active /\ UNCHANGED crowded /\ pipe'[r].at # "none"
        /\ \A q \in Recordings \ {r} : pipe'[q] = pipe[q]
    <2>1. CASE Accept(r) \/ Store(r) \/ Ingest(r)
      BY <1>0, <2>1
      DEF Accept, Store, Ingest, IngestOne, Goto, Active, ShapeOK, Pipe
    <2>2. CASE Reject(r) \/ TranscriptionFails(r) \/ Link(r)
      BY <1>0, <2>2, EndType DEF Reject, TranscriptionFails, Link, Active, ShapeOK
    <2>7. CASE WriteFails(r) \/ DatabaseFails(r)
      <3>1. PICK p : p = Ended(r, "stopped") /\ p.at = "stopped"
        BY <1>0, EndType
      <3>2. /\ pipe' = [pipe EXCEPT ![r] = p] /\ UNCHANGED crowded
            /\ pipe[r].at \notin {"none", "done", "stopped"}
        BY <2>7, <3>1 DEF WriteFails, DatabaseFails
      <3> QED BY <1>0, <3>1, <3>2 DEF Active, ShapeOK
    <2>3. CASE (Fetch(r) \/ LoadToLink(r)) /\ event = None
      BY <1>0, <2>3, EndType DEF Fetch, LoadToLink, Active, ShapeOK
    <2>4. CASE Fetch(r) /\ event # None
      BY <1>0, <2>4 DEF Fetch, Active, ShapeOK, Pipe
    <2>5. CASE LoadToLink(r) /\ event # None
      BY <1>0, <2>5 DEF LoadToLink, Active, ShapeOK, Pipe
    <2>6. CASE \E text \in Texts : Summarise(r, text)
      BY <1>0, <2>6 DEF Summarise, Active, ShapeOK, Pipe
    <2> QED BY <2>1, <2>2, <2>3, <2>4, <2>5, <2>6, <2>7 DEF Step
  <1>2. /\ AloneInv'
        /\ \A q \in Recordings \ {r} : q \in Active => q \in crowded
    BY <1>1, ActiveMoves
  <1>3. \A q \in Recordings \ {r} : doc'[q] = doc[q]
    <2>1. CASE Store(r) \/ Ingest(r)
      BY <1>0, <2>1 DEF Store, Ingest, IngestOne, Ingested, ShapeOK
    <2>2. CASE ~(Store(r) \/ Ingest(r))
      <3>1. UNCHANGED doc
        BY <2>2 DEF Step, Accept, Reject, Fetch, TranscriptionFails, Summarise,
           WriteFails, DatabaseFails, LoadToLink, Link
      <3> QED BY <3>1
    <2> QED BY <2>1, <2>2
  <1>4. ASSUME NEW q \in Recordings \ {r}, q \notin crowded'
        PROVE  OwnOf(q)'
    <2>1. q \notin Active
      BY <1>1, <1>2, <1>4
    <2>2. pipe[q].at \notin {"store", "ingest", "ingest2"}
      BY <2>1 DEF Active
    <2> QED BY <1>1, <1>3, <1>4, <2>2, OwnStays
  <1>5. ASSUME r \notin crowded'
        PROVE  OwnOf(r)'
    <2>0. OwnOf(r)
      BY <1>1, <1>5 DEF OwnInv
    <2>1. CASE \/ Accept(r) \/ Reject(r) \/ Fetch(r) \/ TranscriptionFails(r)
               \/ LoadToLink(r) \/ Link(r)
      <3>1. UNCHANGED doc
        BY <2>1 DEF Accept, Reject, Fetch, TranscriptionFails, LoadToLink, Link
      <3>2. /\ pipe'[r].summary = pipe[r].summary
            /\ pipe'[r].at \notin {"store", "ingest", "ingest2"}
        <4>1. CASE Accept(r)
          BY <1>0, <4>1 DEF Accept, ShapeOK, Pipe
        <4>2. CASE Reject(r) \/ TranscriptionFails(r) \/ Link(r)
          BY <1>0, <4>2, EndType DEF Reject, TranscriptionFails, Link, ShapeOK
        <4>3. CASE Fetch(r) /\ event = None
          BY <1>0, <4>3, EndType DEF Fetch, ShapeOK
        <4>4. CASE Fetch(r) /\ event # None
          BY <1>0, <4>4 DEF Fetch, ShapeOK, Pipe
        <4>5. CASE LoadToLink(r) /\ event = None
          BY <1>0, <4>5, EndType DEF LoadToLink, ShapeOK
        <4>6. CASE LoadToLink(r) /\ event # None
          BY <1>0, <4>6 DEF LoadToLink, ShapeOK, Pipe
        <4> QED BY <2>1, <4>1, <4>2, <4>3, <4>4, <4>5, <4>6
      <3> QED BY <1>1, <1>5, <3>1, <3>2, OwnStays
    <2>2. ASSUME NEW text \in Texts, Summarise(r, text)
          PROVE  OwnOf(r)'
      <3>1. PICK p : p = [pipe[r] EXCEPT !.at = "store", !.summary = text]
        OBVIOUS
      <3>2. p.name = pipe[r].name /\ p.summary = text /\ p.at = "store"
        BY <1>0, <3>1 DEF Pipe
      <3>3. pipe' = [pipe EXCEPT ![r] = p] /\ UNCHANGED doc /\ pipe[r].at = "transcribe"
        BY <1>0, <2>2, <3>1 DEF Summarise, ShapeOK
      <3>4. pipe'[r] = p
        BY <1>0, <3>3 DEF ShapeOK
      <3>5. \A k \in Kinds : doc[r][k].status = "none"
        BY <1>0, <3>3 DEF DocsOf, Unstored
      <3>6. /\ file'["transcript"][pipe[r].name] = r
            /\ file'["summary"][pipe[r].name] = text
        BY <1>0, <2>2, <3>3, NoneApart, FileType DEF Summarise, HandOK
      <3> QED BY <3>2, <3>3, <3>4, <3>5, <3>6 DEF OwnOf, Own, Kinds
    <2>3. CASE Store(r)
      <3>1. /\ pipe[r].at = "store" /\ pipe'[r].name = pipe[r].name
            /\ pipe'[r].summary = pipe[r].summary /\ UNCHANGED file
        BY <1>0, <2>3 DEF Store, Goto, ShapeOK, Pipe
      <3>2. \A k \in Kinds : doc'[r][k].status = "pending"
        BY <1>0, <2>3 DEF Store, ShapeOK
      <3> QED BY <2>0, <3>1, <3>2 DEF OwnOf, Own
    <2>4. ASSUME NEW k \in Kinds, NEW next \in {"ingest2", "link"},
                 IngestOne(r, k, next), UNCHANGED <<event, file, crowded>>,
                 pipe[r].at \in {"ingest", "ingest2"}
          PROVE  OwnOf(r)'
      <3>1. /\ pipe'[r].name = pipe[r].name /\ pipe'[r].summary = pipe[r].summary
        BY <1>0, <2>4 DEF IngestOne, Goto, ShapeOK, Pipe
      <3>2. \A j \in Kinds : file[j][pipe[r].name] = Own(r, j)
        BY <2>0, <2>4 DEF OwnOf
      <3>3. \A j \in Kinds : Own(r, j)' = Own(r, j)
        BY <3>1 DEF Own
      <3>4. \A j \in Kinds : doc'[r][j].status = "ready" => doc'[r][j].text = Own(r, j)
        <4>1. doc \in [Recordings -> [Kinds -> Document]]
          BY <1>0 DEF ShapeOK
        <4>2. CASE Ingested(r, k)
          <5>1. PICK e : e = [status |-> "ready", text |-> file[k][pipe[r].name]]
            OBVIOUS
          <5>2. doc' = [doc EXCEPT ![r][k] = e] /\ e.text = Own(r, k)
            BY <3>2, <4>2, <5>1 DEF Ingested
          <5>3. \A j \in Kinds \ {k} : doc'[r][j] = doc[r][j]
            BY <4>1, <5>2
          <5>4. doc'[r][k] = e
            BY <4>1, <5>2
          <5> QED BY <2>0, <5>2, <5>3, <5>4 DEF OwnOf
        <4>3. CASE doc' = [doc EXCEPT ![r][k].status = "failed"]
          <5>1. /\ doc'[r][k].status = "failed"
                /\ \A j \in Kinds \ {k} : doc'[r][j] = doc[r][j]
            BY <4>1, <4>3 DEF Document
          <5> QED BY <2>0, <5>1 DEF OwnOf
        <4> QED BY <2>4, <4>2, <4>3 DEF IngestOne
      <3> QED BY <2>4, <3>1, <3>2, <3>3, <3>4 DEF OwnOf
    <2>5. CASE WriteFails(r) \/ DatabaseFails(r)
      <3>1. PICK p : p = Ended(r, "stopped") /\ p.at = "stopped" /\ p.summary = pipe[r].summary
        BY <1>0, EndType
      <3>2. pipe' = [pipe EXCEPT ![r] = p] /\ UNCHANGED doc
        BY <2>5, <3>1 DEF WriteFails, DatabaseFails
      <3>3. pipe'[r] = p
        BY <1>0, <3>2 DEF ShapeOK
      <3> QED BY <1>1, <1>5, <3>1, <3>2, <3>3, OwnStays
    <2> QED BY <2>1, <2>2, <2>3, <2>4, <2>5 DEF Step, Ingest, Kinds
  <1> QED
    BY <1>1, <1>2, <1>4, <1>5 DEF OwnInv

LEMMA OwnStep ==
    ASSUME TypeInv, OwnInv, [Next]_vars
    PROVE  OwnInv'
  BY OwnRequests, OwnSteps DEF Next

\* The documents linked to an event are ingested from their own recording's
\* files, when it was uploaded alone: the file names are the event's, and a
\* second upload overwrites them (_run_transcript_pipeline).
THEOREM LinkedDocumentsHoldTheirOwn == Spec => []LinkedDocumentsAreItsOwn
  <1>1. Init => TypeInv /\ OwnInv
    <2> SUFFICES ASSUME Init PROVE OwnInv
      BY InitTyped
    <2>1. Active = {}
      BY DEF Init, Active
    <2>2. \A r \in Recordings : OwnOf(r)
      BY DEF Init, OwnOf, NoDocument
    <2> QED BY <2>1, <2>2 DEF OwnInv, AloneInv
  <1>2. TypeInv /\ OwnInv /\ [Next]_vars => TypeInv' /\ OwnInv'
    BY StepTyped, OwnStep
  <1>3. OwnInv => LinkedDocumentsAreItsOwn
    BY DEF OwnInv, OwnOf, Own, LinkedDocumentsAreItsOwn
  <1> QED
    BY <1>1, <1>2, <1>3, PTL DEF Spec

-----------------------------------------------------------------------------
(* Reminders *)

CONSTANTS Events, Period, Reach, MaxClock
VARIABLES clock, wake, sweep, row, reminded, mended

R == INSTANCE Reminders

\* A sweep holds events nobody has been reminded of, and while it runs
\* nothing else sets a flag.
SweepInv ==
    /\ R!Asleep => sweep = {}
    /\ \A e \in sweep : reminded[e] = 0

LEMMA InitOnce ==
    ASSUME MaxClock \in Nat, Period \in Nat, None \notin Nat
    PROVE  R!Init => R!TypeOK /\ R!RemindedOnce /\ SweepInv
  <1> SUFFICES ASSUME R!Init PROVE R!TypeOK /\ R!RemindedOnce /\ SweepInv
    OBVIOUS
  <1>1. clock \in R!Times
    BY DEF R!Init, R!Times
  <1>2. R!TypeOK
    BY <1>1 DEF R!Init, R!TypeOK
  <1>3. R!RemindedOnce
    BY DEF R!Init, R!RemindedOnce
  <1>4. SweepInv
    BY DEF R!Init, SweepInv
  <1> QED
    BY <1>2, <1>3, <1>4

\* A handler of calendar.py writes one row, and its flag as it was.
LEMMA OtherRowsStay ==
    ASSUME R!TypeOK, R!RemindedOnce, SweepInv,
           NEW e \in Events, NEW new \in R!Row \cup {None},
           row' = [row EXCEPT ![e] = new],
           new # None => new.sent = (reminded[e] = 1),
           UNCHANGED <<clock, wake, sweep, reminded, mended>>
    PROVE  (R!TypeOK /\ R!RemindedOnce /\ SweepInv)'
  <1>1. R!TypeOK'
    BY DEF R!TypeOK
  <1>2. \A x \in Events : row'[x] = IF x = e THEN new ELSE row[x]
    BY DEF R!TypeOK
  <1>3. R!RemindedOnce'
    BY <1>2 DEF R!RemindedOnce
  <1>4. SweepInv'
    BY DEF SweepInv, R!Asleep
  <1> QED
    BY <1>1, <1>3, <1>4

LEMMA StepOnce ==
    ASSUME MaxClock \in Nat, Period \in Nat, None \notin Nat,
           R!TypeOK, R!RemindedOnce, SweepInv, [R!Next]_(R!vars)
    PROVE  (R!TypeOK /\ R!RemindedOnce /\ SweepInv)'
  <1>1. clock \in Nat /\ clock + Period \in Nat /\ clock + Period # None
    BY DEF R!TypeOK, R!Times
  <1>2. CASE R!Tick
    <2>1. clock' \in R!Times
      BY <1>2 DEF R!Tick, R!TypeOK, R!Times
    <2> QED BY <1>2, <2>1
           DEF R!Tick, R!TypeOK, R!RemindedOnce, SweepInv, R!Asleep
  <1>3. CASE R!Load
    BY <1>3 DEF R!Load, R!TypeOK, R!RemindedOnce, SweepInv, R!Asleep
  <1>4. CASE R!Commit
    <2>1. ASSUME NEW e \in Events
          PROVE  /\ row'[e] \in R!Row \cup {None} /\ reminded'[e] \in {0, 1}
                 /\ row'[e] # None => row'[e].sent = (reminded'[e] = 1)
      <3>1. CASE e \in sweep
        <4>1. row[e] \in R!Row /\ reminded[e] = 0
          BY <1>4, <3>1 DEF R!Commit, R!TypeOK, SweepInv
        <4>2. row'[e] = [row[e] EXCEPT !.sent = TRUE] /\ reminded'[e] = 1
          BY <1>4, <3>1, <4>1 DEF R!Commit
        <4> QED BY <4>1, <4>2 DEF R!Row
      <3>2. CASE e \notin sweep
        BY <1>4, <3>2 DEF R!Commit, R!TypeOK, R!RemindedOnce
      <3> QED BY <3>1, <3>2
    <2>2. R!RemindedOnce'
      BY <2>1 DEF R!RemindedOnce
    <2>3. row' \in [Events -> R!Row \cup {None}] /\ reminded' \in [Events -> Nat]
      <3>1. /\ row' = [e \in Events |-> row'[e]]
            /\ reminded' = [e \in Events |-> reminded'[e]]
        BY <1>4 DEF R!Commit
      <3> QED BY <2>1, <3>1
    <2>4. R!TypeOK'
      BY <1>1, <1>4, <2>3 DEF R!Commit, R!TypeOK
    <2>5. SweepInv'
      BY <1>4 DEF R!Commit, SweepInv
    <2> QED BY <2>2, <2>4, <2>5
  <1>5. CASE R!CommitFails \/ R!Restart
    BY <1>1, <1>5
       DEF R!CommitFails, R!Restart, R!TypeOK, R!RemindedOnce, SweepInv, R!Asleep
  <1>6. ASSUME NEW e \in Events, NEW due \in R!Times, R!Create(e, due)
        PROVE  (R!TypeOK /\ R!RemindedOnce /\ SweepInv)'
    <2> DEFINE new == [due |-> due, set |-> clock, sent |-> FALSE,
                       cancelled |-> FALSE]
    <2>1. new \in R!Row /\ new.sent = FALSE
      BY DEF R!Row, R!TypeOK
    <2>2. row' = [row EXCEPT ![e] = new] /\ reminded[e] = 0
      BY <1>6 DEF R!Create
    <2>3. UNCHANGED <<clock, wake, sweep, reminded, mended>>
      BY <1>6 DEF R!Create
    <2> HIDE DEF new
    <2>4. new.sent = (reminded[e] = 1)
      <3>1. (reminded[e] = 1) = FALSE
        BY <2>2
      <3> QED BY <2>1, <3>1
    <2> QED BY <2>1, <2>2, <2>3, <2>4, OtherRowsStay
  <1>7. ASSUME NEW e \in Events, NEW due \in R!Times, R!Move(e, due)
        PROVE  (R!TypeOK /\ R!RemindedOnce /\ SweepInv)'
    <2>1. row[e] \in R!Row /\ row[e] # None
      BY <1>7 DEF R!Move, R!TypeOK
    <2>2. PICK new \in R!Row : row' = [row EXCEPT ![e] = new]
                             /\ new.sent = row[e].sent
      <3>1. [row[e] EXCEPT !.due = due, !.set = clock] \in R!Row
        BY <2>1 DEF R!TypeOK, R!Row
      <3>2. [row[e] EXCEPT !.due = due, !.set = clock].sent = row[e].sent
        BY <2>1 DEF R!Row
      <3>3. row' = [row EXCEPT ![e] = [row[e] EXCEPT !.due = due,
                                                     !.set = clock]]
        BY <1>7 DEF R!Move, R!TypeOK
      <3> QED BY <3>1, <3>2, <3>3
    <2>3. UNCHANGED <<clock, wake, sweep, reminded, mended>>
      BY <1>7 DEF R!Move
    <2>4. new # None => new.sent = (reminded[e] = 1)
      BY <2>1, <2>2 DEF R!RemindedOnce
    <2> QED BY <2>2, <2>3, <2>4, OtherRowsStay
  <1>8. ASSUME NEW e \in Events, R!Delete(e)
        PROVE  (R!TypeOK /\ R!RemindedOnce /\ SweepInv)'
    <2>1. row[e] \in R!Row /\ row[e] # None
      BY <1>8 DEF R!Delete, R!TypeOK
    <2>2. PICK new \in R!Row \cup {None} :
            /\ row' = [row EXCEPT ![e] = new]
            /\ new # None => new.sent = row[e].sent
      <3>1. [row[e] EXCEPT !.cancelled = TRUE] \in R!Row
        BY <2>1 DEF R!Row
      <3>2. [row[e] EXCEPT !.cancelled = TRUE].sent = row[e].sent
        BY <2>1 DEF R!Row
      <3>3. \/ row' = [row EXCEPT ![e] = [row[e] EXCEPT !.cancelled = TRUE]]
            \/ row' = [row EXCEPT ![e] = None]
        BY <1>8 DEF R!Delete, R!TypeOK
      <3> QED BY <3>1, <3>2, <3>3
    <2>3. UNCHANGED <<clock, wake, sweep, reminded, mended>>
      BY <1>8 DEF R!Delete
    <2>4. new # None => new.sent = (reminded[e] = 1)
      BY <2>1, <2>2 DEF R!RemindedOnce
    <2> QED BY <2>2, <2>3, <2>4, OtherRowsStay
  <1>9. CASE UNCHANGED R!vars
    BY <1>9 DEF R!vars, R!TypeOK, R!RemindedOnce, SweepInv, R!Asleep
  <1> QED
    BY <1>2, <1>3, <1>4, <1>5, <1>6, <1>7, <1>8, <1>9 DEF R!Next

\* The attendees of an event are reminded at most once, and exactly when its
\* flag is set, however it is moved, cancelled or deleted while a sweep runs
\* and whenever one fails (check_event_reminders commits the notifications
\* and the flags together).
THEOREM NobodyIsRemindedTwice ==
    ASSUME MaxClock \in Nat, Period \in Nat, None \notin Nat
    PROVE  R!Spec => []R!RemindedOnce
  <1>1. R!Init => R!TypeOK /\ R!RemindedOnce /\ SweepInv
    BY InitOnce
  <1>2. R!TypeOK /\ R!RemindedOnce /\ SweepInv /\ [R!Next]_(R!vars)
          => (R!TypeOK /\ R!RemindedOnce /\ SweepInv)'
    BY StepOnce
  <1> QED
    BY <1>1, <1>2, PTL DEF R!Spec

-----------------------------------------------------------------------------
(* When nothing is missed *)

\* The task never oversleeps, nor sleeps longer than its period.
SleepInv == R!Asleep => clock <= wake /\ wake <= clock + Period

\* An event planned a period ahead and not yet reminded of can still be
\* reached: by the sweep that runs, or by the next one.
Waiting(e) ==
    /\ row[e] # None /\ ~row[e].cancelled /\ ~mended
    /\ row[e].due >= row[e].set + Period
    /\ reminded[e] = 0

InReach(e) ==
    /\ R!Asleep => row[e].due >= wake - Reach
    /\ ~R!Asleep /\ e \in sweep => row[e].due >= clock - Reach
    /\ ~R!Asleep /\ e \notin sweep => row[e].due >= clock + Period - Reach

ReachInv == SleepInv /\ \A e \in Events : Waiting(e) => InReach(e)

\* Writing an event's row can only put it out of reach by planning it less
\* than a period ahead.
LEMMA RowInReach ==
    ASSUME MaxClock \in Nat, Period \in Nat, Reach \in Nat, None \notin Nat,
           R!TypeOK, ReachInv, None \notin R!Row,
           NEW e \in Events, NEW new \in R!Row \cup {None},
           row' = [row EXCEPT ![e] = new],
           \/ new = None \/ (new # None /\ new.cancelled)
           \/ (new # None /\ new.set = clock),
           UNCHANGED <<clock, wake, sweep, reminded, mended>>
    PROVE  ReachInv'
  <1>1. SleepInv'
    BY DEF ReachInv, SleepInv, R!Asleep
  <1>2. ASSUME NEW x \in Events, Waiting(x)'
        PROVE  InReach(x)'
    <2>1. CASE x # e
      <3>1. row'[x] = row[x]
        BY <2>1 DEF R!TypeOK
      <3>2. Waiting(x)
        BY <1>2, <3>1 DEF Waiting
      <3> QED BY <3>1, <3>2 DEF ReachInv, InReach, R!Asleep
    <2>2. CASE x = e
      <3>1. row'[x] = new
        BY <2>2 DEF R!TypeOK
      <3>2. new \in R!Row /\ new.set = clock /\ new.due >= clock + Period
        BY <1>2, <3>1 DEF Waiting
      <3>3. /\ clock \in Nat /\ new.due \in Nat
            /\ R!Asleep => wake \in Nat /\ wake <= clock + Period
        BY <3>2 DEF R!TypeOK, R!Row, R!Times, ReachInv, SleepInv, R!Asleep
      <3> QED BY <3>1, <3>2, <3>3 DEF InReach, R!Asleep
    <2> QED BY <2>1, <2>2
  <1> QED
    BY <1>1, <1>2 DEF ReachInv

LEMMA StepInReach ==
    ASSUME MaxClock \in Nat, Period \in Nat, Reach \in Nat, None \notin Nat,
           None \notin R!Row, Period <= 2 * Reach + 1,
           R!TypeOK, R!RemindedOnce, SweepInv, ReachInv, [R!Next]_(R!vars)
    PROVE  ReachInv'
  <1>1. /\ clock \in Nat /\ clock + Period \in Nat
        /\ clock + Period # None
        /\ R!Asleep => wake \in Nat
    BY DEF R!TypeOK, R!Times, R!Asleep
  <1>2. \A e \in Events : row[e] # None => row[e] \in R!Row /\ row[e].due \in Nat
    BY DEF R!TypeOK, R!Row, R!Times
  <1>3. CASE R!Tick
    <2>1. /\ clock' = clock + 1 /\ clock < wake /\ R!Asleep /\ R!Asleep'
          /\ UNCHANGED <<wake, sweep, row, reminded, mended>>
      BY <1>3 DEF R!Tick, R!Asleep
    <2>2. SleepInv'
      BY <1>1, <2>1 DEF SleepInv, ReachInv
    <2>3. ASSUME NEW e \in Events, Waiting(e)'
          PROVE  InReach(e)'
      <3>1. Waiting(e)
        BY <2>1, <2>3 DEF Waiting
      <3> QED BY <2>1, <3>1 DEF ReachInv, InReach, R!Asleep
    <2> QED BY <2>2, <2>3 DEF ReachInv
  <1>4. CASE R!Load
    <2>1. /\ wake' = None /\ R!Asleep /\ clock >= wake
          /\ UNCHANGED <<clock, row, reminded, mended>>
          /\ sweep' = {e \in Events : /\ row[e] # None
                                      /\ ~row[e].sent /\ ~row[e].cancelled
                                      /\ R!Near(e)}
      BY <1>4 DEF R!Load
    <2>2. clock = wake
      BY <1>1, <2>1 DEF ReachInv, SleepInv
    <2>3. ASSUME NEW e \in Events, Waiting(e)'
          PROVE  InReach(e)'
      <3>1. Waiting(e)
        BY <2>1, <2>3 DEF Waiting
      <3>2. row[e].due >= clock - Reach
        BY <2>1, <2>2, <3>1 DEF ReachInv, InReach
      <3>3. row[e] # None /\ ~row[e].cancelled /\ ~row[e].sent
        <4>1. row[e] # None /\ ~row[e].cancelled /\ reminded[e] = 0
          BY <3>1 DEF Waiting
        <4>2. (reminded[e] = 1) = FALSE
          BY <4>1
        <4>3. row[e].sent = (reminded[e] = 1)
          BY <4>1 DEF R!RemindedOnce
        <4> QED BY <4>1, <4>2, <4>3
      <3>4. CASE R!Near(e)
        <4>1. e \in sweep'
          BY <2>1, <3>3, <3>4
        <4>2. row'[e].due >= clock' - Reach /\ ~R!Asleep'
          BY <2>1, <3>2 DEF R!Asleep
        <4> QED BY <4>1, <4>2 DEF InReach, R!Asleep
      <3>5. CASE ~R!Near(e)
        <4>1. row[e].due > clock + Reach
          BY <1>1, <1>2, <3>2, <3>3, <3>5 DEF R!Near
        <4>2. row[e].due >= clock + Period - Reach
          BY <1>1, <1>2, <3>3, <4>1
        <4> QED BY <2>1, <3>2, <4>2 DEF InReach, R!Asleep
      <3> QED BY <3>4, <3>5
    <2> QED BY <2>1, <2>3 DEF ReachInv, SleepInv, R!Asleep
  <1>5. CASE R!Commit
    <2>1. /\ ~R!Asleep /\ wake' = clock + Period /\ R!Asleep'
          /\ UNCHANGED <<clock, mended>>
      BY <1>1, <1>5 DEF R!Commit, R!Asleep
    <2>2. SleepInv'
      BY <1>1, <2>1 DEF SleepInv
    <2>3. ASSUME NEW e \in Events, Waiting(e)'
          PROVE  InReach(e)'
      <3>1. e \notin sweep
        BY <1>5, <2>3 DEF R!Commit, Waiting, SweepInv
      <3>2. row'[e] = row[e] /\ reminded'[e] = reminded[e]
        BY <1>5, <3>1 DEF R!Commit
      <3>3. Waiting(e)
        BY <2>1, <2>3, <3>2 DEF Waiting
      <3>4. row[e].due >= clock + Period - Reach
        BY <2>1, <3>1, <3>3 DEF ReachInv, InReach
      <3>5. row'[e].due >= wake' - Reach
        <4>1. wake' = clock + Period
          BY <1>5 DEF R!Commit
        <4> QED BY <1>1, <3>2, <3>4, <4>1
      <3>6. wake' # None
        BY <2>1 DEF R!Asleep
      <3> QED BY <3>5, <3>6 DEF InReach, R!Asleep
    <2> QED BY <2>2, <2>3 DEF ReachInv
  <1>6. CASE R!CommitFails \/ R!Restart
    <2>1. wake' = clock + Period /\ clock' = clock /\ mended' = TRUE
      BY <1>6 DEF R!CommitFails, R!Restart
    <2>2. SleepInv' /\ \A e \in Events : ~Waiting(e)'
      BY <1>1, <2>1 DEF SleepInv, Waiting
    <2> QED BY <2>2 DEF ReachInv
  <1>7. ASSUME NEW e \in Events, NEW due \in R!Times, R!Create(e, due)
        PROVE  ReachInv'
    <2> DEFINE new == [due |-> due, set |-> clock, sent |-> FALSE,
                       cancelled |-> FALSE]
    <2>1. new \in R!Row /\ new.set = clock
      BY DEF R!Row, R!TypeOK
    <2>2. /\ row' = [row EXCEPT ![e] = new]
          /\ UNCHANGED <<clock, wake, sweep, reminded, mended>>
      BY <1>7 DEF R!Create
    <2>3. new # None
      BY <2>1
    <2> HIDE DEF new
    <2> QED BY <2>1, <2>2, <2>3, RowInReach
  <1>8. ASSUME NEW e \in Events, NEW due \in R!Times, R!Move(e, due)
        PROVE  ReachInv'
    <2> DEFINE new == [row[e] EXCEPT !.due = due, !.set = clock]
    <2>1. row[e] \in R!Row
      BY <1>2, <1>8 DEF R!Move
    <2>2. new \in R!Row /\ new.set = clock
      BY <2>1 DEF R!Row, R!TypeOK
    <2>3. /\ row' = [row EXCEPT ![e] = new]
          /\ UNCHANGED <<clock, wake, sweep, reminded, mended>>
      BY <1>8 DEF R!Move, R!TypeOK
    <2>4. new # None
      BY <2>2
    <2> HIDE DEF new
    <2> QED BY <2>2, <2>3, <2>4, RowInReach
  <1>9. ASSUME NEW e \in Events, R!Delete(e)
        PROVE  ReachInv'
    <2>1. row[e] \in R!Row
      BY <1>2, <1>9 DEF R!Delete
    <2>2. PICK new \in R!Row \cup {None} :
            /\ row' = [row EXCEPT ![e] = new]
            /\ new = None \/ (new # None /\ new.cancelled)
      <3>1. /\ [row[e] EXCEPT !.cancelled = TRUE] \in R!Row
            /\ [row[e] EXCEPT !.cancelled = TRUE].cancelled
        BY <2>1 DEF R!Row
      <3>2. \/ row' = [row EXCEPT ![e] = [row[e] EXCEPT !.cancelled = TRUE]]
            \/ row' = [row EXCEPT ![e] = None]
        BY <1>9 DEF R!Delete, R!TypeOK
      <3> QED BY <3>1, <3>2
    <2>3. UNCHANGED <<clock, wake, sweep, reminded, mended>>
      BY <1>9 DEF R!Delete
    <2> QED BY <2>2, <2>3, RowInReach
  <1>10. CASE UNCHANGED R!vars
    <2>1. /\ UNCHANGED <<clock, wake, sweep, row, reminded, mended>>
          /\ R!Asleep' = R!Asleep
      BY <1>10 DEF R!vars, R!Asleep
    <2>2. \A e \in Events : Waiting(e)' = Waiting(e) /\ InReach(e)' = InReach(e)
      BY <2>1 DEF Waiting, InReach, R!Asleep
    <2> QED BY <2>1, <2>2 DEF ReachInv, SleepInv, R!Asleep
  <1> QED
    BY <1>3, <1>4, <1>5, <1>6, <1>7, <1>8, <1>9, <1>10 DEF R!Next

\* The length of the window is the only cause of missed reminders: were it
\* no shorter than the period (check_event_reminders sleeps 300 seconds and
\* looks at 240), every event planned a period ahead would be reminded of.
THEOREM WideWindowRemindsOfAll ==
    ASSUME MaxClock \in Nat, Period \in Nat, Reach \in Nat, None \notin Nat,
           None \notin R!Row,
           Reach <= Period, Period <= 2 * Reach + 1
    PROVE  R!Spec => []R!EveryEventIsReminded
  <1> DEFINE Inv == R!TypeOK /\ R!RemindedOnce /\ SweepInv /\ ReachInv
  <1>1. R!Init => Inv
    <2>1. R!Init => ReachInv
      BY DEF R!Init, ReachInv, SleepInv, Waiting
    <2> QED BY <2>1, InitOnce
  <1>2. Inv /\ [R!Next]_(R!vars) => Inv'
    <2> SUFFICES ASSUME Inv, [R!Next]_(R!vars) PROVE Inv'
      OBVIOUS
    <2>1. (R!TypeOK /\ R!RemindedOnce /\ SweepInv)'
      BY StepOnce
    <2>2. ReachInv'
      BY StepInReach
    <2> QED BY <2>1, <2>2
  <1>3. Inv => R!EveryEventIsReminded
    <2> SUFFICES ASSUME Inv, NEW e \in Events,
                        row[e] # None, ~row[e].cancelled, ~mended,
                        row[e].due >= row[e].set + Period,
                        clock > row[e].due + Period
                 PROVE  reminded[e] = 1
      BY DEF R!EveryEventIsReminded
    <2>1. /\ clock \in Nat /\ row[e].due \in Nat
          /\ R!Asleep => wake \in Nat /\ clock <= wake
      BY DEF R!TypeOK, R!Times, R!Row, R!Asleep, ReachInv, SleepInv
    <2>2. ASSUME reminded[e] = 0
          PROVE  FALSE
      <3>1. InReach(e)
        BY <2>2 DEF ReachInv, Waiting
      <3>2. row[e].due >= clock - Reach
        BY <2>1, <3>1 DEF InReach
      <3> QED BY <2>1, <3>2
    <2> QED BY <2>2 DEF R!RemindedOnce
  <1> QED
    BY <1>1, <1>2, <1>3, PTL DEF R!Spec
=============================================================================
