------------------------- MODULE DocumentVersionsProofs -------------------------
(***************************************************************************)
(* Whatever requests overlap or die, the version list has no gap; and the  *)
(* history of a document whose requests did not overlap is kept.           *)
(*                                                                         *)
(* The first needs to know what a request's stale current_version still    *)
(* guarantees: the list has no gap up to it (ListInv), and the file it     *)
(* archived is there (ReqInv).                                             *)
(***************************************************************************)
EXTENDS DocumentVersions, TLAPS

Updates == {"bump", "restore"}

\* What is named by a row, or by a document, exists.
FileInv ==
    /\ \A d \in Docs : doc[d].state # "unused" => live[d] # NoFile
    /\ \A d \in Docs : doc[d].state \in {"live", "deleted"} => doc[d].cur >= 1
    /\ \A d \in Docs, n \in Versions :
         rows[d][n].archived > 0 => archive[d][n] # NoFile

\* What a request knows at each of its waits.
ReqInv ==
    \A r \in Requests :
      /\ req[r].pc # "idle" => req[r].kind # "none"
      /\ req[r].pc = "target" => req[r].kind = "restore" /\ req[r].target \in Versions
      /\ req[r].pc = "found" /\ req[r].kind # "restore" => req[r].content # NoFile
      /\ req[r].pc = "filed" => req[r].content # NoFile
      /\ req[r].pc # "idle" /\ req[r].kind \in Updates =>
           /\ req[r].doc \in Docs
           /\ doc[req[r].doc].state \in {"live", "deleted"}
           /\ req[r].cur \in 1..(MaxVersion - 1)
      /\ req[r].pc = "found" /\ req[r].kind = "restore" /\ req[r].target # 0 =>
           archive[req[r].doc][req[r].target] # NoFile
      /\ req[r].pc = "filed" /\ req[r].kind \in Updates =>
           archive[req[r].doc][req[r].cur] # NoFile

\* The rows of a document's versions below k.
Listed(d, k) == \A n \in Versions : n < k => rows[d][n].archived > 0

ListInv ==
    \A d \in Existing :
      /\ Listed(d, doc[d].cur)
      /\ \A r \in Requests :
           req[r].pc # "idle" /\ req[r].kind \in Updates /\ req[r].doc = d
             => Listed(d, req[r].cur)

\* A new document's file is its request's alone until the commit.
CreateInv ==
    /\ \A r \in Requests : req[r].pc = "filed" /\ req[r].kind = "create" =>
         /\ req[r].doc \in Docs
         /\ doc[req[r].doc].state = "claimed"
         /\ live[req[r].doc] = req[r].content
         /\ \A o \in Requests : req[o].pc = "filed" /\ req[o].doc = req[r].doc
                                  => o = r
    /\ \A d \in Docs : doc[d].state \in {"unused", "claimed"} =>
         \A n \in Versions : rows[d][n].archived = 0

VersionInv == TypeOK /\ FileInv /\ ReqInv /\ ListInv /\ CreateInv

FiledOn(r, d) == req[r].pc = "filed" /\ req[r].doc = d

\* The versions of d are archived once each, and the one request that has
\* changed files of d, if there is one, had read the current version.
Kept(d) ==
    /\ \A n \in Versions : rows[d][n].archived = IF n < doc[d].cur THEN 1 ELSE 0
    /\ \A n \in Versions : n < doc[d].cur => archive[d][n] = was[d][n]
    /\ (\A r \in Requests : ~FiledOn(r, d)) => live[d] = was[d][doc[d].cur]
    /\ \A r \in Requests : FiledOn(r, d) =>
         /\ \A o \in Requests : FiledOn(o, d) => o = r
         /\ req[r].cur = doc[d].cur
         /\ archive[d][doc[d].cur] = was[d][doc[d].cur]
         /\ live[d] = req[r].content
         /\ req[r].kind = "restore" =>
              req[r].target \in Versions /\ req[r].content = was[d][req[r].target]
    /\ \A r \in Requests :
         req[r].pc = "found" /\ req[r].kind = "restore" /\ req[r].doc = d
           => req[r].target < doc[d].cur

HistInv == \A d \in Existing \ disturbed : Kept(d)

----------------------------------------------------------------------------

LEMMA ContentFacts ==
    ASSUME served \in 0..MaxRequests, served < MaxRequests
    PROVE  served + 1 \in Contents /\ served + 1 # NoFile
                                   /\ served + 1 \in 0..MaxRequests
  BY VersionAssumption DEF Contents, NoFile

LEMMA FreeIsRequest == Free \in Request
  BY VersionAssumption DEF Free, Request, NoFile

LEMMA VersionInit == Init => VersionInv /\ HistInv
<1> SUFFICES ASSUME Init PROVE VersionInv /\ HistInv
  OBVIOUS
<1> USE VersionAssumption DEF Init, NoRow, Free, NoFile, Contents
<1>1. TypeOK
  BY FreeIsRequest DEF TypeOK, Document, Versions
<1>2. FileInv
  BY DEF FileInv
<1>3. ReqInv
  BY DEF ReqInv
<1>4. ListInv /\ HistInv
  BY DEF ListInv, HistInv, Kept, FiledOn, Existing
<1>5. CreateInv
  BY DEF CreateInv
<1> QED
  BY <1>1, <1>2, <1>3, <1>4, <1>5 DEF VersionInv

\* A request that only starts, or ends, without touching a document.
LEMMA RequestOnly ==
    ASSUME VersionInv, NEW r \in Requests, NEW q,
           UNCHANGED <<doc, rows, live, archive, was>>,
           served' \in 0..MaxRequests, disturbed' \subseteq Docs,
           req' = [req EXCEPT ![r] = q],
           \/ q = Free
           \/ /\ q \in Request /\ q.pc \in {"found", "target"} /\ q.kind # "none"
              /\ q.pc = "target" => q.kind = "restore" /\ q.target \in Versions
              /\ q.kind # "restore" => q.content # NoFile
              /\ q.kind \in Updates =>
                   /\ q.doc \in Docs
                   /\ doc[q.doc].state \in {"live", "deleted"}
                   /\ q.cur \in 1..(MaxVersion - 1)
                   /\ q.doc \in Existing => Listed(q.doc, q.cur)
              /\ q.kind = "restore" /\ q.pc = "found" /\ q.target # 0 =>
                   archive[q.doc][q.target] # NoFile
    PROVE  VersionInv'
<1> USE DEF VersionInv
<1>t. req \in [Requests -> Request] /\ Free \in Request
  BY FreeIsRequest DEF TypeOK
<1>q. /\ q.pc # "filed"
      /\ req'[r] = q
      /\ \A o \in Requests : o # r => req'[o] = req[o]
  BY <1>t DEF Free
<1>1. TypeOK'
  BY <1>t DEF TypeOK
<1>2. FileInv'
  BY DEF FileInv
<1>3. ReqInv'
  BY <1>q DEF ReqInv, Free, Updates
<1>4. ListInv'
  BY <1>q DEF ListInv, Listed, Existing, Free, Updates
<1>5. CreateInv'
  BY <1>q DEF CreateInv
<1> QED
  BY <1>1, <1>2, <1>3, <1>4, <1>5

\* What archiving the live file changes.
LEMMA ArchivedFacts ==
    ASSUME VersionInv, NEW r \in Requests, req[r].pc # "idle", req[r].kind \in Updates
    PROVE  /\ req[r].doc \in Docs /\ req[r].cur \in Versions
           /\ req[r].cur < MaxVersion
           /\ Archived(r) \in [Docs -> [Versions -> Contents \cup {NoFile}]]
           /\ live[req[r].doc] \in Contents
           /\ Archived(r)[req[r].doc][req[r].cur] = live[req[r].doc]
           /\ \A d \in Docs, n \in Versions :
                d # req[r].doc \/ n # req[r].cur => Archived(r)[d][n] = archive[d][n]
<1> USE DEF VersionInv
<1>1. /\ req[r].doc \in Docs /\ req[r].cur \in 1..(MaxVersion - 1)
      /\ doc[req[r].doc].state # "unused"
  BY DEF ReqInv
<1>2. live[req[r].doc] # NoFile /\ live[req[r].doc] \in Contents
  BY <1>1 DEF FileInv, TypeOK
<1>3. req[r].cur \in Versions /\ req[r].cur < MaxVersion
  BY <1>1, VersionAssumption DEF Versions
<1> QED
  BY <1>1, <1>2, <1>3 DEF Archived, TypeOK

\* A request that changes files and goes on to "filed", or fails.
LEMMA FilesOnly ==
    ASSUME VersionInv, NEW r \in Requests, NEW q, NEW c \in Contents,
           req[r].pc = "found", req[r].kind \in Updates,
           UNCHANGED <<doc, rows, served, was>>,
           disturbed' \subseteq Docs,
           archive' = Archived(r),
           req' = [req EXCEPT ![r] = q],
           \/ q = Free /\ live' = live
           \/ /\ q = [req[r] EXCEPT !.pc = "filed", !.content = c]
              /\ live' = [live EXCEPT ![req[r].doc] = c]
    PROVE  VersionInv'
<1> USE DEF VersionInv
<1>a. /\ req[r].doc \in Docs /\ req[r].cur \in Versions
      /\ req[r].cur < MaxVersion
      /\ archive' \in [Docs -> [Versions -> Contents \cup {NoFile}]]
      /\ archive'[req[r].doc][req[r].cur] = live[req[r].doc]
      /\ live[req[r].doc] # NoFile
      /\ \A d \in Docs, n \in Versions :
           d # req[r].doc \/ n # req[r].cur => archive'[d][n] = archive[d][n]
  BY ArchivedFacts DEF NoFile, Contents
<1>n. \A d \in Docs, n \in Versions : archive[d][n] # NoFile => archive'[d][n] # NoFile
  BY <1>a
<1>r. req[r] \in Request
  BY DEF TypeOK
<1>t. q \in Request
  BY <1>r, FreeIsRequest DEF Request
<1>q. /\ req'[r] = q
      /\ \A o \in Requests : o # r => req'[o] = req[o]
  BY DEF TypeOK
<1>c. c # NoFile
  BY DEF NoFile, Contents
<1>s. /\ doc[req[r].doc].state \in {"live", "deleted"}
      /\ req[r].cur \in 1..(MaxVersion - 1)
  BY DEF ReqInv
<1>u. q.pc = "filed" => q.kind = req[r].kind /\ q.doc = req[r].doc /\ q.cur = req[r].cur
                         /\ q.content = c
  <2>1. CASE q = Free
    BY <2>1 DEF Free
  <2>2. CASE q = [req[r] EXCEPT !.pc = "filed", !.content = c]
    BY <2>2, <1>r DEF Request
  <2> QED
    BY <2>1, <2>2
<1>i. q = Free \/ q.pc = "filed"
  BY <1>r DEF Request
<1>1. TypeOK'
  BY <1>a, <1>t DEF TypeOK
<1>2. FileInv'
  BY <1>n, <1>c DEF FileInv, TypeOK
<1>3. ReqInv'
  <2> SUFFICES ASSUME NEW o \in Requests PROVE (ReqInv!(o))'
    BY DEF ReqInv
  <2>1. CASE o = r
    BY <2>1, <1>q, <1>u, <1>i, <1>s, <1>a, <1>c DEF Free, Updates
  <2>2. CASE o # r
    <3>1. req'[o] = req[o]
      BY <2>2, <1>q
    <3>2. req[o].pc # "idle" /\ req[o].kind \in Updates =>
            req[o].doc \in Docs /\ req[o].cur \in Versions
      BY VersionAssumption DEF ReqInv, Versions
    <3>3. req[o].target # 0 => req[o].target \in Versions
      BY DEF TypeOK, Request, Versions
    <3> QED
      BY <3>1, <3>2, <3>3, <1>n DEF ReqInv, Updates
  <2> QED
    BY <2>1, <2>2
<1>4. ListInv'
  BY <1>q, <1>u, <1>i DEF ListInv, Listed, Existing, Free, Updates
<1>5. CreateInv'
  <2>1. \A o \in Requests : req'[o].pc = "filed" /\ req'[o].kind = "create" =>
          /\ o # r /\ req'[o] = req[o] /\ req[o].doc # req[r].doc
    BY <1>q, <1>u, <1>i, <1>s DEF CreateInv, Free, Updates
  <2>2. \A d \in Docs : d # req[r].doc => live'[d] = live[d]
    BY DEF TypeOK
  <2>3. \A o \in Requests : req'[o].pc = "filed" /\ o = r => req'[o].doc = req[r].doc
    BY <1>q, <1>u
  <2> QED
    BY <2>1, <2>2, <2>3, <1>q DEF CreateInv
<1> QED
  BY <1>1, <1>2, <1>3, <1>4, <1>5

----------------------------------------------------------------------------

LEMMA LookupSteps ==
    ASSUME VersionInv, NEW r \in Requests,
           \/ UploadNew(r) \/ UploadFails(r) \/ FindTarget(r)
           \/ \E d \in Docs : UploadVersion(r, d)
           \/ \E d \in Docs, n \in Versions : Restore(r, d, n)
    PROVE  VersionInv'
<1> USE DEF VersionInv
<1>s. Serve(r) => served' \in Contents /\ served' # NoFile /\ served' \in 0..MaxRequests
  BY ContentFacts DEF Serve, TypeOK
<1>k. \A d \in Existing : doc[d].cur < MaxVersion => doc[d].cur \in 1..(MaxVersion - 1)
  BY VersionAssumption DEF FileInv, TypeOK, Document, Existing
<1>1. CASE UploadNew(r)
  <2> DEFINE q == [pc |-> "found", kind |-> "create", doc |-> NoDoc, cur |-> 0,
                   target |-> 0, content |-> served']
  <2>0. Serve(r)
    BY <1>1 DEF UploadNew
  <2>1. q.pc = "found" /\ q.kind = "create" /\ q.content = served'
    OBVIOUS
  <2>2. q \in Request
    BY <2>0, <1>s, VersionAssumption DEF Request
  <2> HIDE DEF q
  <2>3. req' = [req EXCEPT ![r] = q]
    BY <1>1 DEF UploadNew, q
  <2> QED
    BY <2>0, <2>1, <2>2, <2>3, <1>1, <1>s, RequestOnly DEF UploadNew, Updates, TypeOK
<1>2. CASE UploadFails(r)
  BY <1>2, <1>s DEF UploadFails, TypeOK, FileInv, ReqInv, ListInv, Listed, Existing,
     CreateInv
<1>3. ASSUME NEW d \in Docs, UploadVersion(r, d) PROVE VersionInv'
  <2> DEFINE q == [pc |-> "found", kind |-> "bump", doc |-> d, cur |-> doc[d].cur,
                   target |-> 0, content |-> served']
  <2>0. Serve(r) /\ d \in Existing /\ doc[d].cur \in 1..(MaxVersion - 1)
    BY <1>3, <1>k DEF UploadVersion
  <2>1. doc[d].cur \in 0..MaxVersion /\ 0 \in 0..MaxVersion
    BY <2>0, VersionAssumption
  <2>2. q \in Request
    BY <2>1, <1>s, <2>0 DEF Request
  <2>3. Listed(d, doc[d].cur) /\ doc[d].state = "live"
    BY <2>0 DEF ListInv, Existing
  <2>4. q.pc = "found" /\ q.kind = "bump" /\ q.doc = d /\ q.cur = doc[d].cur
         /\ q.content # NoFile
    BY <2>0, <1>s
  <2> HIDE DEF q
  <2>5. req' = [req EXCEPT ![r] = q]
    BY <1>3 DEF UploadVersion, q
  <2> QED
    BY <2>0, <2>2, <2>3, <2>4, <2>5, <1>3, <1>s, RequestOnly
    DEF UploadVersion, Updates, TypeOK
<1>4. ASSUME NEW d \in Docs, NEW n \in Versions, Restore(r, d, n) PROVE VersionInv'
  <2> DEFINE q == [pc |-> "target", kind |-> "restore", doc |-> d, cur |-> doc[d].cur,
                   target |-> n, content |-> NoFile]
  <2>0. Serve(r) /\ d \in Existing /\ doc[d].cur \in 1..(MaxVersion - 1)
    BY <1>4, <1>k DEF Restore
  <2>1. doc[d].cur \in 0..MaxVersion /\ n \in 0..MaxVersion
    BY <2>0, VersionAssumption DEF Versions
  <2>2. q \in Request
    BY <2>1 DEF Request
  <2>3. Listed(d, doc[d].cur) /\ doc[d].state = "live"
    BY <2>0 DEF ListInv, Existing
  <2>4. q.pc = "target" /\ q.kind = "restore" /\ q.doc = d /\ q.cur = doc[d].cur
         /\ q.target = n
    OBVIOUS
  <2> HIDE DEF q
  <2>5. req' = [req EXCEPT ![r] = q]
    BY <1>4 DEF Restore, q
  <2> QED
    BY <2>0, <2>2, <2>3, <2>4, <2>5, <1>4, <1>s, RequestOnly
    DEF Restore, Updates, TypeOK
<1>5. CASE FindTarget(r)
  <2> DEFINE d == req[r].doc
             n == req[r].target
             q == [req[r] EXCEPT !.pc = "found", !.target = Target(d, n)]
  <2>0. /\ req[r] \in Request /\ req[r].pc = "target" /\ req[r].kind = "restore"
        /\ n \in Versions
    BY <1>5 DEF FindTarget, TypeOK, ReqInv
  <2>1. /\ d \in Docs /\ doc[d].state \in {"live", "deleted"}
        /\ req[r].cur \in 1..(MaxVersion - 1)
        /\ d \in Existing => Listed(d, req[r].cur)
    BY <2>0 DEF ReqInv, ListInv, Updates
  <2>2. /\ Target(d, n) \in 0..MaxVersion
        /\ Target(d, n) # 0 => archive[d][Target(d, n)] # NoFile
    BY <2>0, <2>1, VersionAssumption DEF Target, Versions, FileInv, TypeOK
  <2>3. /\ q \in Request /\ q.pc = "found" /\ q.kind = "restore" /\ q.doc = d
        /\ q.cur = req[r].cur /\ q.target = Target(d, n)
    BY <2>0, <2>2 DEF Request
  <2>4. /\ req' = [req EXCEPT ![r] = q] \/ req' = [req EXCEPT ![r] = Free]
        /\ UNCHANGED <<doc, rows, live, archive, served, was, disturbed>>
    BY <1>5 DEF FindTarget
  <2> HIDE DEF q
  <2>5. CASE req' = [req EXCEPT ![r] = Free]
    BY <2>4, <2>5, RequestOnly DEF TypeOK
  <2>6. CASE req' = [req EXCEPT ![r] = q]
    BY <2>1, <2>2, <2>3, <2>4, <2>6, RequestOnly DEF TypeOK, Updates
  <2> QED
    BY <2>4, <2>5, <2>6
<1> QED
  BY <1>1, <1>2, <1>3, <1>4, <1>5

LEMMA FileSteps ==
    ASSUME VersionInv, NEW r \in Requests,
           WriteVersion(r) \/ WriteRestored(r) \/ RestoreFails(r)
    PROVE  VersionInv'
<1> USE DEF VersionInv
<1>0. /\ req[r].pc = "found" /\ req[r].kind \in Updates
      /\ req[r] \in Request
      /\ UNCHANGED <<doc, rows, served, was>> /\ archive' = Archived(r)
  BY DEF WriteVersion, WriteRestored, RestoreFails, Updates, TypeOK
<1>a. /\ req[r].doc \in Docs
      /\ live[req[r].doc] \in Contents
      /\ Archived(r)[req[r].doc][req[r].cur] = live[req[r].doc]
      /\ \A n \in Versions :
           n # req[r].cur => Archived(r)[req[r].doc][n] = archive[req[r].doc][n]
  BY <1>0, ArchivedFacts
<1>d. disturbed' \subseteq Docs
  BY <1>a DEF WriteVersion, WriteRestored, RestoreFails, NoteDisturbance, TypeOK
<1>1. CASE WriteVersion(r)
  <2>1. req[r].content \in Contents
    BY <1>0, <1>1 DEF WriteVersion, ReqInv, Request
  <2>2. [req EXCEPT ![r].pc = "filed"]
          = [req EXCEPT ![r] = [req[r] EXCEPT !.pc = "filed", !.content = req[r].content]]
    BY <1>0 DEF TypeOK, Request
  <2> QED
    BY <1>0, <1>1, <1>d, <2>1, <2>2, FilesOnly DEF WriteVersion
<1>2. CASE WriteRestored(r)
  <2> DEFINE c == Archived(r)[req[r].doc][req[r].target]
  <2>1. req[r].target \in Versions /\ archive[req[r].doc][req[r].target] # NoFile
    BY <1>0, <1>2 DEF WriteRestored, ReqInv, Request, Versions
  <2>2. c \in Contents
    <3>1. CASE req[r].target = req[r].cur
      BY <3>1, <1>a
    <3>2. CASE req[r].target # req[r].cur
      BY <2>1, <3>2, <1>a DEF TypeOK
    <3> QED
      BY <3>1, <3>2
  <2>3. [req EXCEPT ![r].pc = "filed", ![r].content = c]
          = [req EXCEPT ![r] = [req[r] EXCEPT !.pc = "filed", !.content = c]]
    BY <1>0 DEF TypeOK, Request
  <2>4. live' = [live EXCEPT ![req[r].doc] = c] /\ req' = [req EXCEPT ![r].pc = "filed", ![r].content = c]
    BY <1>2 DEF WriteRestored
  <2> HIDE DEF c
  <2> QED
    BY <1>0, <1>d, <2>2, <2>3, <2>4, FilesOnly
<1>3. CASE RestoreFails(r)
  BY <1>0, <1>3, <1>a, <1>d, FilesOnly DEF RestoreFails
<1> QED
  BY <1>1, <1>2, <1>3

\* What WriteNew changes: document d, of which no request knows.
LEMMA WriteNewFacts ==
    ASSUME VersionInv, NEW r \in Requests, NEW d \in Docs, WriteNew(r, d)
    PROVE  /\ req[r].content \in Contents /\ req[r].content # NoFile
           /\ req'[r] \in Request /\ req'[r].pc = "filed" /\ req'[r].kind = "create"
           /\ req'[r].doc = d /\ req'[r].content = req[r].content
           /\ \A o \in Requests : o # r => req'[o] = req[o]
           /\ doc[d].state = "unused"
           /\ doc'[d].state = "claimed" /\ live'[d] = req[r].content
           /\ \A x \in Docs : x # d => doc'[x] = doc[x] /\ live'[x] = live[x]
           /\ \A o \in Requests :
                req[o].pc # "idle" /\ req[o].kind \in Updates => req[o].doc # d
           /\ \A o \in Requests : req[o].pc = "filed" => req[o].doc # d
<1> USE DEF VersionInv
<1>r. req[r] \in Request
  BY DEF TypeOK
<1>1. req[r].content \in Contents /\ req[r].content # NoFile
  BY <1>r DEF WriteNew, ReqInv, Request
<1>2. /\ req'[r] = [req[r] EXCEPT !.pc = "filed", !.doc = d]
      /\ \A o \in Requests : o # r => req'[o] = req[o]
  BY <1>r DEF WriteNew, TypeOK, Request
<1>k. req[r].kind = "create"
  BY DEF WriteNew
<1>3. /\ req'[r] \in Request /\ req'[r].pc = "filed" /\ req'[r].kind = "create"
      /\ req'[r].doc = d /\ req'[r].content = req[r].content
  BY <1>2, <1>r, <1>k DEF Request
<1>4. /\ doc[d].state = "unused"
      /\ doc'[d].state = "claimed" /\ live'[d] = req[r].content
      /\ \A x \in Docs : x # d => doc'[x] = doc[x] /\ live'[x] = live[x]
  BY DEF WriteNew, TypeOK, Document
<1>5. \A o \in Requests : req[o].pc # "idle" /\ req[o].kind \in Updates
        => req[o].doc # d
  BY <1>4 DEF ReqInv
<1>6. \A o \in Requests : req[o].pc = "filed" => req[o].doc # d
  <2> SUFFICES ASSUME NEW o \in Requests, req[o].pc = "filed" PROVE req[o].doc # d
    OBVIOUS
  <2>1. req[o].kind \in Updates \/ req[o].kind = "create"
    BY DEF ReqInv, TypeOK, Request, Updates
  <2> QED
    BY <2>1, <1>4, <1>5 DEF CreateInv
<1> QED
  BY <1>1, <1>2, <1>3, <1>4, <1>5, <1>6

LEMMA WriteNewStep ==
    ASSUME VersionInv, NEW r \in Requests, NEW d \in Docs, WriteNew(r, d)
    PROVE  VersionInv'
<1> USE DEF VersionInv
<1>0. UNCHANGED <<rows, archive, served, was, disturbed>>
  BY DEF WriteNew
<1>1. /\ req[r].content \in Contents /\ req[r].content # NoFile
      /\ req'[r] \in Request /\ req'[r].pc = "filed" /\ req'[r].kind = "create"
      /\ req'[r].doc = d /\ req'[r].content = req[r].content
      /\ \A o \in Requests : o # r => req'[o] = req[o]
  BY WriteNewFacts
<1>2. /\ doc[d].state = "unused"
      /\ doc'[d].state = "claimed" /\ live'[d] = req[r].content
      /\ \A x \in Docs : x # d => doc'[x] = doc[x] /\ live'[x] = live[x]
  BY WriteNewFacts
<1>3. /\ \A o \in Requests :
           req[o].pc # "idle" /\ req[o].kind \in Updates => req[o].doc # d
      /\ \A o \in Requests : req[o].pc = "filed" => req[o].doc # d
  BY WriteNewFacts
<1>4. TypeOK'
  <2>1. req' \in [Requests -> Request]
    BY <1>1 DEF WriteNew, TypeOK
  <2>2. [doc[d] EXCEPT !.state = "claimed"] \in Document
    BY DEF TypeOK, Document
  <2>3. doc' \in [Docs -> Document] /\ live' \in [Docs -> Contents \cup {NoFile}]
    BY <1>1, <2>2 DEF WriteNew, TypeOK
  <2> QED
    BY <1>0, <2>1, <2>3 DEF TypeOK
<1>5. FileInv'
  BY <1>0, <1>1, <1>2 DEF FileInv
<1>6. ReqInv'
  <2> SUFFICES ASSUME NEW o \in Requests PROVE (ReqInv!(o))'
    BY DEF ReqInv
  <2>1. CASE o = r
    BY <2>1, <1>1 DEF Updates
  <2>2. CASE o # r
    <3>1. req'[o] = req[o] /\ (req[o].pc # "idle" /\ req[o].kind \in Updates
                                => doc'[req[o].doc] = doc[req[o].doc])
      BY <2>2, <1>1, <1>2, <1>3 DEF ReqInv
    <3> QED
      BY <3>1, <1>0 DEF ReqInv
  <2> QED
    BY <2>1, <2>2
<1>7. ListInv'
  <2>1. \A x \in Existing' : x \in Existing /\ doc'[x] = doc[x]
    BY <1>2 DEF Existing
  <2>2. \A o \in Requests : req'[o].kind \in Updates => req'[o] = req[o]
    BY <1>1 DEF Updates
  <2> QED
    BY <2>1, <2>2, <1>0 DEF ListInv, Listed
<1>8. CreateInv'
  <2>1. ASSUME NEW o \in Requests, req'[o].pc = "filed", req'[o].kind = "create"
        PROVE  /\ req'[o].doc \in Docs
               /\ doc'[req'[o].doc].state = "claimed"
               /\ live'[req'[o].doc] = req'[o].content
               /\ \A p \in Requests :
                    req'[p].pc = "filed" /\ req'[p].doc = req'[o].doc => p = o
    <3>1. CASE o = r
      BY <3>1, <1>1, <1>2, <1>3
    <3>2. CASE o # r
      <4>1. /\ req'[o] = req[o] /\ req[o].doc # d
            /\ req[o].doc \in Docs /\ doc[req[o].doc].state = "claimed"
            /\ live[req[o].doc] = req[o].content
        BY <3>2, <2>1, <1>1, <1>3 DEF CreateInv
      <4>2. \A p \in Requests : req[p].pc = "filed" /\ req[p].doc = req[o].doc => p = o
        BY <3>2, <2>1, <1>1 DEF CreateInv
      <4>3. \A p \in Requests : req'[p].pc = "filed" /\ req'[p].doc = req[o].doc
                                  => req'[p] = req[p]
        BY <4>1, <1>1
      <4> QED
        BY <4>1, <4>2, <4>3, <1>2
    <3> QED
      BY <3>1, <3>2
  <2>2. \A x \in Docs : doc'[x].state \in {"unused", "claimed"} =>
          \A n \in Versions : rows'[x][n].archived = 0
    BY <1>0, <1>2 DEF CreateInv
  <2> QED
    BY <2>1, <2>2 DEF CreateInv
<1> QED
  BY <1>4, <1>5, <1>6, <1>7, <1>8

\* What CommitNew changes: document d becomes live, and no other request
\* knows of it.
LEMMA CommitNewFacts ==
    ASSUME VersionInv, NEW r \in Requests, CommitNew(r)
    PROVE  LET d == req[r].doc IN
           /\ d \in Docs /\ doc[d].state = "claimed" /\ live[d] = req[r].content
           /\ req[r].content \in Contents
           /\ req'[r] = Free
           /\ \A o \in Requests : o # r => req'[o] = req[o]
           /\ doc'[d] = [state |-> "live", cur |-> 1]
           /\ \A x \in Docs : x # d => doc'[x] = doc[x] /\ was'[x] = was[x]
           /\ was'[d][1] = req[r].content
           /\ \A o \in Requests : req[o].pc = "filed" /\ req[o].doc = d => o = r
           /\ \A o \in Requests :
                req[o].pc # "idle" /\ req[o].kind \in Updates => req[o].doc # d
           /\ \A n \in Versions : rows[d][n].archived = 0
<1> USE DEF VersionInv
<1> DEFINE d == req[r].doc
<1>r. req[r] \in Request /\ req[r].pc = "filed" /\ req[r].kind = "create"
  BY DEF TypeOK, CommitNew
<1>1. /\ d \in Docs /\ doc[d].state = "claimed" /\ live[d] = req[r].content
      /\ \A o \in Requests : req[o].pc = "filed" /\ req[o].doc = d => o = r
      /\ \A n \in Versions : rows[d][n].archived = 0
  BY <1>r DEF CreateInv
<1>2. req[r].content \in Contents
  BY <1>r DEF ReqInv, Request
<1>3. /\ req'[r] = Free
      /\ \A o \in Requests : o # r => req'[o] = req[o]
  BY DEF CommitNew, TypeOK
<1>4. /\ doc'[d] = [state |-> "live", cur |-> 1]
      /\ \A x \in Docs : x # d => doc'[x] = doc[x]
  BY <1>1 DEF CommitNew, TypeOK
<1>5. 1 \in Versions
  BY VersionAssumption DEF Versions
<1>6. /\ was'[d][1] = req[r].content
      /\ \A x \in Docs : x # d => was'[x] = was[x]
  BY <1>1, <1>5 DEF CommitNew, TypeOK
<1>7. \A o \in Requests : req[o].pc # "idle" /\ req[o].kind \in Updates
        => req[o].doc # d
  BY <1>1 DEF ReqInv
<1> QED
  BY <1>1, <1>2, <1>3, <1>4, <1>6, <1>7

LEMMA CommitNewStep ==
    ASSUME VersionInv, NEW r \in Requests, CommitNew(r)
    PROVE  VersionInv'
<1> USE DEF VersionInv
<1>d. PICK d \in Docs : d = req[r].doc
  BY CommitNewFacts
<1>0. UNCHANGED <<rows, live, archive, served, disturbed>>
  BY DEF CommitNew
<1>1. /\ doc[d].state = "claimed" /\ doc'[d] = [state |-> "live", cur |-> 1]
      /\ \A x \in Docs : x # d => doc'[x] = doc[x]
      /\ req'[r] = Free
      /\ \A o \in Requests : o # r => req'[o] = req[o]
  BY <1>d, CommitNewFacts
<1>2. /\ \A o \in Requests : req[o].pc = "filed" /\ req[o].doc = d => o = r
      /\ \A o \in Requests :
           req[o].pc # "idle" /\ req[o].kind \in Updates => req[o].doc # d
  BY <1>d, CommitNewFacts
<1>3. TypeOK'
  <2>1. req[r].content \in Contents
    BY CommitNewFacts
  <2>2. [state |-> "live", cur |-> 1] \in Document
    BY VersionAssumption DEF Document
  <2>3. /\ was' \in [Docs -> [Versions -> Contents \cup {NoFile}]]
        /\ doc' \in [Docs -> Document]
        /\ req' \in [Requests -> Request]
    BY <2>1, <2>2, FreeIsRequest DEF CommitNew, TypeOK
  <2> QED
    BY <1>0, <2>3 DEF TypeOK
<1>4. FileInv'
  BY <1>0, <1>1 DEF FileInv
<1>5. ReqInv'
  <2> SUFFICES ASSUME NEW o \in Requests PROVE (ReqInv!(o))'
    BY DEF ReqInv
  <2>1. CASE o = r
    BY <2>1, <1>1 DEF Free, Updates
  <2>2. CASE o # r
    <3>1. req'[o] = req[o] /\ (req[o].pc # "idle" /\ req[o].kind \in Updates
                                => doc'[req[o].doc] = doc[req[o].doc])
      BY <2>2, <1>1, <1>2 DEF ReqInv
    <3> QED
      BY <3>1, <1>0 DEF ReqInv
  <2> QED
    BY <2>1, <2>2
<1>6. ListInv'
  <2>1. ASSUME NEW x \in Existing'
        PROVE  /\ \A n \in Versions : n < doc'[x].cur => rows'[x][n].archived > 0
               /\ \A o \in Requests :
                    req'[o].pc # "idle" /\ req'[o].kind \in Updates /\ req'[o].doc = x
                      => \A n \in Versions : n < req'[o].cur => rows'[x][n].archived > 0
    <3>1. CASE x = d
      <4>1. doc'[x].cur = 1
        BY <3>1, <1>1
      <4>2. \A o \in Requests :
              req'[o].pc # "idle" /\ req'[o].kind \in Updates => req'[o].doc # d
        BY <1>1, <1>2 DEF Free
      <4> QED
        BY <3>1, <4>1, <4>2 DEF Versions
    <3>2. CASE x # d
      <4>1. x \in Existing /\ doc'[x] = doc[x]
        BY <3>2, <1>1 DEF Existing
      <4>2. \A o \in Requests : req'[o].pc # "idle" => req'[o] = req[o]
        BY <1>1 DEF Free
      <4> QED
        BY <4>1, <4>2, <1>0 DEF ListInv, Listed
    <3> QED
      BY <3>1, <3>2
  <2> QED
    BY <2>1 DEF ListInv, Listed
<1>7. CreateInv'
  <2>1. \A o \in Requests : req'[o].pc = "filed" => o # r /\ req'[o] = req[o]
    BY <1>1 DEF Free
  <2>2. \A o \in Requests : req'[o].pc = "filed" => req[o].doc # d
    BY <2>1, <1>2
  <2> QED
    BY <2>1, <2>2, <1>0, <1>1 DEF CreateInv
<1> QED
  BY <1>3, <1>4, <1>5, <1>6, <1>7

LEMMA AbortStep ==
    ASSUME VersionInv, NEW r \in Requests, Abort(r)
    PROVE  VersionInv'
<1> USE DEF VersionInv
<1>1. req[r].kind \in Updates \/ req[r].kind = "create"
  BY DEF Abort, ReqInv, TypeOK, Request, Updates
<1>2. req[r].doc \in Docs
  BY <1>1 DEF Abort, ReqInv, CreateInv
<1> QED
  BY <1>2, RequestOnly DEF Abort, TypeOK

LEMMA DeleteStep ==
    ASSUME VersionInv, NEW d \in Docs, Delete(d)
    PROVE  VersionInv'
<1> USE DEF VersionInv
<1>0. UNCHANGED <<live, archive, req, served, was, disturbed>>
  BY DEF Delete
<1>1. /\ doc[d].state = "live"
      /\ doc'[d].state = "deleted" /\ doc'[d].cur = doc[d].cur
      /\ \A x \in Docs : x # d => doc'[x] = doc[x] /\ rows'[x] = rows[x]
      /\ \A n \in Versions : rows'[d][n].archived = 0
  BY DEF Delete, TypeOK, Document, Existing, NoRow
<1>2. TypeOK'
  <2>1. [doc[d] EXCEPT !.state = "deleted"] \in Document
    BY DEF TypeOK, Document
  <2>2. doc' \in [Docs -> Document]
    BY <2>1 DEF Delete, TypeOK
  <2>3. rows' \in [Docs -> [Versions -> [archived : Nat, restored : Nat]]]
    BY DEF Delete, TypeOK, NoRow
  <2> QED
    BY <1>0, <2>2, <2>3 DEF TypeOK
<1>3. FileInv'
  BY <1>0, <1>1 DEF FileInv
<1>4. ReqInv'
  <2> SUFFICES ASSUME NEW o \in Requests PROVE (ReqInv!(o))'
    BY DEF ReqInv
  <2>1. req[o].pc # "idle" /\ req[o].kind \in Updates =>
          doc'[req[o].doc].state \in {"live", "deleted"}
    BY <1>1 DEF ReqInv
  <2> QED
    BY <2>1, <1>0 DEF ReqInv
<1>5. ListInv'
  BY <1>0, <1>1 DEF ListInv, Listed, Existing
<1>6. CreateInv'
  BY <1>0, <1>1 DEF CreateInv
<1> QED
  BY <1>2, <1>3, <1>4, <1>5, <1>6

\* What a commit of a new version changes.
LEMMA CommitFacts ==
    ASSUME VersionInv, NEW r \in Requests, CommitVersion(r)
    PROVE  LET d == req[r].doc IN
           /\ d \in Existing /\ req[r].kind \in Updates
           /\ req[r].cur \in 1..(MaxVersion - 1)
           /\ req[r].cur \in Versions /\ req[r].cur + 1 \in Versions
           /\ req'[r] = Free
           /\ \A o \in Requests : o # r => req'[o] = req[o]
           /\ doc'[d].state = "live" /\ doc'[d].cur = req[r].cur + 1
           /\ \A x \in Docs : x # d => doc'[x] = doc[x] /\ rows'[x] = rows[x]
                                                        /\ was'[x] = was[x]
           /\ \A n \in Versions :
                rows'[d][n].archived = rows[d][n].archived
                                         + (IF n = req[r].cur THEN 1 ELSE 0)
           /\ rows'[d] \in [Versions -> [archived : Nat, restored : Nat]]
           /\ \A n \in Versions :
                was'[d][n] = IF n = req[r].cur + 1 THEN req[r].content ELSE was[d][n]
<1> USE DEF VersionInv
<1> DEFINE d == req[r].doc
<1>0. /\ d \in Existing /\ d \in Docs /\ req[r].kind \in Updates /\ req[r].pc = "filed"
      /\ req[r] \in Request
      /\ doc[d].state = "live"
  BY DEF CommitVersion, Existing, Updates, TypeOK
<1>1. req[r].cur \in 1..(MaxVersion - 1)
  BY <1>0 DEF ReqInv
<1>2. req[r].cur \in Versions /\ req[r].cur + 1 \in Versions
  BY <1>1, VersionAssumption DEF Versions
<1>3. /\ req'[r] = Free
      /\ \A o \in Requests : o # r => req'[o] = req[o]
  BY DEF CommitVersion, TypeOK
<1>4. /\ doc'[d].state = "live" /\ doc'[d].cur = req[r].cur + 1
      /\ \A x \in Docs : x # d => doc'[x] = doc[x]
  BY <1>0 DEF CommitVersion, TypeOK
<1>5. /\ \A x \in Docs : x # d => rows'[x] = rows[x]
      /\ rows'[d] = [n \in Versions |->
           [archived |-> rows[d][n].archived + (IF n = req[r].cur THEN 1 ELSE 0),
            restored |-> rows[d][n].restored + (IF req[r].kind = "restore"
                                                  /\ n = req[r].cur + 1 THEN 1 ELSE 0)]]
  BY <1>0 DEF CommitVersion, AddRows, TypeOK
<1>6. /\ \A n \in Versions :
           rows'[d][n].archived = rows[d][n].archived
                                    + (IF n = req[r].cur THEN 1 ELSE 0)
      /\ rows'[d] \in [Versions -> [archived : Nat, restored : Nat]]
  BY <1>0, <1>5 DEF TypeOK
<1>7. /\ \A x \in Docs : x # d => was'[x] = was[x]
      /\ \A n \in Versions :
           was'[d][n] = IF n = req[r].cur + 1 THEN req[r].content ELSE was[d][n]
  BY <1>0, <1>2 DEF CommitVersion, TypeOK
<1> QED
  BY <1>0, <1>1, <1>2, <1>3, <1>4, <1>5, <1>6, <1>7

LEMMA CommitVersionStep ==
    ASSUME VersionInv, NEW r \in Requests, CommitVersion(r)
    PROVE  VersionInv'
<1> USE DEF VersionInv
<1>d. PICK d \in Docs : d = req[r].doc
  BY CommitFacts DEF Existing
<1>0. UNCHANGED <<live, archive, served, disturbed>>
  BY DEF CommitVersion
<1>1. /\ d \in Existing /\ req[r].kind \in Updates /\ req[r].pc = "filed"
      /\ req[r].cur \in 1..(MaxVersion - 1)
      /\ req[r].cur \in Versions /\ req[r].cur + 1 \in Versions
      /\ req'[r] = Free
      /\ \A o \in Requests : o # r => req'[o] = req[o]
  BY <1>d, CommitFacts DEF CommitVersion
<1>2. /\ doc[d].state = "live" /\ doc'[d].state = "live" /\ doc'[d].cur = req[r].cur + 1
      /\ \A x \in Docs : x # d => doc'[x] = doc[x] /\ rows'[x] = rows[x]
      /\ rows'[d] \in [Versions -> [archived : Nat, restored : Nat]]
      /\ \A n \in Versions :
           rows'[d][n].archived = rows[d][n].archived
                                    + (IF n = req[r].cur THEN 1 ELSE 0)
  BY <1>d, CommitFacts DEF Existing
<1>3. \A x \in Docs, n \in Versions :
        /\ rows[x][n].archived \in Nat /\ rows'[x][n].archived \in Nat
        /\ rows'[x][n].archived >= rows[x][n].archived
        /\ (x # d \/ n # req[r].cur => rows'[x][n].archived = rows[x][n].archived)
  BY <1>1, <1>2 DEF TypeOK
<1>4. TypeOK'
  <2>1. req' \in [Requests -> Request]
    BY FreeIsRequest DEF CommitVersion, TypeOK
  <2>2. [doc[d] EXCEPT !.cur = req[r].cur + 1] \in Document
    <3>1. req[r].cur + 1 \in 0..MaxVersion /\ doc[d] \in Document
      BY <1>1, VersionAssumption DEF TypeOK
    <3> QED
      BY <3>1 DEF Document
  <2>3. doc' \in [Docs -> Document]
    BY <1>d, <2>2 DEF CommitVersion, TypeOK
  <2>4. rows' \in [Docs -> [Versions -> [archived : Nat, restored : Nat]]]
    <3>1. DOMAIN rows' = Docs /\ rows' = [x \in Docs |-> rows'[x]]
      BY <1>d DEF CommitVersion, AddRows, TypeOK
    <3>2. \A x \in Docs : rows'[x] \in [Versions -> [archived : Nat, restored : Nat]]
      BY <1>2 DEF TypeOK
    <3> QED
      BY <3>1, <3>2
  <2>5. was' \in [Docs -> [Versions -> Contents \cup {NoFile}]]
    <3>1. req[r].content \in Contents \cup {NoFile}
      BY DEF TypeOK, Request
    <3> QED
      BY <3>1 DEF CommitVersion, TypeOK
  <2> QED
    BY <1>0, <2>1, <2>3, <2>4, <2>5 DEF TypeOK
<1>5. FileInv'
  <2>1. archive[d][req[r].cur] # NoFile
    BY <1>d, <1>1 DEF ReqInv
  <2>2. \A x \in Docs, n \in Versions :
          rows'[x][n].archived > 0 => archive'[x][n] # NoFile
    <3> SUFFICES ASSUME NEW x \in Docs, NEW n \in Versions, rows'[x][n].archived > 0
                 PROVE archive[x][n] # NoFile
      BY <1>0
    <3>1. CASE x = d /\ n = req[r].cur
      BY <3>1, <2>1
    <3>2. CASE ~(x = d /\ n = req[r].cur)
      BY <3>2, <1>3 DEF FileInv
    <3> QED
      BY <3>1, <3>2
  <2>3. /\ \A x \in Docs : doc'[x].state # "unused" => live'[x] # NoFile
        /\ \A x \in Docs : doc'[x].state \in {"live", "deleted"} => doc'[x].cur >= 1
    BY <1>0, <1>1, <1>2 DEF FileInv
  <2> QED
    BY <2>2, <2>3 DEF FileInv
<1>6. ReqInv'
  <2> SUFFICES ASSUME NEW o \in Requests PROVE (ReqInv!(o))'
    BY DEF ReqInv
  <2>1. CASE o = r
    BY <2>1, <1>1 DEF Free, Updates
  <2>2. CASE o # r
    <3>1. req'[o] = req[o]
      BY <2>2, <1>1
    <3>2. req[o].pc # "idle" /\ req[o].kind \in Updates =>
            doc'[req[o].doc].state \in {"live", "deleted"}
      BY <1>2 DEF ReqInv
    <3> QED
      BY <3>1, <3>2, <1>0 DEF ReqInv
  <2> QED
    BY <2>1, <2>2
<1>7. ListInv'
  <2>1. ASSUME NEW x \in Existing'
        PROVE  /\ \A n \in Versions : n < doc'[x].cur => rows'[x][n].archived > 0
               /\ \A o \in Requests :
                    req'[o].pc # "idle" /\ req'[o].kind \in Updates /\ req'[o].doc = x
                      => \A n \in Versions : n < req'[o].cur => rows'[x][n].archived > 0
    <3>1. x \in Docs /\ x \in Existing
      BY <1>1, <1>2 DEF Existing
    <3>2. \A o \in Requests : req'[o].pc # "idle" => req'[o] = req[o]
      BY <1>1 DEF Free
    <3>3. \A o \in Requests :
            req'[o].pc # "idle" /\ req'[o].kind \in Updates /\ req'[o].doc = x
              => \A n \in Versions : n < req'[o].cur => rows[x][n].archived > 0
      BY <3>1, <3>2 DEF ListInv, Listed
    <3>4. \A n \in Versions : n < doc'[x].cur => rows'[x][n].archived > 0
      <4>1. CASE x = d
        <5>1. \A n \in Versions : n < req[r].cur => rows[x][n].archived > 0
          BY <4>1, <1>1, <1>d DEF ListInv, Listed
        <5>2. rows'[x][req[r].cur].archived > 0
          BY <4>1, <1>1, <1>2, <1>3
        <5>3. \A n \in Versions : n < doc'[x].cur => n < req[r].cur \/ n = req[r].cur
          BY <4>1, <1>1, <1>2 DEF Versions
        <5> QED
          BY <3>1, <5>1, <5>2, <5>3, <1>3
      <4>2. CASE x # d
        <5>1. \A n \in Versions : n < doc[x].cur => rows[x][n].archived > 0
          BY <3>1 DEF ListInv, Listed
        <5> QED
          BY <4>2, <5>1, <3>1, <1>2
      <4> QED
        BY <4>1, <4>2
    <3> QED
      BY <3>1, <3>3, <3>4, <1>3
  <2> QED
    BY <2>1 DEF ListInv, Listed
<1>8. CreateInv'
  <2>1. \A o \in Requests : req'[o].pc = "filed" => o # r /\ req'[o] = req[o]
    BY <1>1 DEF Free
  <2>2. \A o \in Requests : req'[o].pc = "filed" /\ req'[o].kind = "create"
          => doc'[req[o].doc] = doc[req[o].doc]
    BY <2>1, <1>2 DEF CreateInv
  <2> QED
    BY <2>1, <2>2, <1>0, <1>2 DEF CreateInv
<1> QED
  BY <1>4, <1>5, <1>6, <1>7, <1>8

LEMMA VersionStep == VersionInv /\ [Next]_vars => VersionInv'
<1> SUFFICES ASSUME VersionInv, [Next]_vars PROVE VersionInv'
  OBVIOUS
<1>1. CASE UNCHANGED vars
  BY <1>1 DEF vars, VersionInv, TypeOK, FileInv, ReqInv, ListInv, Listed, Existing,
     CreateInv
<1>2. ASSUME NEW r \in Requests, RequestStep(r) PROVE VersionInv'
  BY <1>2, LookupSteps, FileSteps, WriteNewStep, CommitNewStep, CommitVersionStep,
     AbortStep DEF RequestStep
<1>3. ASSUME NEW d \in Docs, Delete(d) PROVE VersionInv'
  BY <1>3, DeleteStep
<1> QED
  BY <1>1, <1>2, <1>3 DEF Next

----------------------------------------------------------------------------

\* A step that leaves d and the requests that have changed it alone.
LEMMA KeptFrame ==
    ASSUME NEW d \in Docs, Kept(d),
           doc'[d] = doc[d], rows'[d] = rows[d], live'[d] = live[d],
           archive'[d] = archive[d], was'[d] = was[d],
           \A o \in Requests :
             \/ req'[o] = req[o]
             \/ /\ ~FiledOn(o, d)
                /\ \/ req'[o].pc \in {"idle", "target"} \/ req'[o].doc # d
                   \/ (req'[o].pc = "found" /\ (req'[o].kind = "restore"
                          => req'[o].target < doc[d].cur))
    PROVE  Kept(d)'
<1>1. \A o \in Requests : FiledOn(o, d)' => req'[o] = req[o] /\ FiledOn(o, d)
  BY DEF FiledOn
<1>2. \A o \in Requests : FiledOn(o, d) => FiledOn(o, d)'
  BY DEF FiledOn
<1>3. \A o \in Requests :
        req'[o].pc = "found" /\ req'[o].kind = "restore" /\ req'[o].doc = d
          => req'[o].target < doc[d].cur
  BY DEF Kept
<1> QED
  BY <1>1, <1>2, <1>3 DEF Kept
LEMMA HistLookups ==
    ASSUME VersionInv, HistInv, NEW r \in Requests,
           \/ UploadNew(r) \/ UploadFails(r) \/ FindTarget(r)
           \/ \E d \in Docs : UploadVersion(r, d)
           \/ \E d \in Docs, n \in Versions : Restore(r, d, n)
    PROVE  HistInv'
<1>0. UNCHANGED <<doc, rows, live, archive, was, disturbed>>
  BY DEF UploadNew, UploadFails, FindTarget, UploadVersion, Restore
<1>1. SUFFICES ASSUME NEW x \in Existing, x \notin disturbed PROVE Kept(x)'
  BY <1>0 DEF HistInv, Existing
<1>2. /\ x \in Docs /\ Kept(x) /\ req \in [Requests -> Request]
      /\ doc[x].cur >= 1 /\ doc[x].cur \in Nat
  BY <1>1 DEF HistInv, Existing, VersionInv, TypeOK, Document, FileInv
<1>3. \A o \in Requests : o # r => req'[o] = req[o]
  BY <1>2 DEF UploadNew, UploadFails, FindTarget, UploadVersion, Restore
<1>4. ~FiledOn(r, x)
  BY DEF UploadNew, UploadFails, FindTarget, UploadVersion, Restore, Serve, FiledOn
<1>5. \/ req'[r] = req[r]
      \/ req'[r].pc \in {"idle", "target"} \/ req'[r].doc # x
      \/ (req'[r].pc = "found" /\ (req'[r].kind = "restore"
                                     => req'[r].target < doc[x].cur))
  <2>1. CASE UploadNew(r) \/ \E d \in Docs : UploadVersion(r, d)
    BY <2>1, <1>2 DEF UploadNew, UploadVersion
  <2>2. CASE UploadFails(r)
    BY <2>2 DEF UploadFails
  <2>3. CASE \E d \in Docs, n \in Versions : Restore(r, d, n)
    BY <2>3, <1>2 DEF Restore
  <2>4. CASE FindTarget(r)
    <3> DEFINE n == req[r].target
    <3>1. n \in Versions /\ req[r] \in Request
      BY <2>4, <1>2 DEF FindTarget, VersionInv, ReqInv
    <3>2. CASE req'[r] = Free
      BY <3>2 DEF Free
    <3>3. CASE /\ RowCount(req[r].doc, n) = 1
               /\ req'[r] = [req[r] EXCEPT !.pc = "found", !.target = Target(req[r].doc, n)]
      <4>1. /\ req'[r].doc = req[r].doc /\ req'[r].pc = "found"
            /\ req'[r].target = Target(req[r].doc, n)
        BY <3>1, <3>3 DEF Request
      <4>2. req[r].doc = x => Target(x, n) < doc[x].cur
        <5>1. rows[x][n].archived # 0 => n < doc[x].cur
          BY <1>2, <3>1 DEF Kept
        <5> QED
          BY <5>1, <1>2 DEF Target
      <4> QED
        BY <4>1, <4>2
    <3> QED
      BY <2>4, <1>2, <3>2, <3>3 DEF FindTarget
  <2> QED
    BY <2>1, <2>2, <2>3, <2>4
<1>6. \A o \in Requests :
        \/ req'[o] = req[o]
        \/ /\ ~FiledOn(o, x)
           /\ \/ req'[o].pc \in {"idle", "target"} \/ req'[o].doc # x
                   \/ (req'[o].pc = "found" /\ (req'[o].kind = "restore"
                          => req'[o].target < doc[x].cur))
  BY <1>3, <1>4, <1>5
<1>7. /\ doc'[x] = doc[x] /\ rows'[x] = rows[x] /\ live'[x] = live[x]
      /\ archive'[x] = archive[x] /\ was'[x] = was[x]
  BY <1>0
<1> QED
  BY <1>2, <1>6, <1>7, KeptFrame

\* The file steps of a request r whose document d stays undisturbed.
LEMMA HistFiles ==
    ASSUME VersionInv, HistInv, NEW r \in Requests,
           WriteVersion(r) \/ WriteRestored(r) \/ RestoreFails(r)
    PROVE  HistInv'
<1> DEFINE d == req[r].doc
<1>0. /\ req[r].pc = "found" /\ req[r].kind \in Updates /\ req[r] \in Request
      /\ UNCHANGED <<doc, rows, was>> /\ archive' = Archived(r)
      /\ req \in [Requests -> Request]
      /\ disturbed' = IF Disturbs(r) THEN disturbed \cup {d} ELSE disturbed
  BY DEF WriteVersion, WriteRestored, RestoreFails, Updates, VersionInv, TypeOK,
     NoteDisturbance
<1>a. /\ d \in Docs /\ req[r].cur \in Versions
      /\ archive'[d][req[r].cur] = live[d]
      /\ \A x \in Docs, n \in Versions :
           x # d \/ n # req[r].cur => archive'[x][n] = archive[x][n]
  BY <1>0, ArchivedFacts
<1>b. \A x \in Docs : x # d => archive'[x] = archive[x]
  BY <1>0, <1>a DEF Archived, VersionInv, TypeOK
<1>c. \A o \in Requests : o # r => req'[o] = req[o]
  BY <1>0 DEF WriteVersion, WriteRestored, RestoreFails
<1>l. \A x \in Docs : x # d => live'[x] = live[x]
  BY DEF WriteVersion, WriteRestored, RestoreFails, VersionInv, TypeOK
<1>i. req'[r] = Free \/ (req'[r].pc = "filed" /\ req'[r].doc = d)
  <2>1. CASE WriteVersion(r)
    BY <1>0, <2>1 DEF WriteVersion, Request
  <2>2. CASE WriteRestored(r)
    <3>1. PICK c : req' = [req EXCEPT ![r].pc = "filed", ![r].content = c]
      BY <2>2 DEF WriteRestored
    <3> QED
      BY <1>0, <3>1 DEF Request
  <2>3. CASE RestoreFails(r)
    BY <1>0, <2>3 DEF RestoreFails
  <2> QED
    BY <2>1, <2>2, <2>3
<1>1. SUFFICES ASSUME NEW x \in Existing, x \notin disturbed' PROVE Kept(x)'
  BY <1>0 DEF HistInv, Existing
<1>2. x \in Docs /\ x \notin disturbed /\ Kept(x) /\ doc[x].cur \in Nat
  BY <1>0, <1>1 DEF HistInv, Existing, VersionInv, TypeOK, Document
<1>3. CASE x # d
  <2>1. ~FiledOn(r, x)
    BY <1>0 DEF FiledOn
  <2>2. req'[r].pc = "idle" \/ req'[r].doc # x
    BY <1>3, <1>i DEF Free
  <2>3. \A o \in Requests :
          \/ req'[o] = req[o]
          \/ /\ ~FiledOn(o, x)
             /\ \/ req'[o].pc \in {"idle", "target"} \/ req'[o].doc # x
                   \/ (req'[o].pc = "found" /\ (req'[o].kind = "restore"
                          => req'[o].target < doc[x].cur))
    BY <1>c, <2>1, <2>2
  <2>4. /\ doc'[x] = doc[x] /\ rows'[x] = rows[x] /\ live'[x] = live[x]
        /\ archive'[x] = archive[x] /\ was'[x] = was[x]
    BY <1>0, <1>2, <1>3, <1>b, <1>l
  <2> QED
    BY <1>2, <2>3, <2>4, KeptFrame
<1>4. CASE x = d
  <2>1. /\ doc[x].cur = req[r].cur
        /\ \A o \in Requests : ~FiledOn(o, x)
    BY <1>0, <1>1, <1>4 DEF Disturbs, FiledOn
  <2>2. live[x] = was[x][doc[x].cur] /\ archive'[x][doc[x].cur] = was[x][doc[x].cur]
    BY <1>2, <1>4, <1>a, <2>1 DEF Kept
  <2>3. \A n \in Versions : n < doc[x].cur => archive'[x][n] = was[x][n]
    BY <1>2, <1>a, <2>1 DEF Kept
  <2>4. \A n \in Versions : rows'[x][n].archived = IF n < doc'[x].cur THEN 1 ELSE 0
    BY <1>0, <1>2 DEF Kept
  <2>5. \A o \in Requests :
          req'[o].pc = "found" /\ req'[o].kind = "restore" /\ req'[o].doc = x
            => req'[o].target < doc'[x].cur
    BY <1>0, <1>2, <1>c, <1>i DEF Kept, Free
  <2>6. CASE RestoreFails(r)
    <3>1. req'[r] = Free /\ live' = live
      BY <1>0, <2>6 DEF RestoreFails
    <3>2. \A o \in Requests : ~FiledOn(o, x)'
      BY <2>1, <3>1, <1>c DEF FiledOn, Free
    <3> QED
      BY <1>0, <2>2, <2>3, <2>4, <2>5, <3>1, <3>2 DEF Kept
  <2>7. CASE WriteVersion(r)
    <3>1. /\ req'[r].pc = "filed" /\ req'[r].doc = d /\ req'[r].cur = req[r].cur
          /\ req'[r].kind = "bump" /\ req'[r].content = req[r].content
          /\ live'[x] = req[r].content
      BY <1>0, <1>2, <1>4, <2>7 DEF WriteVersion, VersionInv, TypeOK, Request
    <3>2. FiledOn(r, x)' /\ \A o \in Requests : FiledOn(o, x)' => o = r
      BY <1>4, <2>1, <3>1, <1>c DEF FiledOn
    <3> QED
      BY <1>0, <2>1, <2>2, <2>3, <2>4, <2>5, <3>1, <3>2 DEF Kept
  <2>8. CASE WriteRestored(r)
    <3> DEFINE c == Archived(r)[d][req[r].target]
    <3>0. /\ req' = [req EXCEPT ![r].pc = "filed", ![r].content = c]
          /\ live' = [live EXCEPT ![d] = c]
          /\ req[r].target # 0 /\ req[r].kind = "restore"
      BY <2>8 DEF WriteRestored
    <3>1. /\ req'[r].pc = "filed" /\ req'[r].doc = d /\ req'[r].cur = req[r].cur
          /\ req'[r].kind = "restore" /\ req'[r].content = c
          /\ req'[r].target = req[r].target /\ live'[x] = c
      BY <1>0, <1>2, <1>4, <3>0 DEF VersionInv, TypeOK, Request
    <3>2. FiledOn(r, x)' /\ \A o \in Requests : FiledOn(o, x)' => o = r
      BY <1>4, <2>1, <3>1, <1>c DEF FiledOn
    <3>3. req[r].target \in Versions /\ req[r].target < doc[x].cur
      BY <1>0, <1>2, <1>4, <3>0 DEF Request, Versions, Kept
    <3>4. c = was[x][req[r].target]
      BY <1>0, <1>2, <1>4, <1>a, <2>3, <3>3
    <3> HIDE DEF c
    <3> QED
      BY <1>0, <2>1, <2>2, <2>3, <2>4, <2>5, <3>1, <3>2, <3>3, <3>4 DEF Kept
  <2> QED
    BY <2>6, <2>7, <2>8
<1> QED
  BY <1>3, <1>4
\* A step of a request that has not changed, and will not have changed, x.
LEMMA OtherDocument ==
    ASSUME NEW x \in Docs, NEW r \in Requests, Kept(x), ~FiledOn(r, x),
           \A o \in Requests : o # r => req'[o] = req[o],
           req'[r] = Free \/ req'[r].doc # x,
           doc'[x] = doc[x], rows'[x] = rows[x], live'[x] = live[x],
           archive'[x] = archive[x], was'[x] = was[x]
    PROVE  Kept(x)'
<1>1. \A o \in Requests :
        \/ req'[o] = req[o]
        \/ /\ ~FiledOn(o, x)
           /\ \/ req'[o].pc \in {"idle", "target"} \/ req'[o].doc # x
              \/ (req'[o].pc = "found" /\ (req'[o].kind = "restore"
                     => req'[o].target < doc[x].cur))
  BY DEF Free
<1> QED
  BY <1>1, KeptFrame

LEMMA HistCreates ==
    ASSUME VersionInv, HistInv, NEW r \in Requests,
           CommitNew(r) \/ \E d \in Docs : WriteNew(r, d)
    PROVE  HistInv'
<1>0. UNCHANGED <<rows, archive, disturbed>>
  BY DEF CommitNew, WriteNew
<1>1. ASSUME NEW d \in Docs, WriteNew(r, d) PROVE HistInv'
  <2>0. UNCHANGED was /\ ~\E x \in Docs : FiledOn(r, x)
    BY <1>1 DEF WriteNew, FiledOn
  <2>1. SUFFICES ASSUME NEW x \in Existing', x \notin disturbed PROVE Kept(x)'
    BY <1>0 DEF HistInv, Existing
  <2>2. x \in Docs /\ x # d /\ x \in Existing /\ doc'[x] = doc[x] /\ live'[x] = live[x]
    BY <1>1, <2>1, WriteNewFacts DEF Existing
  <2>3. /\ req'[r].doc = d
        /\ \A o \in Requests : o # r => req'[o] = req[o]
    BY <1>1, WriteNewFacts
  <2> QED
    BY <1>0, <2>0, <2>1, <2>2, <2>3, OtherDocument DEF HistInv
<1>2. CASE CommitNew(r)
  <2>d. PICK d \in Docs : d = req[r].doc
    BY <1>2, CommitNewFacts
  <2>0. UNCHANGED live /\ FiledOn(r, d)
    BY <1>2, <2>d DEF CommitNew, FiledOn
  <2>f. /\ live[d] = req[r].content
        /\ req'[r] = Free
        /\ \A o \in Requests : o # r => req'[o] = req[o]
        /\ doc'[d] = [state |-> "live", cur |-> 1]
        /\ \A x \in Docs : x # d => doc'[x] = doc[x] /\ was'[x] = was[x]
        /\ was'[d][1] = req[r].content
        /\ \A o \in Requests : req[o].pc = "filed" /\ req[o].doc = d => o = r
        /\ \A o \in Requests :
             req[o].pc # "idle" /\ req[o].kind \in Updates => req[o].doc # d
        /\ \A n \in Versions : rows[d][n].archived = 0
    BY <1>2, <2>d, CommitNewFacts
  <2>1. SUFFICES ASSUME NEW x \in Existing', x \notin disturbed PROVE Kept(x)'
    BY <1>0 DEF HistInv, Existing
  <2>2. CASE x = d
    <3>1. doc'[x].cur = 1 /\ live'[x] = was'[x][1]
      BY <2>2, <2>0, <2>f
    <3>2. \A o \in Requests : ~FiledOn(o, x)'
      BY <2>2, <2>f DEF FiledOn, Free
    <3>3. \A o \in Requests : req'[o].pc = "found" /\ req'[o].kind = "restore"
                                => req'[o].doc # x
      BY <2>2, <2>f DEF Free, Updates
    <3>4. \A n \in Versions : rows'[x][n].archived = 0 /\ ~(n < 1)
      BY <2>2, <2>f, <1>0 DEF Versions
    <3> QED
      BY <3>1, <3>2, <3>3, <3>4 DEF Kept
  <2>3. CASE x # d
    <3>1. x \in Docs /\ x \in Existing /\ doc'[x] = doc[x] /\ was'[x] = was[x]
      BY <2>1, <2>3, <2>f DEF Existing
    <3>2. ~FiledOn(r, x) /\ Kept(x)
      BY <2>1, <2>3, <2>d, <3>1 DEF FiledOn, HistInv
    <3> QED
      BY <1>0, <2>0, <2>f, <3>1, <3>2, OtherDocument
  <2> QED
    BY <2>2, <2>3
<1> QED
  BY <1>1, <1>2

LEMMA HistCommits ==
    ASSUME VersionInv, HistInv, NEW r \in Requests, CommitVersion(r)
    PROVE  HistInv'
<1>d. PICK d \in Docs : d = req[r].doc
  BY CommitFacts DEF Existing
<1>0. UNCHANGED <<live, archive, disturbed>> /\ FiledOn(r, d)
  BY <1>d DEF CommitVersion, FiledOn
<1>1. /\ d \in Existing
      /\ req[r].cur \in Versions /\ req[r].cur + 1 \in Versions
      /\ req'[r] = Free
      /\ \A o \in Requests : o # r => req'[o] = req[o]
      /\ doc'[d].cur = req[r].cur + 1
      /\ \A x \in Docs : x # d => doc'[x] = doc[x] /\ rows'[x] = rows[x]
                                                   /\ was'[x] = was[x]
  BY <1>d, CommitFacts
<1>2. /\ \A n \in Versions :
           rows'[d][n].archived = rows[d][n].archived
                                    + (IF n = req[r].cur THEN 1 ELSE 0)
      /\ \A n \in Versions :
           was'[d][n] = IF n = req[r].cur + 1 THEN req[r].content ELSE was[d][n]
  BY <1>d, CommitFacts
<1>3. SUFFICES ASSUME NEW x \in Existing', x \notin disturbed PROVE Kept(x)'
  BY <1>0 DEF HistInv, Existing
<1>4. CASE x # d
  <2>1. x \in Docs /\ x \in Existing /\ Kept(x)
    BY <1>1, <1>3, <1>4 DEF Existing, HistInv
  <2>2. ~FiledOn(r, x)
    BY <1>d, <1>4 DEF FiledOn
  <2> QED
    BY <1>0, <1>1, <1>4, <2>1, <2>2, OtherDocument
<1>5. CASE x = d
  <2>1. Kept(x)
    BY <1>1, <1>3, <1>5 DEF HistInv
  <2>2. /\ req[r].cur = doc[x].cur /\ live[x] = req[r].content
        /\ archive[x][doc[x].cur] = was[x][doc[x].cur]
        /\ \A o \in Requests : FiledOn(o, x) => o = r
    BY <2>1, <1>0, <1>5 DEF Kept
  <2>3. /\ doc[x].cur \in Versions /\ doc[x].cur + 1 \in Versions
        /\ doc'[x].cur = doc[x].cur + 1
        /\ \A n \in Versions : n < doc'[x].cur <=> (n < doc[x].cur \/ n = doc[x].cur)
    BY <1>1, <1>5, <2>2 DEF Versions
  <2>4. \A n \in Versions : rows'[x][n].archived = IF n < doc'[x].cur THEN 1 ELSE 0
    <3> SUFFICES ASSUME NEW n \in Versions
                 PROVE  rows'[x][n].archived = IF n < doc'[x].cur THEN 1 ELSE 0
      OBVIOUS
    <3>1. rows[x][n].archived = IF n < doc[x].cur THEN 1 ELSE 0
      BY <2>1 DEF Kept
    <3>2. rows'[x][n].archived = rows[x][n].archived + (IF n = doc[x].cur THEN 1 ELSE 0)
      BY <1>2, <1>5, <2>2
    <3> QED
      BY <3>1, <3>2, <2>3 DEF Versions
  <2>5. \A n \in Versions : n < doc'[x].cur => archive'[x][n] = was'[x][n]
    <3> SUFFICES ASSUME NEW n \in Versions, n < doc'[x].cur
                 PROVE  archive'[x][n] = was'[x][n]
      OBVIOUS
    <3>1. was'[x][n] = was[x][n]
      BY <1>2, <1>5, <2>2, <2>3 DEF Versions
    <3>2. archive[x][n] = was[x][n]
      BY <2>1, <2>2, <2>3 DEF Kept
    <3> QED
      BY <1>0, <3>1, <3>2
  <2>6. live'[x] = was'[x][doc'[x].cur]
    BY <1>0, <1>2, <1>5, <2>2, <2>3
  <2>7. \A o \in Requests : ~FiledOn(o, x)'
    BY <1>1, <2>2 DEF FiledOn, Free
  <2>8. \A o \in Requests :
          req'[o].pc = "found" /\ req'[o].kind = "restore" /\ req'[o].doc = x
            => req'[o].target < doc'[x].cur
    <3> SUFFICES ASSUME NEW o \in Requests, req'[o].pc = "found",
                        req'[o].kind = "restore", req'[o].doc = x
                 PROVE  req'[o].target < doc'[x].cur
      OBVIOUS
    <3>1. req'[o] = req[o]
      BY <1>1 DEF Free
    <3>2. req[o].target < doc[x].cur /\ req[o].target \in 0..MaxVersion
      BY <2>1, <3>1 DEF Kept, VersionInv, TypeOK, Request
    <3> QED
      BY <3>1, <3>2, <2>3, VersionAssumption DEF Versions
  <2> QED
    BY <2>4, <2>5, <2>6, <2>7, <2>8 DEF Kept
<1> QED
  BY <1>4, <1>5

LEMMA HistAborts ==
    ASSUME VersionInv, HistInv, NEW r \in Requests, Abort(r)
    PROVE  HistInv'
<1>0. /\ UNCHANGED <<doc, rows, live, archive, was>>
      /\ disturbed' = disturbed \cup {req[r].doc}
      /\ req'[r] = Free
      /\ \A o \in Requests : o # r => req'[o] = req[o]
  BY DEF Abort, VersionInv, TypeOK
<1>1. SUFFICES ASSUME NEW x \in Existing, x \notin disturbed, x # req[r].doc
               PROVE  Kept(x)'
  BY <1>0 DEF HistInv, Existing
<1>2. x \in Docs /\ Kept(x) /\ ~FiledOn(r, x)
  BY <1>1 DEF HistInv, Existing, FiledOn
<1> QED
  BY <1>0, <1>2, OtherDocument

LEMMA HistDeletes ==
    ASSUME VersionInv, HistInv, NEW d \in Docs, Delete(d)
    PROVE  HistInv'
<1>0. UNCHANGED <<live, archive, req, was, disturbed>>
  BY DEF Delete
<1>1. SUFFICES ASSUME NEW x \in Existing', x \notin disturbed PROVE Kept(x)'
  BY <1>0 DEF HistInv, Existing
<1>2. x \in Docs /\ x \in Existing /\ doc'[x] = doc[x] /\ rows'[x] = rows[x]
  BY <1>1 DEF Delete, Existing, VersionInv, TypeOK, Document
<1> QED
  BY <1>0, <1>1, <1>2, KeptFrame DEF HistInv

LEMMA HistStep == VersionInv /\ HistInv /\ [Next]_vars => HistInv'
<1> SUFFICES ASSUME VersionInv, HistInv, [Next]_vars PROVE HistInv'
  OBVIOUS
<1>1. CASE UNCHANGED vars
  BY <1>1 DEF vars, HistInv, Kept, FiledOn, Existing
<1>2. ASSUME NEW r \in Requests, RequestStep(r) PROVE HistInv'
  BY <1>2, HistLookups, HistFiles, HistCreates, HistCommits, HistAborts DEF RequestStep
<1>3. ASSUME NEW d \in Docs, Delete(d) PROVE HistInv'
  BY <1>3, HistDeletes
<1> QED
  BY <1>1, <1>2, <1>3 DEF Next

----------------------------------------------------------------------------

\* Every variable keeps its type; in particular no commit, however stale what
\* its request read, makes a version number that is out of range.
THEOREM VersionsTypeCorrect == Spec => []TypeOK
<1>1. Init => VersionInv
  BY VersionInit
<1>2. VersionInv => TypeOK
  BY DEF VersionInv
<1> QED
  BY <1>1, <1>2, VersionStep, PTL DEF Spec

\* restore_version finds a row and a file for every number below the current
\* one, whatever uploads and restores overlapped, failed or died.
THEOREM VersionListHasNoGap == Spec => []EveryNumberIsListed
<1>1. Init => VersionInv
  BY VersionInit
<1>2. VersionInv => EveryNumberIsListed
  <2> SUFFICES ASSUME VersionInv, NEW d \in Existing, NEW n \in 1..(doc[d].cur - 1)
               PROVE  rows[d][n].archived > 0 /\ archive[d][n] # NoFile
    BY DEF EveryNumberIsListed
  <2>1. d \in Docs /\ doc[d].cur \in 0..MaxVersion
    BY DEF VersionInv, TypeOK, Document, Existing
  <2>2. n \in Versions /\ n < doc[d].cur
    BY <2>1, VersionAssumption DEF Versions
  <2> QED
    BY <2>1, <2>2 DEF VersionInv, ListInv, Listed, FileInv
<1> QED
  BY <1>1, <1>2, VersionStep, PTL DEF Spec

\* As long as requests on a document do not overlap or die half-way, each of
\* its versions stays archived once, with the content it was committed with.
THEOREM HistoryIsKept == Spec => []HistoryKept
<1>1. Init => VersionInv /\ HistInv
  BY VersionInit
<1>2. VersionInv /\ HistInv /\ [Next]_vars => (VersionInv /\ HistInv)'
  BY VersionStep, HistStep
<1>3. VersionInv /\ HistInv => HistoryKept
  <2> SUFFICES ASSUME VersionInv, HistInv, NEW d \in Existing \ disturbed
               PROVE  /\ \A n \in 1..(doc[d].cur - 1) :
                           rows[d][n].archived = 1 /\ archive[d][n] = was[d][n]
                      /\ (\A r \in Requests : req[r].pc = "filed" => req[r].doc # d)
                           => live[d] = was[d][doc[d].cur]
    BY DEF HistoryKept
  <2>1. d \in Docs /\ doc[d].cur \in 0..MaxVersion /\ Kept(d)
    BY DEF VersionInv, TypeOK, Document, Existing, HistInv
  <2>2. \A n \in 1..(doc[d].cur - 1) : n \in Versions /\ n < doc[d].cur
    BY <2>1, VersionAssumption DEF Versions
  <2> QED
    BY <2>1, <2>2 DEF Kept, FiledOn
<1> QED
  BY <1>1, <1>2, <1>3, PTL DEF Spec

\* A restore that goes through, on such a document, brings back the content
\* of the version it names.
THEOREM RestoresBringBack == Spec => RestoreBringsBack
<1>1. Init => VersionInv /\ HistInv
  BY VersionInit
<1>2. VersionInv /\ HistInv /\ [Next]_vars => (VersionInv /\ HistInv)'
  BY VersionStep, HistStep
<1> DEFINE Back == \A r \in Requests :
             LET d == req[r].doc IN
             (req[r].kind = "restore" /\ CommitVersion(r) /\ d \notin disturbed)
               => was'[d][doc'[d].cur] = was[d][req[r].target]
<1>3. VersionInv /\ HistInv => Back
  <2> SUFFICES ASSUME VersionInv, HistInv, NEW r \in Requests,
                      req[r].kind = "restore", CommitVersion(r),
                      req[r].doc \notin disturbed
               PROVE  was'[req[r].doc][doc'[req[r].doc].cur]
                        = was[req[r].doc][req[r].target]
    OBVIOUS
  <2>1. Kept(req[r].doc) /\ FiledOn(r, req[r].doc)
    BY CommitFacts DEF HistInv, FiledOn, CommitVersion
  <2>2. req[r].content = was[req[r].doc][req[r].target]
    BY <2>1 DEF Kept
  <2>3. /\ doc'[req[r].doc].cur = req[r].cur + 1
        /\ was'[req[r].doc][req[r].cur + 1] = req[r].content
    BY CommitFacts
  <2> QED
    BY <2>2, <2>3
<1> QED
  BY <1>1, <1>2, <1>3, PTL DEF Spec, RestoreBringsBack
=============================================================================
