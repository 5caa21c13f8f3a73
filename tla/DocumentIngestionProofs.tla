----------------------- MODULE DocumentIngestionProofs -----------------------
(***************************************************************************)
(* Proofs about DocumentIngestion, for every set of documents, contents,   *)
(* jobs and workers, every number of batches and every fault budget.       *)
(***************************************************************************)
EXTENDS DocumentIngestion, TLAPS

\* Where a job stands in its insertion loop, and that only a queued task can
\* be in the broker; TypeOK is not inductive without it, because next must
\* stay within the batches there are.
LoopInv ==
    \A j \in Jobs :
        /\ pc[j] \notin {"inserting", "indexing", "committing", "failing"}
             => next[j] = 1
        /\ pc[j] \in {"embedding", "inserting", "indexing", "committing"}
             => parsed[j] \in Contents /\ Batches[parsed[j]] > 0
        /\ pc[j] = "inserting" => next[j] <= Batches[parsed[j]]
        /\ host[j] = "broker" => pc[j] = "queued"

TypeInv == TypeOK /\ LoopInv

\* The parts of TypeOK, by the helper that keeps them.
DocTypeOK ==
    /\ status \in [Docs -> Terminal \cup InProgress \cup {"absent", "deleted"}]
    /\ chunkCount \in [Docs -> 0..MaxBatches]
    /\ logged \in [Docs -> BOOLEAN]
    /\ file \in [Docs -> Contents \cup {NoContent}]

Store == [Docs -> [Idx -> Contents \cup {NoContent}]]

IndexTypeOK ==
    /\ vec \in Store
    /\ bm25 \in [Hosts -> Store]
    /\ loaded \subseteq Hosts
    /\ bm25File \in Store
    /\ keeper \in [Docs -> Hosts \cup {"none"}]

JobTypeOK ==
    /\ pc \in [Jobs -> PCs]
    /\ target \in [Jobs -> Docs \cup {NoDoc}]
    /\ host \in [Jobs -> Hosts \cup {"broker"}]
    /\ parsed \in [Jobs -> Contents \cup {NoContent}]
    /\ next \in [Jobs -> 1..(MaxBatches + 1)]
    /\ \A j \in Jobs : pc[j] # "idle" => target[j] \in Docs
    /\ \A j \in Jobs : pc[j] \in {"inserting", "indexing", "committing"}
                         => parsed[j] \in Contents
    /\ LoopInv

HistTypeOK ==
    /\ faults \in [FaultKinds -> Nat]
    /\ serial \in [Docs -> BOOLEAN]
    /\ stranded \in [Docs -> BOOLEAN]

LEMMA TypeParts == TypeInv <=> DocTypeOK /\ IndexTypeOK /\ JobTypeOK /\ HistTypeOK
  BY DEF TypeInv, TypeOK, DocTypeOK, IndexTypeOK, JobTypeOK, HistTypeOK, Store

LEMMA TypePartsNext ==
    ASSUME DocTypeOK', IndexTypeOK', JobTypeOK', HistTypeOK'
    PROVE  TypeInv'
  BY DEF TypeInv, TypeOK, DocTypeOK, IndexTypeOK, JobTypeOK, HistTypeOK, Store

\* The initial state is well typed.
LEMMA InitType == Init => TypeInv
  <1> SUFFICES ASSUME Init PROVE TypeInv
    OBVIOUS
  <1> USE BatchesAssumption DEF Init, NoIndex, Idx, Hosts
  <1>1. DocTypeOK
    BY DEF DocTypeOK
  <1>2. IndexTypeOK
    BY DEF IndexTypeOK, Store
  <1>3. JobTypeOK
    BY DEF JobTypeOK, PCs, LoopInv
  <1>4. HistTypeOK
    BY DEF HistTypeOK
  <1> QED
    BY <1>1, <1>2, <1>3, <1>4, TypeParts

\* A request that takes a slot keeps the job part typed.
LEMMA ClaimType ==
    ASSUME JobTypeOK, NEW j \in Jobs, NEW d \in Docs,
           NEW p \in {"dispatching", "bumping", "requeued"}, Claim(j, d, p)
    PROVE  JobTypeOK'
  BY DEF JobTypeOK, Claim, PCs, WorkingPCs, LoopInv

\* So does a move to a step whose demands on the insertion loop are met,
LEMMA GotoType ==
    ASSUME JobTypeOK, NEW j \in Jobs, NEW p \in PCs,
           pc[j] # "idle", Goto(j, p),
           p \notin {"inserting", "indexing", "committing", "failing"}
             => next[j] = 1,
           p \in {"embedding", "inserting", "indexing", "committing"}
             => parsed[j] \in Contents /\ Batches[parsed[j]] > 0,
           p = "inserting" => next[j] <= Batches[parsed[j]],
           host[j] = "broker" => p = "queued"
    PROVE  JobTypeOK'
  BY DEF JobTypeOK, Goto, PCs, WorkingPCs, LoopInv

\* and so does dropping jobs.
LEMMA DropType ==
    ASSUME JobTypeOK, NEW S \in SUBSET Jobs,
           NEW p \in {"idle", "queued", "marking", "acking"},
           NEW h \in Hosts \cup {"broker"},
           h = "broker" => p = "queued",
           \A j \in S : pc[j] # "idle", Drop(S, p, h)
    PROVE  JobTypeOK'
  <1> USE BatchesAssumption
  <1>1. /\ pc' \in [Jobs -> PCs]
        /\ target' \in [Jobs -> Docs \cup {NoDoc}]
        /\ host' \in [Jobs -> Hosts \cup {"broker"}]
        /\ parsed' \in [Jobs -> Contents \cup {NoContent}]
        /\ next' \in [Jobs -> 1..(MaxBatches + 1)]
    BY DEF JobTypeOK, Drop, PCs, WorkingPCs
  <1>2. \A j \in Jobs : pc'[j] # "idle" => target'[j] \in Docs
    BY DEF JobTypeOK, Drop
  <1>3. \A j \in Jobs : pc'[j] \in {"inserting", "indexing", "committing"}
                          => parsed'[j] \in Contents
    BY DEF JobTypeOK, Drop
  <1>4. LoopInv'
    BY DEF JobTypeOK, Drop, LoopInv
  <1> QED
    BY <1>1, <1>2, <1>3, <1>4 DEF JobTypeOK

\* The last step of the service either drops the job or awaits its ack.
LEMMA FinishType ==
    ASSUME JobTypeOK, NEW j \in Jobs, pc[j] \notin {"idle", "queued"}, Finish(j)
    PROVE  JobTypeOK'
  <1>1. host[j] \in Hosts \cup {"broker"}
    BY DEF JobTypeOK
  <1>2. "api" \in Hosts /\ host[j] # "broker"
    BY DEF Hosts, JobTypeOK, LoopInv
  <1> QED
    BY <1>1, <1>2, DropType DEF Finish, End

LEMMA EndType ==
    ASSUME JobTypeOK, NEW j \in Jobs, pc[j] # "idle", End(j)
    PROVE  JobTypeOK'
  BY DropType DEF End, Hosts

\* Writing a status, an audit row or a BM25 memory keeps the types.
LEMMA SetStatusType ==
    ASSUME DocTypeOK, NEW d \in Docs, NEW s \in Terminal \cup InProgress,
           SetStatus(d, s)
    PROVE  status' \in [Docs -> Terminal \cup InProgress \cup {"absent", "deleted"}]
  BY DEF DocTypeOK, SetStatus

LEMMA LogType ==
    ASSUME DocTypeOK, NEW d \in Docs, LogIngestion(d)
    PROVE  logged' \in [Docs -> BOOLEAN]
  <1>1. (logged[d] \/ Exists(d) \/ ~ForeignKeys) \in BOOLEAN
    OBVIOUS
  <1> QED
    BY <1>1 DEF DocTypeOK, LogIngestion

LEMMA MemoryType ==
    ASSUME IndexTypeOK, NEW h \in Hosts
    PROVE  Memory(h) \in Store
  BY DEF IndexTypeOK, Memory

LEMMA MemoriseType ==
    ASSUME IndexTypeOK, NEW h \in Hosts, NEW store \in Store,
           Memorise(h, store)
    PROVE  bm25' \in [Hosts -> Store] /\ loaded' \subseteq Hosts /\ bm25'[h] = store
  BY DEF IndexTypeOK, Memorise

LEMMA NothingType == [d \in Docs |-> NoIndex] \in Store
  BY DEF Store, NoIndex

\* A save leaves one of three stores in the file.
LEMMA SaveType ==
    ASSUME IndexTypeOK, HistTypeOK, NEW j \in Jobs, NEW store \in Store,
           SaveToDisk(j, store)
    PROVE  bm25File' \in Store /\ faults' \in [FaultKinds -> Nat]
  <1>1. bm25File' \in {store, bm25File, [d \in Docs |-> NoIndex]}
    BY DEF SaveToDisk
  <1>2. "index_error" \in FaultKinds
    BY DEF FaultKinds
  <1>3. faults' \in [FaultKinds -> Nat]
    BY <1>2 DEF SaveToDisk, Fault, HistTypeOK
  <1> QED
    BY <1>1, <1>3, NothingType DEF IndexTypeOK

LEMMA RestartType ==
    ASSUME IndexTypeOK, NEW H \in SUBSET Hosts, Restart(H)
    PROVE  /\ bm25' \in [Hosts -> Store] /\ loaded' \subseteq Hosts
           /\ keeper' \in [Docs -> Hosts \cup {"none"}]
  BY NothingType DEF IndexTypeOK, Restart

LEMMA UpsertType ==
    ASSUME NEW index \in [Idx -> Contents \cup {NoContent}],
           NEW c \in Contents \cup {NoContent}
    PROVE  Upsert(index, c) \in [Idx -> Contents \cup {NoContent}]
  BY DEF Upsert

LEMMA FaultType ==
    ASSUME HistTypeOK, NEW k \in FaultKinds, Fault(k)
    PROVE  faults' \in [FaultKinds -> Nat]
  BY DEF HistTypeOK, Fault

LEMMA StrandType ==
    ASSUME NEW S \in SUBSET Jobs, Strand(S)
    PROVE  stranded' \in [Docs -> BOOLEAN]
  <1>1. \A d \in Docs :
          (\/ stranded[d]
           \/ /\ \E j \in S : Working(j, d)
              /\ \A j \in Jobs \ S : ~Working(j, d)) \in BOOLEAN
    OBVIOUS
  <1> QED
    BY <1>1 DEF Strand

----------------------------------------------------------------------------
(* Requests keep the types. *)

LEMMA RequestType ==
    ASSUME TypeInv, NEW j \in Jobs, NEW d \in Docs, Request(j, d)
    PROVE  TypeInv'
  <1> USE TypeParts DEF docVars, indexVars, bm25Vars, histVars
  <1>1. CASE \E c \in Contents : UploadNew(j, d, c)
    <2> PICK c \in Contents : UploadNew(j, d, c)
      BY <1>1
    <2>1. DocTypeOK'
      BY DEF UploadNew, DocTypeOK, InProgress
    <2>2. IndexTypeOK'
      BY DEF UploadNew, IndexTypeOK
    <2>3. JobTypeOK'
      BY ClaimType DEF UploadNew
    <2>4. HistTypeOK'
      BY DEF UploadNew, HistTypeOK, Claim
    <2> QED
      BY <2>1, <2>2, <2>3, <2>4, TypePartsNext
  <1>2. CASE \E c \in Contents : UploadVersion(j, d, c)
    <2> PICK c \in Contents : UploadVersion(j, d, c)
      BY <1>2
    <2>1. DocTypeOK'
      BY DEF UploadVersion, DocTypeOK
    <2>2. IndexTypeOK'
      BY DEF UploadVersion, IndexTypeOK
    <2>3. JobTypeOK'
      BY ClaimType DEF UploadVersion
    <2>4. HistTypeOK'
      BY DEF UploadVersion, HistTypeOK, Claim
    <2> QED
      BY <2>1, <2>2, <2>3, <2>4, TypePartsNext
  <1>3. CASE RequestReingest(j, d)
    <2>1. DocTypeOK'
      BY <1>3, SetStatusType DEF RequestReingest, DocTypeOK, InProgress
    <2>2. IndexTypeOK'
      BY <1>3 DEF RequestReingest, IndexTypeOK
    <2>3. JobTypeOK'
      BY <1>3, ClaimType DEF RequestReingest
    <2>4. HistTypeOK'
      BY <1>3 DEF RequestReingest, HistTypeOK, Claim, Rescue
    <2> QED
      BY <2>1, <2>2, <2>3, <2>4, TypePartsNext
  <1> QED
    BY <1>1, <1>2, <1>3 DEF Request

LEMMA DeleteType ==
    ASSUME TypeInv, NEW S \in SUBSET Docs, DeleteDocuments(S)
    PROVE  TypeInv'
  <1> USE TypeParts DEF DeleteDocuments, indexVars, bm25Vars, jobVars, histVars
  <1>1. DocTypeOK'
    BY DEF DocTypeOK
  <1>2. IndexTypeOK'
    BY DEF IndexTypeOK
  <1>3. JobTypeOK'
    BY DEF JobTypeOK, LoopInv
  <1>4. HistTypeOK'
    BY DEF HistTypeOK
  <1> QED
    BY <1>1, <1>2, <1>3, <1>4, TypePartsNext

(* Faults keep the types. *)

LEMMA CrashType ==
    ASSUME TypeInv, Crash
    PROVE  TypeInv'
  <1> USE TypeParts DEF docVars, FaultKinds
  <1>0. \A H : OnHost(H) \subseteq Jobs /\ \A j \in OnHost(H) : pc[j] # "idle"
    BY DEF OnHost
  <1>1. DocTypeOK'
    BY DEF Crash, ApiCrash, WorkerCrash, ChildKilled, DocTypeOK
  <1>2. IndexTypeOK'
    <2>1. vec' \in Store /\ bm25File' \in Store
      BY DEF Crash, ApiCrash, WorkerCrash, ChildKilled, IndexTypeOK
    <2>2. \E H \in SUBSET Hosts : Restart(H)
      BY DEF Crash, ApiCrash, WorkerCrash, ChildKilled, Hosts
    <2> QED
      BY <2>1, <2>2, RestartType DEF IndexTypeOK
  <1>3. JobTypeOK'
    <2>1. "api" \in Hosts
      BY DEF Hosts
    <2> QED
      BY <1>0, <2>1, DropType DEF Crash, ApiCrash, WorkerCrash, ChildKilled
  <1>4. HistTypeOK'
    <2>1. faults' \in [FaultKinds -> Nat]
      BY FaultType DEF Crash, ApiCrash, WorkerCrash, ChildKilled
    <2>2. serial' \in [Docs -> BOOLEAN]
      <3>1. \A d \in Docs :
              (serial[d] /\ ~\E j \in Jobs : pc[j] = "bumping" /\ target[j] = d)
                \in BOOLEAN
        OBVIOUS
      <3> QED
        BY <3>1 DEF Crash, ApiCrash, WorkerCrash, ChildKilled, HistTypeOK
    <2>3. stranded' \in [Docs -> BOOLEAN]
      BY <1>0, StrandType
      DEF Crash, ApiCrash, WorkerCrash, ChildKilled, HistTypeOK
    <2> QED
      BY <2>1, <2>2, <2>3 DEF HistTypeOK
  <1> QED
    BY <1>1, <1>2, <1>3, <1>4, TypePartsNext

----------------------------------------------------------------------------
(* Every step of a job keeps the types. *)

LEMMA DispatchType ==
    ASSUME TypeInv, NEW j \in Jobs, Dispatch(j)
    PROVE  TypeInv'
  <1> USE TypeParts DEF docVars, indexVars, bm25Vars, histVars
  <1>0. pc[j] # "idle" /\ target[j] \in Docs
    BY DEF Dispatch, JobTypeOK
  <1>1. DocTypeOK'
    BY DEF Dispatch, DocTypeOK
  <1>2. IndexTypeOK'
    BY DEF Dispatch, IndexTypeOK
  <1>3. JobTypeOK'
    BY <1>0 DEF Dispatch, JobTypeOK, LoopInv, PCs, WorkingPCs
  <1>4. HistTypeOK'
    BY DEF Dispatch, HistTypeOK
  <1> QED
    BY <1>1, <1>2, <1>3, <1>4, TypePartsNext

LEMMA CommitVersionType ==
    ASSUME TypeInv, NEW j \in Jobs, CommitVersion(j)
    PROVE  TypeInv'
  <1> USE TypeParts DEF docVars, indexVars, bm25Vars, histVars
  <1>0. pc[j] # "idle" /\ target[j] \in Docs
    BY DEF CommitVersion, JobTypeOK
  <1>1. DocTypeOK'
    BY <1>0, SetStatusType DEF CommitVersion, DocTypeOK, InProgress
  <1>2. IndexTypeOK'
    BY DEF CommitVersion, IndexTypeOK
  <1>3. JobTypeOK'
    BY <1>0, GotoType, EndType DEF CommitVersion, PCs, WorkingPCs, JobTypeOK, LoopInv
  <1>4. HistTypeOK'
    BY <1>0 DEF CommitVersion, HistTypeOK, Rescue
  <1> QED
    BY <1>1, <1>2, <1>3, <1>4, TypePartsNext

LEMMA LoadForReingestType ==
    ASSUME TypeInv, NEW j \in Jobs, LoadForReingest(j)
    PROVE  TypeInv'
  <1> USE TypeParts DEF docVars, indexVars, bm25Vars, histVars
  <1>0. pc[j] # "idle" /\ target[j] \in Docs
    BY DEF LoadForReingest, JobTypeOK
  <1>1. DocTypeOK'
    BY DEF LoadForReingest, DocTypeOK
  <1>2. IndexTypeOK'
    BY DEF LoadForReingest, IndexTypeOK
  <1>3. JobTypeOK'
    BY <1>0, GotoType, EndType DEF LoadForReingest, PCs, WorkingPCs, JobTypeOK, LoopInv
  <1>4. HistTypeOK'
    BY DEF LoadForReingest, HistTypeOK
  <1> QED
    BY <1>1, <1>2, <1>3, <1>4, TypePartsNext

LEMMA DeleteVectorsType ==
    ASSUME TypeInv, NEW j \in Jobs, DeleteVectors(j)
    PROVE  TypeInv'
  <1> USE TypeParts DEF docVars, indexVars, bm25Vars, histVars
  <1>0. pc[j] # "idle" /\ target[j] \in Docs
    BY DEF DeleteVectors, JobTypeOK
  <1>1. DocTypeOK'
    BY DEF DeleteVectors, DocTypeOK
  <1>2. IndexTypeOK'
    BY <1>0 DEF DeleteVectors, IndexTypeOK, Store, NoIndex
  <1>3. JobTypeOK'
    BY <1>0, GotoType, EndType DEF DeleteVectors, PCs, WorkingPCs, JobTypeOK, LoopInv
  <1>4. HistTypeOK'
    BY DEF DeleteVectors, HistTypeOK
  <1> QED
    BY <1>1, <1>2, <1>3, <1>4, TypePartsNext

LEMMA DeleteVectorsFailsType ==
    ASSUME TypeInv, NEW j \in Jobs, DeleteVectorsFails(j)
    PROVE  TypeInv'
  <1> USE TypeParts DEF docVars, indexVars, bm25Vars, histVars
  <1>0. pc[j] # "idle" /\ target[j] \in Docs
    BY DEF DeleteVectorsFails, JobTypeOK
  <1>1. DocTypeOK'
    BY DEF DeleteVectorsFails, DocTypeOK
  <1>2. IndexTypeOK'
    BY DEF DeleteVectorsFails, IndexTypeOK
  <1>3. JobTypeOK'
    BY <1>0, EndType DEF DeleteVectorsFails
  <1>4. HistTypeOK'
    BY <1>0, FaultType, StrandType DEF DeleteVectorsFails, FaultKinds, HistTypeOK
  <1> QED
    BY <1>1, <1>2, <1>3, <1>4, TypePartsNext

\* The API process's store without one document.
LEMMA UnindexedType ==
    ASSUME IndexTypeOK, NEW d \in Docs
    PROVE  "api" \in Hosts /\ [Memory("api") EXCEPT ![d] = NoIndex] \in Store
  <1>1. "api" \in Hosts
    BY DEF Hosts
  <1> QED
    BY <1>1, MemoryType DEF Store, NoIndex

LEMMA UnindexType ==
    ASSUME TypeInv, NEW j \in Jobs, Unindex(j)
    PROVE  TypeInv'
  <1> USE TypeParts DEF docVars, indexVars, bm25Vars, histVars
  <1>0. pc[j] # "idle" /\ target[j] \in Docs
    BY DEF Unindex, JobTypeOK
  <1>1. DocTypeOK'
    BY DEF Unindex, DocTypeOK
  <1> DEFINE store == [Memory("api") EXCEPT ![target[j]] = NoIndex]
  <1>a. "api" \in Hosts /\ store \in Store
    BY <1>0, UnindexedType
  <1>b. /\ bm25' \in [Hosts -> Store] /\ loaded' \subseteq Hosts
        /\ bm25'["api"] = store
    BY <1>a, MemoriseType DEF Unindex
  <1>c. bm25File' \in Store /\ faults' \in [FaultKinds -> Nat]
    <2>1. CASE Memory("api")[target[j]] = NoIndex
      BY <2>1 DEF Unindex, IndexTypeOK, HistTypeOK
    <2>2. CASE Memory("api")[target[j]] # NoIndex
      <3>1. SaveToDisk(j, store)
        BY <1>b, <2>2 DEF Unindex
      <3> QED
        BY <1>a, <3>1, SaveType
    <2> QED
      BY <2>1, <2>2
  <1>2. IndexTypeOK'
    BY <1>b, <1>c DEF Unindex, IndexTypeOK
  <1>3. JobTypeOK'
    BY <1>0, GotoType, EndType DEF Unindex, PCs, WorkingPCs, JobTypeOK, LoopInv
  <1>4. HistTypeOK'
    BY <1>c DEF Unindex, HistTypeOK
  <1> QED
    BY <1>1, <1>2, <1>3, <1>4, TypePartsNext

LEMMA UnindexFailsType ==
    ASSUME TypeInv, NEW j \in Jobs, UnindexFails(j)
    PROVE  TypeInv'
  <1> USE TypeParts DEF docVars, indexVars, bm25Vars, histVars
  <1>0. pc[j] # "idle" /\ target[j] \in Docs
    BY DEF UnindexFails, JobTypeOK
  <1>1. DocTypeOK'
    BY DEF UnindexFails, DocTypeOK
  <1>2. IndexTypeOK'
    <2>1. bm25' \in [Hosts -> Store] /\ loaded' \subseteq Hosts
      BY <1>0, UnindexedType, MemoriseType DEF UnindexFails, IndexTypeOK
    <2> QED
      BY <2>1 DEF UnindexFails, IndexTypeOK
  <1>3. JobTypeOK'
    BY <1>0, EndType DEF UnindexFails
  <1>4. HistTypeOK'
    BY <1>0, FaultType, StrandType DEF UnindexFails, FaultKinds, HistTypeOK
  <1> QED
    BY <1>1, <1>2, <1>3, <1>4, TypePartsNext

LEMMA StartType ==
    ASSUME TypeInv, NEW j \in Jobs, Start(j)
    PROVE  TypeInv'
  <1> USE TypeParts DEF docVars, indexVars, bm25Vars, histVars
  <1>0. pc[j] # "idle" /\ target[j] \in Docs
    BY HostAssumption DEF Start, JobTypeOK
  <1>1. DocTypeOK'
    BY <1>0, SetStatusType DEF Start, DocTypeOK, InProgress
  <1>2. IndexTypeOK'
    BY DEF Start, IndexTypeOK
  <1>3. JobTypeOK'
    BY <1>0, HostAssumption
    DEF Start, JobTypeOK, LoopInv, PCs, WorkingPCs, Hosts, Runners
  <1>4. HistTypeOK'
    BY DEF Start, HistTypeOK
  <1> QED
    BY <1>1, <1>2, <1>3, <1>4, TypePartsNext

LEMMA ParseType ==
    ASSUME TypeInv, NEW j \in Jobs, Parse(j)
    PROVE  TypeInv'
  <1> USE TypeParts DEF docVars, indexVars, bm25Vars, histVars
  <1>0. pc[j] # "idle" /\ target[j] \in Docs
    BY DEF Parse, JobTypeOK
  <1>1. DocTypeOK'
    BY DEF Parse, DocTypeOK
  <1>2. IndexTypeOK'
    BY DEF Parse, IndexTypeOK
  <1>3. JobTypeOK'
    BY <1>0, BatchesAssumption DEF Parse, JobTypeOK, LoopInv, PCs, WorkingPCs
  <1>4. HistTypeOK'
    BY DEF Parse, HistTypeOK
  <1> QED
    BY <1>1, <1>2, <1>3, <1>4, TypePartsNext

LEMMA EmbedType ==
    ASSUME TypeInv, NEW j \in Jobs, Embed(j)
    PROVE  TypeInv'
  <1> USE TypeParts DEF docVars, indexVars, bm25Vars, histVars
  <1>0. pc[j] # "idle" /\ target[j] \in Docs
    BY DEF Embed, JobTypeOK
  <1>1. DocTypeOK'
    BY DEF Embed, DocTypeOK
  <1>2. IndexTypeOK'
    BY DEF Embed, IndexTypeOK
  <1>3. JobTypeOK'
    <2>1. /\ parsed[j] \in Contents /\ Batches[parsed[j]] > 0 /\ next[j] = 1
          /\ host[j] # "broker"
      BY DEF Embed, JobTypeOK, LoopInv
    <2>2. next[j] <= Batches[parsed[j]]
      BY <2>1, BatchesAssumption
    <2> QED
      BY <1>0, <2>1, <2>2, GotoType DEF Embed, PCs, WorkingPCs
  <1>4. HistTypeOK'
    BY DEF Embed, HistTypeOK
  <1> QED
    BY <1>1, <1>2, <1>3, <1>4, TypePartsNext

LEMMA InsertBatchType ==
    ASSUME TypeInv, NEW j \in Jobs, InsertBatch(j)
    PROVE  TypeInv'
  <1> USE TypeParts DEF docVars, indexVars, bm25Vars, histVars
  <1>0. pc[j] # "idle" /\ target[j] \in Docs
    BY DEF InsertBatch, JobTypeOK
  <1>1. DocTypeOK'
    BY DEF InsertBatch, DocTypeOK
  <1>2. IndexTypeOK'
    <2>1. parsed[j] \in Contents
      BY DEF InsertBatch, JobTypeOK
    <2>2. vec' \in Store
      BY <1>0, <2>1 DEF InsertBatch, IndexTypeOK, Store
    <2> QED
      BY <2>2 DEF InsertBatch, IndexTypeOK
  <1>3. JobTypeOK'
    <2>1. parsed[j] \in Contents /\ Batches[parsed[j]] \in 1..MaxBatches
      BY BatchesAssumption DEF InsertBatch, JobTypeOK, LoopInv
    <2>2. next[j] \in 1..Batches[parsed[j]]
      BY <2>1, BatchesAssumption DEF InsertBatch, JobTypeOK, LoopInv
    <2>3. next' \in [Jobs -> 1..(MaxBatches + 1)]
      BY <2>1, <2>2, BatchesAssumption DEF InsertBatch, JobTypeOK
    <2>4. LoopInv'
      BY <2>1, <2>2 DEF InsertBatch, JobTypeOK, LoopInv
    <2> QED
      BY <1>0, <2>1, <2>3, <2>4 DEF InsertBatch, JobTypeOK, PCs, WorkingPCs
  <1>4. HistTypeOK'
    BY DEF InsertBatch, HistTypeOK
  <1> QED
    BY <1>1, <1>2, <1>3, <1>4, TypePartsNext

\* The store of the process that runs job j, with the chunks it parsed.
LEMMA IndexedType ==
    ASSUME TypeInv, NEW j \in Jobs, pc[j] = "indexing"
    PROVE  /\ host[j] \in Hosts /\ target[j] \in Docs
           /\ [Memory(host[j]) EXCEPT ![target[j]] = Upsert(@, parsed[j])] \in Store
  <1> USE TypeParts
  <1>1. host[j] \in Hosts /\ target[j] \in Docs
    BY DEF JobTypeOK, LoopInv
  <1>2. Memory(host[j]) \in Store
    BY <1>1, MemoryType
  <1>3. parsed[j] \in Contents \cup {NoContent}
    BY DEF JobTypeOK
  <1>4. Upsert(Memory(host[j])[target[j]], parsed[j])
          \in [Idx -> Contents \cup {NoContent}]
    BY <1>1, <1>2, <1>3, UpsertType DEF Store
  <1> QED
    BY <1>1, <1>2, <1>4 DEF Store

LEMMA IndexType ==
    ASSUME TypeInv, NEW j \in Jobs, Index(j)
    PROVE  TypeInv'
  <1> USE TypeParts DEF docVars, indexVars, bm25Vars, histVars
  <1> DEFINE h == host[j]
             store == [Memory(h) EXCEPT ![target[j]] = Upsert(@, parsed[j])]
  <1>0. /\ pc[j] = "indexing" /\ target[j] \in Docs /\ h \in Hosts
        /\ store \in Store
    BY IndexedType DEF Index
  <1>1. DocTypeOK'
    BY DEF Index, DocTypeOK
  <1>a. Memorise(h, store) /\ SaveToDisk(j, bm25'[h])
    BY DEF Index
  <1>b. /\ bm25' \in [Hosts -> Store] /\ loaded' \subseteq Hosts
        /\ bm25'[h] = store
    BY <1>0, <1>a, MemoriseType
  <1>c. bm25File' \in Store /\ faults' \in [FaultKinds -> Nat]
    BY <1>0, <1>a, <1>b, SaveType
  <1>2. IndexTypeOK'
    BY <1>0, <1>b, <1>c DEF Index, IndexTypeOK
  <1>3. JobTypeOK'
    BY <1>0, GotoType, EndType DEF Index, PCs, WorkingPCs, JobTypeOK, LoopInv
  <1>4. HistTypeOK'
    BY <1>c DEF Index, HistTypeOK
  <1> QED
    BY <1>1, <1>2, <1>3, <1>4, TypePartsNext

LEMMA IndexFailsType ==
    ASSUME TypeInv, NEW j \in Jobs, IndexFails(j)
    PROVE  TypeInv'
  <1> USE TypeParts DEF docVars, indexVars, bm25Vars, histVars
  <1>0. /\ pc[j] = "indexing" /\ target[j] \in Docs /\ host[j] \in Hosts
        /\ [Memory(host[j]) EXCEPT ![target[j]] = Upsert(@, parsed[j])] \in Store
    BY IndexedType DEF IndexFails
  <1>1. DocTypeOK'
    BY DEF IndexFails, DocTypeOK
  <1>2. IndexTypeOK'
    <2>1. bm25' \in [Hosts -> Store] /\ loaded' \subseteq Hosts
      BY <1>0, MemoriseType DEF IndexFails
    <2> QED
      BY <2>1 DEF IndexFails, IndexTypeOK
  <1>3. JobTypeOK'
    BY <1>0, GotoType, EndType DEF IndexFails, PCs, WorkingPCs, JobTypeOK, LoopInv
  <1>4. HistTypeOK'
    BY FaultType DEF IndexFails, FaultKinds, HistTypeOK
  <1> QED
    BY <1>1, <1>2, <1>3, <1>4, TypePartsNext

LEMMA MarkReadyType ==
    ASSUME TypeInv, NEW j \in Jobs, MarkReady(j)
    PROVE  TypeInv'
  <1> USE TypeParts DEF docVars, indexVars, bm25Vars, histVars
  <1>0. pc[j] # "idle" /\ target[j] \in Docs
    BY DEF MarkReady, JobTypeOK
  <1>1. DocTypeOK'
    <2>1. status' \in [Docs -> Terminal \cup InProgress \cup {"absent", "deleted"}]
      BY <1>0, SetStatusType DEF MarkReady, Terminal
    <2>2. logged' \in [Docs -> BOOLEAN]
      BY <1>0, LogType DEF MarkReady
    <2>3. parsed[j] \in Contents
      BY DEF MarkReady, JobTypeOK
    <2>4. Batches[parsed[j]] \in 0..MaxBatches
      BY <2>3, BatchesAssumption
    <2>5. chunkCount' \in [Docs -> 0..MaxBatches]
      BY <2>4 DEF MarkReady, DocTypeOK
    <2> QED
      BY <2>1, <2>2, <2>5 DEF MarkReady, DocTypeOK
  <1>2. IndexTypeOK'
    BY DEF MarkReady, IndexTypeOK
  <1>3. JobTypeOK'
    BY <1>0, FinishType, GotoType DEF MarkReady, PCs, WorkingPCs, JobTypeOK, LoopInv
  <1>4. HistTypeOK'
    BY DEF MarkReady, HistTypeOK
  <1> QED
    BY <1>1, <1>2, <1>3, <1>4, TypePartsNext

LEMMA IngestFailsType ==
    ASSUME TypeInv, NEW j \in Jobs, IngestFails(j)
    PROVE  TypeInv'
  <1> USE TypeParts DEF docVars, indexVars, bm25Vars, histVars
  <1>0. pc[j] # "idle" /\ target[j] \in Docs
    BY DEF IngestFails, JobTypeOK
  <1>1. DocTypeOK'
    BY DEF IngestFails, DocTypeOK
  <1>2. IndexTypeOK'
    BY DEF IngestFails, IndexTypeOK
  <1>3. JobTypeOK'
    BY <1>0, GotoType, EndType DEF IngestFails, PCs, WorkingPCs, JobTypeOK, LoopInv
  <1>4. HistTypeOK'
    BY DEF IngestFails, HistTypeOK
  <1> QED
    BY <1>1, <1>2, <1>3, <1>4, TypePartsNext

LEMMA EmbedFailsType ==
    ASSUME TypeInv, NEW j \in Jobs, EmbedFails(j)
    PROVE  TypeInv'
  <1> USE TypeParts DEF docVars, indexVars, bm25Vars, histVars
  <1>0. pc[j] # "idle" /\ target[j] \in Docs
    BY DEF EmbedFails, JobTypeOK
  <1>1. DocTypeOK'
    BY DEF EmbedFails, DocTypeOK
  <1>2. IndexTypeOK'
    BY DEF EmbedFails, IndexTypeOK
  <1>3. JobTypeOK'
    BY <1>0, GotoType, EndType DEF EmbedFails, PCs, WorkingPCs, JobTypeOK, LoopInv
  <1>4. HistTypeOK'
    BY DEF EmbedFails, HistTypeOK
  <1> QED
    BY <1>1, <1>2, <1>3, <1>4, TypePartsNext

LEMMA RecordEmbeddingFailureType ==
    ASSUME TypeInv, NEW j \in Jobs, RecordEmbeddingFailure(j)
    PROVE  TypeInv'
  <1> USE TypeParts DEF docVars, indexVars, bm25Vars, histVars
  <1>0. pc[j] # "idle" /\ target[j] \in Docs
    BY DEF RecordEmbeddingFailure, JobTypeOK
  <1>1. DocTypeOK'
    <2>1. status' \in [Docs -> Terminal \cup InProgress \cup {"absent", "deleted"}]
      BY <1>0, SetStatusType DEF RecordEmbeddingFailure, Terminal
    <2>2. logged' \in [Docs -> BOOLEAN]
      BY <1>0, LogType DEF RecordEmbeddingFailure
    <2> QED
      BY <2>1, <2>2 DEF RecordEmbeddingFailure, DocTypeOK
  <1>2. IndexTypeOK'
    BY DEF RecordEmbeddingFailure, IndexTypeOK
  <1>3. JobTypeOK'
    <2>1. host[j] \in Hosts
      BY DEF JobTypeOK, LoopInv, RecordEmbeddingFailure
    <2>2. host[j] # "broker"
      BY <2>1, HostAssumption DEF Hosts
    <2> QED
      BY <1>0, <2>1, <2>2, FinishType, EndType, DropType DEF RecordEmbeddingFailure
  <1>4. HistTypeOK'
    BY DEF RecordEmbeddingFailure, HistTypeOK
  <1> QED
    BY <1>1, <1>2, <1>3, <1>4, TypePartsNext

LEMMA RecordFailureType ==
    ASSUME TypeInv, NEW j \in Jobs, RecordFailure(j)
    PROVE  TypeInv'
  <1> USE TypeParts DEF docVars, indexVars, bm25Vars, histVars
  <1>0. pc[j] # "idle" /\ target[j] \in Docs
    BY DEF RecordFailure, JobTypeOK
  <1>1. DocTypeOK'
    <2>1. status' \in [Docs -> Terminal \cup InProgress \cup {"absent", "deleted"}]
      BY <1>0, SetStatusType DEF RecordFailure, Terminal
    <2>2. logged' \in [Docs -> BOOLEAN]
      BY <1>0, LogType DEF RecordFailure
    <2> QED
      BY <2>1, <2>2 DEF RecordFailure, DocTypeOK
  <1>2. IndexTypeOK'
    BY DEF RecordFailure, IndexTypeOK
  <1>3. JobTypeOK'
    <2>1. host[j] \in Hosts
      BY DEF JobTypeOK, LoopInv, RecordFailure
    <2>2. host[j] # "broker"
      BY <2>1, HostAssumption DEF Hosts
    <2> QED
      BY <1>0, <2>1, <2>2, FinishType, EndType, DropType DEF RecordFailure
  <1>4. HistTypeOK'
    BY DEF RecordFailure, HistTypeOK
  <1> QED
    BY <1>1, <1>2, <1>3, <1>4, TypePartsNext

LEMMA MarkFailedType ==
    ASSUME TypeInv, NEW j \in Jobs, MarkFailed(j)
    PROVE  TypeInv'
  <1> USE TypeParts DEF docVars, indexVars, bm25Vars, histVars
  <1>0. pc[j] # "idle" /\ target[j] \in Docs
    BY DEF MarkFailed, JobTypeOK
  <1>1. DocTypeOK'
    BY <1>0, SetStatusType DEF MarkFailed, DocTypeOK, Terminal
  <1>2. IndexTypeOK'
    BY DEF MarkFailed, IndexTypeOK
  <1>3. JobTypeOK'
    BY <1>0, GotoType, EndType DEF MarkFailed, PCs, WorkingPCs, JobTypeOK, LoopInv
  <1>4. HistTypeOK'
    BY DEF MarkFailed, HistTypeOK
  <1> QED
    BY <1>1, <1>2, <1>3, <1>4, TypePartsNext

LEMMA AckType ==
    ASSUME TypeInv, NEW j \in Jobs, Ack(j)
    PROVE  TypeInv'
  <1> USE TypeParts DEF docVars, indexVars, bm25Vars, histVars
  <1>0. pc[j] # "idle" /\ target[j] \in Docs
    BY DEF Ack, JobTypeOK
  <1>1. DocTypeOK'
    BY DEF Ack, DocTypeOK
  <1>2. IndexTypeOK'
    BY DEF Ack, IndexTypeOK
  <1>3. JobTypeOK'
    BY <1>0, EndType DEF Ack
  <1>4. HistTypeOK'
    BY DEF Ack, HistTypeOK
  <1> QED
    BY <1>1, <1>2, <1>3, <1>4, TypePartsNext

LEMMA CommitVersionFailsType ==
    ASSUME TypeInv, NEW j \in Jobs, CommitVersionFails(j)
    PROVE  TypeInv'
  <1> USE TypeParts DEF docVars, indexVars, bm25Vars, histVars
  <1>0. pc[j] # "idle" /\ target[j] \in Docs
    BY DEF CommitVersionFails, JobTypeOK
  <1>1. DocTypeOK'
    BY DEF CommitVersionFails, DocTypeOK
  <1>2. IndexTypeOK'
    BY DEF CommitVersionFails, IndexTypeOK
  <1>3. JobTypeOK'
    BY <1>0, GotoType, EndType DEF CommitVersionFails, PCs, WorkingPCs, JobTypeOK, LoopInv
  <1>4. HistTypeOK'
    BY <1>0, FaultType, StrandType DEF CommitVersionFails, FaultKinds, HistTypeOK
  <1> QED
    BY <1>1, <1>2, <1>3, <1>4, TypePartsNext

LEMMA MarkReadyFailsType ==
    ASSUME TypeInv, NEW j \in Jobs, MarkReadyFails(j)
    PROVE  TypeInv'
  <1> USE TypeParts DEF docVars, indexVars, bm25Vars, histVars
  <1>0. pc[j] # "idle" /\ target[j] \in Docs
    BY DEF MarkReadyFails, JobTypeOK
  <1>1. DocTypeOK'
    BY DEF MarkReadyFails, DocTypeOK
  <1>2. IndexTypeOK'
    BY DEF MarkReadyFails, IndexTypeOK
  <1>3. JobTypeOK'
    BY <1>0, GotoType, EndType DEF MarkReadyFails, PCs, WorkingPCs, JobTypeOK, LoopInv
  <1>4. HistTypeOK'
    BY <1>0, FaultType, StrandType DEF MarkReadyFails, FaultKinds, HistTypeOK
  <1> QED
    BY <1>1, <1>2, <1>3, <1>4, TypePartsNext

LEMMA RecordFailsType ==
    ASSUME TypeInv, NEW j \in Jobs, RecordFails(j)
    PROVE  TypeInv'
  <1> USE TypeParts DEF docVars, indexVars, bm25Vars, histVars
  <1>0. pc[j] # "idle" /\ target[j] \in Docs
    BY DEF RecordFails, JobTypeOK
  <1>1. DocTypeOK'
    BY DEF RecordFails, DocTypeOK
  <1>2. IndexTypeOK'
    BY DEF RecordFails, IndexTypeOK
  <1>3. JobTypeOK'
    <2>1. CASE End(j)
      BY <1>0, <2>1, EndType
    <2>2. CASE \E w \in Runners(j) \ {"api"} : Drop({j}, "marking", w)
      <3>1. PICK w \in Runners(j) \ {"api"} : Drop({j}, "marking", w)
        BY <2>2
      <3>2. w \in Hosts /\ w # "broker"
        BY <3>1, HostAssumption DEF Runners, JobTypeOK, Hosts
      <3> QED
        BY <1>0, <3>1, <3>2, DropType
    <2> QED
      BY <2>1, <2>2 DEF RecordFails
  <1>4. HistTypeOK'
    BY <1>0, FaultType, StrandType DEF RecordFails, FaultKinds, HistTypeOK
  <1> QED
    BY <1>1, <1>2, <1>3, <1>4, TypePartsNext

LEMMA MarkFailedFailsType ==
    ASSUME TypeInv, NEW j \in Jobs, MarkFailedFails(j)
    PROVE  TypeInv'
  <1> USE TypeParts DEF docVars, indexVars, bm25Vars, histVars
  <1>0. pc[j] # "idle" /\ target[j] \in Docs
    BY DEF MarkFailedFails, JobTypeOK
  <1>1. DocTypeOK'
    BY DEF MarkFailedFails, DocTypeOK
  <1>2. IndexTypeOK'
    BY DEF MarkFailedFails, IndexTypeOK
  <1>3. JobTypeOK'
    BY <1>0, GotoType, EndType DEF MarkFailedFails, PCs, WorkingPCs, JobTypeOK, LoopInv
  <1>4. HistTypeOK'
    BY <1>0, FaultType, StrandType DEF MarkFailedFails, FaultKinds, HistTypeOK
  <1> QED
    BY <1>1, <1>2, <1>3, <1>4, TypePartsNext

LEMMA StepType ==
    ASSUME TypeInv, NEW j \in Jobs, Step(j)
    PROVE  TypeInv'
  BY DispatchType, CommitVersionType, LoadForReingestType, DeleteVectorsType,
     DeleteVectorsFailsType, UnindexType, StartType, ParseType,
     EmbedType, InsertBatchType, IndexType, MarkReadyType,
     IngestFailsType, EmbedFailsType, RecordEmbeddingFailureType, RecordFailureType,
     MarkFailedType, AckType, UnindexFailsType, IndexFailsType,
     CommitVersionFailsType, MarkReadyFailsType, RecordFailsType,
     MarkFailedFailsType
  DEF Step

LEMMA StutterType ==
    ASSUME TypeInv, UNCHANGED vars
    PROVE  TypeInv'
  BY DEF TypeInv, TypeOK, LoopInv, vars, docVars, indexVars, bm25Vars, jobVars,
         histVars, Exists, Busy

LEMMA NextType == TypeInv /\ [Next]_vars => TypeInv'
  BY RequestType, DeleteType, CrashType, StepType, StutterType DEF Next

\* Every variable keeps its type, for every instance of the constants: in
\* particular the insertion loop of _embed_and_store never runs past the
\* batches of the content it parsed.
THEOREM TypeCorrect == Spec => []TypeOK
  <1>1. Init => TypeInv
    BY InitType
  <1>2. TypeInv /\ [Next]_vars => TypeInv'
    BY NextType
  <1>3. TypeInv => TypeOK
    BY DEF TypeInv
  <1> QED
    BY <1>1, <1>2, <1>3, PTL DEF Spec

----------------------------------------------------------------------------
(* No document is left in progress without a job. *)

\* A step of job j leaves the other jobs where they are.
LEMMA StepFrame ==
    ASSUME TypeOK, NEW j \in Jobs, Step(j), NEW k \in Jobs, k # j
    PROVE  pc'[k] = pc[k] /\ target'[k] = target[k]
  BY DEF TypeOK, Step, Goto, End, Finish, Drop,
         Dispatch, CommitVersion, LoadForReingest, DeleteVectors, DeleteVectorsFails,
         Unindex, Start, Parse, Embed, InsertBatch,
         Index, MarkReady, IngestFails, EmbedFails, RecordEmbeddingFailure,
         RecordFailure, MarkFailed, Ack,
         UnindexFails, IndexFails, CommitVersionFails,
         MarkReadyFails, RecordFails, MarkFailedFails

\* What set_status leaves in the row.
LEMMA SetStatusValue ==
    ASSUME TypeOK, NEW d \in Docs, NEW s, SetStatus(d, s)
    PROVE  /\ status'[d] = IF Exists(d) THEN s ELSE status[d]
           /\ \A e \in Docs \ {d} : status'[e] = status[e]
  BY DEF TypeOK, SetStatus, Exists

\* A job that owes its document a status goes on owing it or pays.
LEMMA WorkingStep ==
    ASSUME TypeOK, NEW j \in Jobs, Step(j), NEW d \in Docs, Working(j, d),
           status'[d] \in InProgress, ~stranded'[d],
           \A k \in Jobs \ {j} : ~Working(k, d)
    PROVE  Working(j, d)'
  <1> USE DEF Working, WorkingPCs
  <1>0. pc \in [Jobs -> PCs]
    BY DEF TypeOK
  <1>1. CASE \/ Dispatch(j) \/ Start(j) \/ Parse(j) \/ InsertBatch(j)
    BY <1>0, <1>1 DEF Dispatch, Start, Parse, InsertBatch
  <1>2. CASE \/ DeleteVectors(j) \/ Unindex(j) \/ Embed(j) \/ Index(j)
             \/ IngestFails(j) \/ EmbedFails(j)
    BY <1>0, <1>2
    DEF DeleteVectors, Unindex, Embed, Index, IngestFails, EmbedFails, Goto
  <1>3. CASE LoadForReingest(j)
    BY <1>0, <1>3 DEF LoadForReingest, Goto, Exists, docVars
  <1>4. CASE Strand({j})
    BY <1>4 DEF Strand
  <1>5. CASE MarkReady(j)
    <2>1. SetStatus(d, "ready")
      BY <1>5 DEF MarkReady
    <2> QED
      BY <2>1, SetStatusValue DEF Exists, InProgress
  <1>6. CASE RecordEmbeddingFailure(j)
    <2>1. SetStatus(d, "embedding_failed")
      BY <1>6 DEF RecordEmbeddingFailure
    <2> QED
      BY <2>1, SetStatusValue DEF Exists, InProgress
  <1>7. CASE RecordFailure(j)
    <2>1. SetStatus(d, "failed")
      BY <1>7 DEF RecordFailure
    <2> QED
      BY <2>1, SetStatusValue DEF Exists, InProgress
  <1>8. CASE MarkFailed(j)
    <2>1. SetStatus(d, "failed")
      BY <1>8 DEF MarkFailed
    <2> QED
      BY <2>1, SetStatusValue DEF Exists, InProgress
  <1>9. CASE IndexFails(j) \/ MarkReadyFails(j)
    BY <1>0, <1>9 DEF IndexFails, MarkReadyFails, Goto
  <1>10. CASE RecordFails(j) /\ ~Strand({j})
    <2>1. PICK w : Drop({j}, "marking", w)
      BY <1>10 DEF RecordFails
    <2> QED
      BY <1>0, <2>1 DEF Drop
  <1> QED
    BY <1>1, <1>2, <1>3, <1>4, <1>5, <1>6, <1>7, <1>8, <1>9, <1>10
    DEF Step, CommitVersion, Ack, CommitVersionFails, DeleteVectorsFails,
        UnindexFails, MarkFailedFails

\* A step puts a document in progress, or rescues it, only for its own job.
LEMMA EnteringStep ==
    ASSUME TypeOK, NEW j \in Jobs, Step(j), NEW d \in Docs,
           status[d] \notin InProgress \/ stranded[d],
           status'[d] \in InProgress, ~stranded'[d]
    PROVE  Working(j, d)'
  <1> USE DEF Working, WorkingPCs
  <1>0. pc \in [Jobs -> PCs] /\ (pc[j] # "idle" => target[j] \in Docs)
    BY DEF TypeOK
  <1>1. CASE CommitVersion(j)
    <2>0. target[j] \in Docs /\ SetStatus(target[j], "pending")
      BY <1>0, <1>1 DEF CommitVersion
    <2>1. target[j] = d
      BY <1>1, <2>0, SetStatusValue DEF CommitVersion, Rescue
    <2>2. Exists(d)
      BY <1>1, <2>0, <2>1, SetStatusValue DEF Exists
    <2> QED
      BY <1>0, <1>1, <2>1, <2>2 DEF CommitVersion, Goto
  <1>2. CASE Start(j)
    <2>0. target[j] \in Docs /\ SetStatus(target[j], "processing")
      BY <1>0, <1>2 DEF Start
    <2>1. target[j] = d
      BY <1>2, <2>0, SetStatusValue DEF Start, histVars
    <2> QED
      BY <1>0, <1>2, <2>1 DEF Start
  <1>3. CASE Strand({j}) /\ UNCHANGED status
    BY <1>3 DEF Strand
  <1>4. CASE \/ MarkReady(j) \/ RecordEmbeddingFailure(j) \/ RecordFailure(j)
             \/ MarkFailed(j)
    <2>1. target[j] \in Docs /\ UNCHANGED stranded
      BY <1>0, <1>4
      DEF MarkReady, RecordEmbeddingFailure, RecordFailure, MarkFailed, histVars
    <2>2. \E s \in Terminal : SetStatus(target[j], s)
      BY <1>4
      DEF MarkReady, RecordEmbeddingFailure, RecordFailure, MarkFailed, Terminal
    <2> QED
      BY <2>1, <2>2, SetStatusValue DEF Terminal, InProgress
  <1>5. CASE UNCHANGED <<status, stranded>>
    BY <1>5
  <1> QED
    BY <1>1, <1>2, <1>3, <1>4, <1>5
    DEF Step, docVars, histVars, Dispatch, LoadForReingest, DeleteVectors,
        DeleteVectorsFails, Unindex, UnindexFails, Parse, Embed, InsertBatch,
        Index, IndexFails, IngestFails, EmbedFails, Ack, CommitVersionFails,
        MarkReadyFails, RecordFails, MarkFailedFails

LEMMA LimboStep ==
    ASSUME TypeOK, NeverInLimbo, NEW j \in Jobs, Step(j)
    PROVE  NeverInLimbo'
  <1> SUFFICES ASSUME NEW d \in Docs, status'[d] \in InProgress, ~stranded'[d]
               PROVE  \E k \in Jobs : Working(k, d)'
    BY DEF NeverInLimbo
  <1>1. CASE status[d] \in InProgress /\ ~stranded[d]
    <2>1. PICK k \in Jobs : Working(k, d)
      BY <1>1 DEF NeverInLimbo
    <2>2. CASE \E i \in Jobs \ {j} : Working(i, d)
      BY <2>2, StepFrame DEF Working
    <2>3. CASE \A i \in Jobs \ {j} : ~Working(i, d)
      BY <2>1, <2>3, WorkingStep
    <2> QED
      BY <2>2, <2>3
  <1>2. CASE status[d] \notin InProgress \/ stranded[d]
    BY <1>2, EnteringStep
  <1> QED
    BY <1>1, <1>2

LEMMA LimboRequest ==
    ASSUME TypeOK, NeverInLimbo, NEW j \in Jobs, NEW e \in Docs, Request(j, e)
    PROVE  NeverInLimbo'
  <1> SUFFICES ASSUME NEW d \in Docs, status'[d] \in InProgress, ~stranded'[d]
               PROVE  \E k \in Jobs : Working(k, d)'
    BY DEF NeverInLimbo
  <1>1. CASE d = e /\ ~\E c \in Contents : UploadVersion(j, e, c)
    BY <1>1 DEF Request, UploadNew, RequestReingest, Claim, Working,
                WorkingPCs, TypeOK
  <1>2. CASE d # e \/ \E c \in Contents : UploadVersion(j, e, c)
    <2>1. status'[d] = status[d] /\ stranded'[d] = stranded[d]
      BY <1>2, SetStatusValue
      DEF Request, UploadNew, UploadVersion, RequestReingest, Claim, Rescue,
          TypeOK
    <2>2. PICK k \in Jobs : Working(k, d)
      BY <2>1 DEF NeverInLimbo
    <2>3. pc[j] = "idle" /\ \A i \in Jobs \ {j} :
              pc'[i] = pc[i] /\ target'[i] = target[i]
      BY DEF Request, UploadNew, UploadVersion, RequestReingest, Claim, TypeOK
    <2> QED
      BY <2>2, <2>3 DEF Working, WorkingPCs
  <1> QED
    BY <1>1, <1>2

LEMMA LimboCrash ==
    ASSUME TypeOK, NeverInLimbo, Crash
    PROVE  NeverInLimbo'
  <1> SUFFICES ASSUME NEW d \in Docs, status'[d] \in InProgress, ~stranded'[d]
               PROVE  \E k \in Jobs : Working(k, d)'
    BY DEF NeverInLimbo
  <1>1. status'[d] = status[d] /\ ~stranded[d]
    BY DEF Crash, ApiCrash, WorkerCrash, ChildKilled, docVars, Strand
  <1>2. PICK k \in Jobs : Working(k, d)
    BY <1>1 DEF NeverInLimbo
  <1>3. CASE WorkerCrash
    <2>1. Drop(OnHost(Workers), "queued", "broker")
      BY <1>3 DEF WorkerCrash
    <2> QED
      BY <1>2, <2>1 DEF Drop, Working, WorkingPCs
  <1>4. CASE ~WorkerCrash
    <2>1. PICK S \in SUBSET Jobs : Drop(S, "idle", "api") /\ Strand(S)
      BY <1>4 DEF Crash, ApiCrash, ChildKilled, OnHost
    <2>2. PICK i \in Jobs \ S : Working(i, d)
      BY <1>2, <2>1 DEF Strand
    <2> QED
      BY <2>1, <2>2 DEF Drop, Working
  <1> QED
    BY <1>3, <1>4

LEMMA LimboNext == TypeOK /\ NeverInLimbo /\ [Next]_vars => NeverInLimbo'
  <1> SUFFICES ASSUME TypeOK, NeverInLimbo, [Next]_vars
               PROVE  NeverInLimbo'
    OBVIOUS
  <1>1. CASE \E S \in SUBSET Docs : DeleteDocuments(S)
    BY <1>1 DEF DeleteDocuments, NeverInLimbo, InProgress, Working, jobVars,
                histVars
  <1>2. CASE UNCHANGED vars
    BY <1>2 DEF NeverInLimbo, Working, vars, docVars, jobVars, histVars
  <1> QED
    BY <1>1, <1>2, LimboStep, LimboRequest, LimboCrash DEF Next

\* A document in progress always has a job that will give it a terminal
\* status, unless its last job died half-way (a crash, a killed child, a failed
\* clean-up of a re-ingestion, or a failure that could not be recorded).
THEOREM NoLimbo == Spec => []NeverInLimbo
  <1>1. Init => NeverInLimbo
    BY DEF Init, NeverInLimbo, InProgress
  <1> QED
    BY <1>1, LimboNext, TypeCorrect, PTL DEF Spec

-----------------------------------------------------------------------------
(***************************************************************************)
(* A ready document is indexed exactly.                                    *)
(*                                                                         *)
(* The property says nothing of a document that is being ingested, so it   *)
(* is not inductive.  The strengthening, Phase, says what each step of the *)
(* one job of a serial document has established: from the clean-up on, the *)
(* vector store holds a part of the file's image and nothing else; while   *)
(* inserting, the batches before next are there; when indexing, all are.   *)
(***************************************************************************)

\* Chunk count and vector store say the same of document d as its live file.
Exact(d) == vec[d] = Image(file[d]) /\ chunkCount[d] = Batches[file[d]]

\* The store holds no chunk of d but those of its live file.
Clean(d) == \A i \in Idx : vec[d][i] \in {NoContent, Image(file[d])[i]}

ReadyIsExact(d) == status[d] = "ready" => Exact(d)

\* What the only job j of document d has established at its step.
Phase(j, d) ==
    /\ pc[j] \notin {"bumping", "queued", "marking", "acking"}
         => status[d] # "ready"
    /\ pc[j] \in {"queued", "marking", "acking"} => ReadyIsExact(d)
    /\ pc[j] \notin {"bumping", "requeued", "cleaning"} => Clean(d)
    /\ pc[j] \in {"embedding", "inserting", "indexing", "committing"}
         => parsed[j] = file[d]
    /\ pc[j] = "inserting" => \A i \in Idx : i < next[j] => vec[d][i] = file[d]
    /\ pc[j] \in {"indexing", "committing"} => vec[d] = Image(file[d])

SerialInv(d) ==
    serial[d] =>
        /\ \A j, k \in Jobs : Busy(j, d) /\ Busy(k, d) => j = k
        /\ (\A j \in Jobs : ~Busy(j, d)) => ReadyIsExact(d)
        /\ \A j \in Jobs : Busy(j, d) => Phase(j, d)

\* An unused id has no chunks and no job; a used one has a file.
FreshInv(d) ==
    /\ status[d] = "absent" => vec[d] = NoIndex /\ \A j \in Jobs : ~Busy(j, d)
    /\ status[d] # "absent" => file[d] \in Contents

\* Only the steps of ingest_document and of its Celery task run on a worker.
WorkerPCs == {"parsing", "embedding", "inserting", "indexing", "committing",
              "embfailing", "failing", "marking", "acking"}

HostInv == \A j \in Jobs : host[j] \in Workers => pc[j] \in WorkerPCs

IndexInv == TypeInv /\ HostInv /\ \A d \in Docs : SerialInv(d) /\ FreshInv(d)

LEMMA IndexInvSuffices == IndexInv => ReadyIndexExact
  BY DEF IndexInv, SerialInv, Phase, ReadyIsExact, Exact, ReadyIndexExact, Busy

LEMMA IndexInit == Init => IndexInv
  <1> SUFFICES ASSUME Init PROVE IndexInv
    OBVIOUS
  <1>1. TypeInv
    BY InitType
  <1>2. HostInv
    BY HostAssumption DEF Init, HostInv
  <1>3. ASSUME NEW d \in Docs PROVE SerialInv(d) /\ FreshInv(d)
    BY DEF Init, SerialInv, FreshInv, ReadyIsExact, Busy
  <1> QED
    BY <1>1, <1>2, <1>3 DEF IndexInv

----------------------------------------------------------------------------
(* The frame: what a step leaves alone stays as it was. *)

\* Nothing the invariant says of document d changes.
Same(d) ==
    /\ status'[d] = status[d] /\ chunkCount'[d] = chunkCount[d]
    /\ file'[d] = file[d] /\ vec'[d] = vec[d]
    /\ serial'[d] => serial[d]
    /\ \A k \in Jobs : Busy(k, d)' <=> Busy(k, d)
    /\ \A k \in Jobs : Busy(k, d)
         => pc'[k] = pc[k] /\ parsed'[k] = parsed[k] /\ next'[k] = next[k]

LEMMA SameKeeps ==
    ASSUME NEW d \in Docs, SerialInv(d), FreshInv(d), Same(d)
    PROVE  SerialInv(d)' /\ FreshInv(d)'
  <1>1. ReadyIsExact(d)' <=> ReadyIsExact(d)
    BY DEF Same, ReadyIsExact, Exact, Image
  <1>2. Clean(d)' <=> Clean(d)
    BY DEF Same, Clean, Image
  <1>3. \A k \in Jobs : Busy(k, d) /\ Phase(k, d) => Phase(k, d)'
    BY <1>1, <1>2 DEF Same, Phase, Image
  <1>4. SerialInv(d)'
    BY <1>1, <1>3 DEF SerialInv, Same
  <1>5. FreshInv(d)'
    BY DEF FreshInv, Same
  <1> QED
    BY <1>4, <1>5

\* A step of job j on its own document: it is enough to establish its next
\* phase, or exactness when the job ends with the document ready.
LEMMA OwnKeeps ==
    ASSUME NEW d \in Docs, SerialInv(d), NEW j \in Jobs, Busy(j, d),
           serial'[d] => serial[d],
           \A k \in Jobs \ {j} : pc'[k] = pc[k] /\ target'[k] = target[k],
           serial'[d] /\ Busy(j, d)' => Phase(j, d)',
           serial'[d] /\ ~Busy(j, d)' => ReadyIsExact(d)'
    PROVE  SerialInv(d)'
  BY DEF SerialInv, Busy

\* The steps of job j leave every other document alone.
LEMMA StepElsewhere ==
    ASSUME TypeInv, NEW j \in Jobs, Step(j), NEW d \in Docs, d # target[j]
    PROVE  Same(d)
  <1>1. target[j] \in Docs /\ pc[j] # "idle"
    BY DEF TypeInv, TypeOK, Step, Dispatch, CommitVersion, LoadForReingest,
           DeleteVectors, DeleteVectorsFails, Unindex, Start, Parse, Embed,
           InsertBatch, Index, MarkReady, IngestFails, EmbedFails,
           RecordEmbeddingFailure, RecordFailure, MarkFailed, Ack,
           UnindexFails, IndexFails, CommitVersionFails,
           MarkReadyFails, RecordFails, MarkFailedFails
  <1>2. file' = file /\ (serial'[d] => serial[d])
    BY <1>1 DEF TypeInv, TypeOK, Step, Dispatch, CommitVersion, LoadForReingest,
           DeleteVectors, DeleteVectorsFails, Unindex, Start, Parse, Embed,
           InsertBatch, Index, MarkReady, IngestFails, EmbedFails,
           RecordEmbeddingFailure, RecordFailure, MarkFailed, Ack,
           UnindexFails, IndexFails, CommitVersionFails,
           MarkReadyFails, RecordFails, MarkFailedFails, docVars,
           histVars
  <1>3. status'[d] = status[d]
    <2>1. UNCHANGED status \/ \E s : SetStatus(target[j], s)
      BY DEF Step, Dispatch, CommitVersion, LoadForReingest,
             DeleteVectors, DeleteVectorsFails, Unindex, Start, Parse, Embed,
             InsertBatch, Index, MarkReady, IngestFails, EmbedFails,
             RecordEmbeddingFailure, RecordFailure, MarkFailed, Ack,
             UnindexFails, IndexFails, CommitVersionFails,
             MarkReadyFails, RecordFails, MarkFailedFails, docVars
    <2> QED
      BY <1>1, <2>1, SetStatusValue DEF TypeInv
  <1>4. chunkCount'[d] = chunkCount[d]
    BY <1>1 DEF TypeInv, TypeOK, Step, Dispatch, CommitVersion, LoadForReingest,
           DeleteVectors, DeleteVectorsFails, Unindex, Start, Parse, Embed,
           InsertBatch, Index, MarkReady, IngestFails, EmbedFails,
           RecordEmbeddingFailure, RecordFailure, MarkFailed, Ack,
           UnindexFails, IndexFails, CommitVersionFails,
           MarkReadyFails, RecordFails, MarkFailedFails, docVars
  <1>5. vec'[d] = vec[d]
    BY <1>1 DEF TypeInv, TypeOK, Step, Dispatch, CommitVersion, LoadForReingest,
           DeleteVectors, DeleteVectorsFails, Unindex, Start, Parse, Embed,
           InsertBatch, Index, MarkReady, IngestFails, EmbedFails,
           RecordEmbeddingFailure, RecordFailure, MarkFailed, Ack,
           UnindexFails, IndexFails, CommitVersionFails,
           MarkReadyFails, RecordFails, MarkFailedFails, indexVars
  <1>6. \A k \in Jobs \ {j} : /\ pc'[k] = pc[k] /\ target'[k] = target[k]
                              /\ parsed'[k] = parsed[k] /\ next'[k] = next[k]
    BY DEF TypeInv, TypeOK, Step, Dispatch, CommitVersion, LoadForReingest,
           DeleteVectors, DeleteVectorsFails, Unindex, Start, Parse, Embed,
           InsertBatch, Index, MarkReady, IngestFails, EmbedFails,
           RecordEmbeddingFailure, RecordFailure, MarkFailed, Ack,
           UnindexFails, IndexFails, CommitVersionFails,
           MarkReadyFails, RecordFails, MarkFailedFails,
           Goto, End, Finish, Drop
  <1>7. target'[j] \in {target[j], NoDoc}
    BY DEF TypeInv, TypeOK, Step, Dispatch, CommitVersion, LoadForReingest,
           DeleteVectors, DeleteVectorsFails, Unindex, Start, Parse, Embed,
           InsertBatch, Index, MarkReady, IngestFails, EmbedFails,
           RecordEmbeddingFailure, RecordFailure, MarkFailed, Ack,
           UnindexFails, IndexFails, CommitVersionFails,
           MarkReadyFails, RecordFails, MarkFailedFails,
           Goto, End, Finish, Drop
  <1> QED
    BY <1>2, <1>3, <1>4, <1>5, <1>6, <1>7, NullAssumption DEF Same, Busy

\* What every step of job j knows of its own document.
LEMMA StepHome ==
    ASSUME TypeInv, NEW j \in Jobs, Step(j)
    PROVE  /\ pc[j] # "idle" /\ target[j] \in Docs /\ Busy(j, target[j])
           /\ file' = file /\ \A d \in Docs : serial'[d] => serial[d]
           /\ \A k \in Jobs \ {j} : pc'[k] = pc[k] /\ target'[k] = target[k]
  <1>1. /\ target[j] \in Docs /\ pc[j] # "idle" /\ file' = file
        /\ \A d \in Docs : serial'[d] => serial[d]
    BY DEF TypeInv, TypeOK, Step, Dispatch, CommitVersion, LoadForReingest,
           DeleteVectors, DeleteVectorsFails, Unindex, Start, Parse, Embed,
           InsertBatch, Index, MarkReady, IngestFails, EmbedFails,
           RecordEmbeddingFailure, RecordFailure, MarkFailed, Ack,
           UnindexFails, IndexFails, CommitVersionFails,
           MarkReadyFails, RecordFails, MarkFailedFails, docVars,
           histVars
  <1> QED
    BY <1>1, StepFrame DEF Busy, TypeInv

\* A step leaves the row of an unused id unused, and a used one used.
LEMMA FreshStep ==
    ASSUME TypeInv, NEW j \in Jobs, Step(j), NEW d \in Docs, d = target[j],
           FreshInv(d)
    PROVE  status'[d] # "absent" /\ FreshInv(d)'
  <1>1. status[d] # "absent" /\ file'[d] = file[d]
    BY StepHome DEF FreshInv
  <1>2. status'[d] # "absent"
    <2>1. \/ UNCHANGED status
          \/ \E s \in Terminal \cup InProgress : SetStatus(d, s)
      BY DEF Step, Dispatch, CommitVersion, LoadForReingest,
             DeleteVectors, DeleteVectorsFails, Unindex, Start, Parse, Embed,
             InsertBatch, Index, MarkReady, IngestFails, EmbedFails,
             RecordEmbeddingFailure, RecordFailure, MarkFailed, Ack,
             UnindexFails, IndexFails, CommitVersionFails,
             MarkReadyFails, RecordFails, MarkFailedFails, docVars,
             Terminal, InProgress
    <2> QED
      BY <1>1, <2>1, SetStatusValue DEF TypeInv, Terminal, InProgress
  <1> QED
    BY <1>1, <1>2 DEF FreshInv

----------------------------------------------------------------------------
(* Each step of the only job of a serial document reaches its next phase. *)

\* Steps before the parser has read the file.
LEMMA PreparePhase ==
    ASSUME TypeInv, NEW j \in Jobs, NEW d \in Docs, Busy(j, d), Phase(j, d),
           \/ Dispatch(j) \/ CommitVersion(j) \/ LoadForReingest(j)
           \/ DeleteVectors(j) \/ DeleteVectorsFails(j) \/ Unindex(j)
           \/ UnindexFails(j) \/ Start(j)
    PROVE  /\ Busy(j, d)' => Phase(j, d)'
           /\ ~Busy(j, d)' => ReadyIsExact(d)'
  <1> USE DEF TypeInv, Busy
  <1>0. /\ pc \in [Jobs -> PCs] /\ target \in [Jobs -> Docs \cup {NoDoc}]
        /\ target[j] = d /\ TypeOK
        /\ vec \in [Docs -> [Idx -> Contents \cup {NoContent}]]
    BY DEF TypeOK
  <1>1. CASE Dispatch(j)
    <2>1. /\ status' = status /\ file' = file /\ vec' = vec
          /\ chunkCount' = chunkCount /\ pc[j] = "dispatching"
          /\ pc'[j] = "queued" /\ target' = target
      BY <1>0, <1>1 DEF Dispatch, docVars, indexVars
    <2> QED
      BY <1>0, <2>1 DEF Phase, Clean, ReadyIsExact, Image
  <1>2. CASE CommitVersion(j)
    <2>1. status'[d] = IF Exists(d) THEN "pending" ELSE status[d]
      BY <1>0, <1>2, SetStatusValue DEF CommitVersion
    <2>2. status'[d] # "ready"
      BY <2>1 DEF Exists, Terminal
    <2>3. Busy(j, d)' => pc'[j] = "requeued"
      BY <1>0, <1>2, NullAssumption DEF CommitVersion, Goto, End, Drop
    <2> QED
      BY <2>2, <2>3 DEF Phase, ReadyIsExact
  <1>3. CASE LoadForReingest(j)
    <2>1. status' = status /\ pc[j] = "requeued"
      BY <1>3 DEF LoadForReingest, docVars
    <2>2. Busy(j, d)' => pc'[j] = "cleaning"
      BY <1>0, <1>3 DEF LoadForReingest, Goto, End, Drop
    <2>3. status'[d] # "ready"
      BY <2>1 DEF Phase
    <2> QED
      BY <2>2, <2>3 DEF Phase, ReadyIsExact
  <1>4. CASE DeleteVectors(j)
    <2>1. status' = status /\ pc[j] = "cleaning" /\ pc'[j] = "unindexing"
          /\ vec'[d] = NoIndex /\ target' = target
      BY <1>0, <1>4 DEF DeleteVectors, docVars, Goto
    <2> QED
      BY <1>0, <2>1 DEF Phase, Clean, NoIndex
  <1>5. CASE DeleteVectorsFails(j) \/ UnindexFails(j)
    <2>1. /\ status' = status /\ pc[j] \in {"cleaning", "unindexing"}
          /\ pc'[j] = "idle"
      BY <1>0, <1>5 DEF DeleteVectorsFails, UnindexFails, docVars, End, Drop
    <2> QED
      BY <2>1 DEF Phase, ReadyIsExact
  <1>6. CASE Unindex(j)
    <2>1. /\ status' = status /\ file' = file /\ vec' = vec
          /\ pc[j] = "unindexing" /\ pc'[j] = "queued" /\ target' = target
      BY <1>0, <1>6 DEF Unindex, docVars, Goto
    <2> QED
      BY <1>0, <2>1 DEF Phase, Clean, ReadyIsExact, Image
  <1>7. CASE Start(j)
    <2>1. status'[d] = IF Exists(d) THEN "processing" ELSE status[d]
      BY <1>0, <1>7, SetStatusValue DEF Start
    <2>2. status'[d] # "ready"
      BY <2>1 DEF Exists, Terminal
    <2>3. /\ file' = file /\ vec' = vec /\ pc[j] = "queued"
          /\ pc'[j] = "parsing" /\ target' = target
      BY <1>0, <1>7 DEF Start, indexVars
    <2> QED
      BY <1>0, <2>2, <2>3 DEF Phase, Clean, Image
  <1> QED
    BY <1>1, <1>2, <1>3, <1>4, <1>5, <1>6, <1>7

\* Steps from the parser to the keyword index.
LEMMA InsertPhase ==
    ASSUME TypeInv, NEW j \in Jobs, NEW d \in Docs, Busy(j, d), Phase(j, d),
           \/ Parse(j) \/ Embed(j) \/ InsertBatch(j) \/ Index(j)
           \/ IngestFails(j) \/ EmbedFails(j) \/ IndexFails(j)
    PROVE  Busy(j, d)' /\ Phase(j, d)'
  <1> USE DEF TypeInv, Busy
  <1>0. /\ pc \in [Jobs -> PCs] /\ target[j] = d
        /\ parsed \in [Jobs -> Contents \cup {NoContent}]
        /\ vec \in [Docs -> [Idx -> Contents \cup {NoContent}]]
    BY DEF TypeOK
  <1>a. status' = status /\ file' = file /\ target' = target
    BY DEF Parse, Embed, InsertBatch, Index, IngestFails, EmbedFails, IndexFails,
           docVars, Goto
  <1>1. CASE Parse(j)
    <2>1. /\ vec' = vec /\ pc[j] = "parsing" /\ pc'[j] = "embedding"
          /\ parsed'[j] = file[d]
      BY <1>0, <1>1 DEF Parse, indexVars
    <2> QED
      BY <1>0, <1>a, <2>1 DEF Phase, Clean, Image
  <1>2. CASE Embed(j)
    <2>1. /\ vec' = vec /\ pc[j] = "embedding" /\ pc'[j] = "inserting"
          /\ parsed' = parsed /\ next'[j] = 1
      BY <1>0, <1>2 DEF Embed, indexVars, Goto, LoopInv
    <2>2. \A i \in Idx : ~(i < 1)
      BY BatchesAssumption DEF Idx
    <2> QED
      BY <1>0, <1>a, <2>1, <2>2 DEF Phase, Clean, Image
  <1>3. CASE IngestFails(j) \/ EmbedFails(j) \/ IndexFails(j)
    <2>1. /\ vec' = vec /\ pc'[j] \in {"failing", "embfailing"}
          /\ pc[j] \in {"parsing", "inserting", "embedding", "indexing"}
      BY <1>0, <1>3 DEF IngestFails, EmbedFails, IndexFails, indexVars, Goto
    <2> QED
      BY <1>0, <1>a, <2>1 DEF Phase, Clean, Image
  <1>4. CASE Index(j)
    <2>1. /\ vec' = vec /\ pc[j] = "indexing" /\ pc'[j] = "committing"
          /\ parsed' = parsed
      BY <1>0, <1>4 DEF Index, Goto
    <2> QED
      BY <1>0, <1>a, <2>1 DEF Phase, Clean, Image
  <1>5. CASE InsertBatch(j)
    <2> DEFINE c == file[d]
               n == next[j]
    <2>1. /\ pc[j] = "inserting" /\ parsed[j] = c /\ c \in Contents
          /\ Clean(d) /\ status[d] # "ready"
          /\ \A i \in Idx : i < n => vec[d][i] = c
      BY <1>5 DEF InsertBatch, Phase, TypeOK
    <2>2. Batches[c] \in 0..MaxBatches /\ n \in 1..Batches[c] /\ n \in Idx
      BY <2>1, BatchesAssumption DEF LoopInv, TypeOK, Idx
    <2>3. /\ vec'[d] = [vec[d] EXCEPT ![n] = c]
          /\ next'[j] = n + 1 /\ parsed' = parsed
          /\ pc'[j] = IF n = Batches[c] THEN "indexing" ELSE "inserting"
      BY <1>0, <1>5, <2>1 DEF InsertBatch, TypeOK
    <2>4. \A i \in Idx : vec'[d][i] = IF i = n THEN c ELSE vec[d][i]
      BY <1>0, <2>3
    <2>5. Clean(d)'
      BY <1>a, <2>1, <2>2, <2>4 DEF Clean, Image
    <2>6. \A i \in Idx : i < n + 1 => vec'[d][i] = c
      BY <2>1, <2>2, <2>4 DEF Idx
    <2>7. n = Batches[c] => vec'[d] = Image(c)
      <3> SUFFICES ASSUME n = Batches[c] PROVE vec'[d] = Image(c)
        OBVIOUS
      <3>1. \A i \in Idx : vec'[d][i] = Image(c)[i]
        <4> SUFFICES ASSUME NEW i \in Idx PROVE vec'[d][i] = Image(c)[i]
          OBVIOUS
        <4>1. CASE i <= n
          BY <2>2, <2>6, <4>1 DEF Image, Idx
        <4>2. CASE ~(i <= n)
          BY <1>a, <2>2, <2>5, <4>2 DEF Clean, Image, Idx
        <4> QED
          BY <4>1, <4>2
      <3>2. vec'[d] \in [Idx -> Contents \cup {NoContent}]
        <4>1. vec[d] \in [Idx -> Contents \cup {NoContent}]
          BY <1>0
        <4> HIDE DEF c, n
        <4> QED
          BY <2>1, <2>3, <4>1
      <3> QED
        BY <3>1, <3>2 DEF Image
    <2> QED
      BY <1>0, <1>a, <2>1, <2>3, <2>5, <2>6, <2>7 DEF Phase
  <1> QED
    BY <1>1, <1>2, <1>3, <1>4, <1>5

\* Steps that write a terminal status, and the acknowledgement.
LEMMA CommitPhase ==
    ASSUME TypeInv, NEW j \in Jobs, NEW d \in Docs, Busy(j, d), Phase(j, d),
           \/ MarkReady(j) \/ RecordEmbeddingFailure(j) \/ RecordFailure(j)
           \/ MarkFailed(j) \/ Ack(j)
    PROVE  /\ Busy(j, d)' => Phase(j, d)'
           /\ ~Busy(j, d)' => ReadyIsExact(d)'
  <1> USE DEF TypeInv, Busy
  <1>0. /\ pc \in [Jobs -> PCs] /\ target[j] = d /\ TypeOK
        /\ parsed \in [Jobs -> Contents \cup {NoContent}]
        /\ chunkCount \in [Docs -> 0..MaxBatches]
    BY DEF TypeOK
  <1>a. vec' = vec /\ file' = file
    BY DEF MarkReady, RecordEmbeddingFailure, RecordFailure, MarkFailed, Ack,
           docVars, indexVars
  <1>1. CASE MarkReady(j)
    <2>1. pc[j] = "committing" /\ parsed[j] = file[d] /\ vec[d] = Image(file[d])
      BY <1>1 DEF MarkReady, Phase
    <2>2. status'[d] = IF Exists(d) THEN "ready" ELSE status[d]
      BY <1>0, <1>1, SetStatusValue DEF MarkReady
    <2>3. ReadyIsExact(d)'
      <3>1. CASE Exists(d)
        <4>1. chunkCount'[d] = Batches[file[d]]
          BY <1>0, <1>1, <2>1, <3>1 DEF MarkReady
        <4> QED
          BY <1>a, <2>1, <4>1 DEF ReadyIsExact, Exact, Image
      <3>2. CASE ~Exists(d)
        BY <2>2, <3>2 DEF ReadyIsExact, Exists, Terminal
      <3> QED
        BY <3>1, <3>2
    <2>4. Clean(d)'
      BY <1>a, <2>1 DEF Clean, Image
    <2>5. /\ Busy(j, d)' => pc'[j] \in {"acking", "failing"}
          /\ pc'[j] = "failing" => ~Exists(d)
      BY <1>0, <1>1 DEF MarkReady, Finish, End, Drop, Goto
    <2>6. pc'[j] = "failing" => status'[d] # "ready"
      BY <2>2, <2>5 DEF Exists, Terminal
    <2> QED
      BY <2>3, <2>4, <2>5, <2>6 DEF Phase
  <1>2. CASE RecordEmbeddingFailure(j) \/ RecordFailure(j) \/ MarkFailed(j)
    <2>1. PICK s \in {"embedding_failed", "failed"} : SetStatus(d, s)
      BY <1>0, <1>2 DEF RecordEmbeddingFailure, RecordFailure, MarkFailed
    <2>2. status'[d] # "ready"
      BY <1>0, <2>1, SetStatusValue DEF Exists, Terminal
    <2>3. Clean(d)'
      BY <1>2, <1>a
      DEF RecordEmbeddingFailure, RecordFailure, MarkFailed, Phase, Clean, Image
    <2>4. Busy(j, d)' => pc'[j] \in {"marking", "acking"}
      BY <1>0, <1>2
      DEF RecordEmbeddingFailure, RecordFailure, MarkFailed, Finish, End, Drop,
          Goto
    <2> QED
      BY <2>2, <2>3, <2>4 DEF Phase, ReadyIsExact
  <1>3. CASE Ack(j)
    <2>1. /\ pc[j] = "acking" /\ pc'[j] = "idle" /\ status' = status
          /\ chunkCount' = chunkCount
      BY <1>0, <1>3 DEF Ack, End, Drop, docVars
    <2> QED
      BY <1>a, <2>1 DEF Phase, ReadyIsExact, Exact, Image
  <1> QED
    BY <1>1, <1>2, <1>3

\* A commit that fails leaves rows and vectors as they were.
LEMMA DatabasePhase ==
    ASSUME TypeInv, NEW j \in Jobs, NEW d \in Docs, Busy(j, d), Phase(j, d),
           MarkReadyFails(j) \/ RecordFails(j) \/ MarkFailedFails(j)
    PROVE  /\ Busy(j, d)' => Phase(j, d)'
           /\ ~Busy(j, d)' => ReadyIsExact(d)'
  <1> USE DEF TypeInv, Busy
  <1>0. /\ pc \in [Jobs -> PCs] /\ UNCHANGED <<status, chunkCount, file, vec>>
    BY DEF TypeOK, MarkReadyFails, RecordFails, MarkFailedFails, docVars, indexVars
  <1>1. (ReadyIsExact(d)' <=> ReadyIsExact(d)) /\ (Clean(d)' <=> Clean(d))
    BY <1>0 DEF ReadyIsExact, Exact, Clean, Image
  <1>2. CASE MarkReadyFails(j)
    <2>1. pc[j] = "committing" /\ pc'[j] = "failing"
      BY <1>0, <1>2 DEF MarkReadyFails, Goto
    <2>2. status'[d] # "ready" /\ Clean(d)'
      BY <1>0, <1>1, <2>1 DEF Phase
    <2>3. ReadyIsExact(d)'
      BY <2>2 DEF ReadyIsExact
    <2> QED
      BY <2>1, <2>2, <2>3 DEF Phase
  <1>3. CASE MarkFailedFails(j)
    <2>1. pc[j] = "marking" /\ pc'[j] = "acking"
      BY <1>0, <1>3 DEF MarkFailedFails, Goto
    <2> QED
      BY <1>0, <1>1, <2>1 DEF Phase
  <1>4. CASE RecordFails(j)
    <2>1. /\ pc[j] \in {"requeued", "queued", "embfailing", "failing"}
          /\ pc'[j] \in {"idle", "marking"}
          /\ pc'[j] = "marking" => pc[j] # "requeued"
      BY <1>0, <1>4 DEF RecordFails, End, Drop
    <2>2. ReadyIsExact(d)
      BY <2>1 DEF Phase, ReadyIsExact
    <2> QED
      BY <1>0, <1>1, <2>1, <2>2 DEF Phase
  <1> QED
    BY <1>2, <1>3, <1>4

LEMMA SerialStep ==
    ASSUME TypeInv, NEW j \in Jobs, Step(j), NEW d \in Docs,
           SerialInv(d), FreshInv(d)
    PROVE  SerialInv(d)' /\ FreshInv(d)'
  <1>1. CASE d # target[j]
    BY <1>1, StepElsewhere, SameKeeps
  <1>2. CASE d = target[j]
    <2>1. /\ Busy(j, d) /\ (serial'[d] => serial[d])
          /\ \A k \in Jobs \ {j} : pc'[k] = pc[k] /\ target'[k] = target[k]
      BY <1>2, StepHome
    <2>2. serial'[d] => /\ Busy(j, d)' => Phase(j, d)'
                        /\ ~Busy(j, d)' => ReadyIsExact(d)'
      <3> SUFFICES ASSUME serial'[d]
                   PROVE  /\ Busy(j, d)' => Phase(j, d)'
                          /\ ~Busy(j, d)' => ReadyIsExact(d)'
        OBVIOUS
      <3>1. Phase(j, d) /\ ~CommitVersionFails(j)
        BY <1>2, <2>1 DEF SerialInv, CommitVersionFails, TypeInv, TypeOK
      <3> QED
        BY <2>1, <3>1, PreparePhase, InsertPhase, CommitPhase, DatabasePhase
        DEF Step
    <2>3. SerialInv(d)'
      BY <2>1, <2>2, OwnKeeps
    <2> QED
      BY <1>2, <2>3, FreshStep
  <1> QED
    BY <1>1, <1>2

----------------------------------------------------------------------------
(* Requests, deletions and crashes. *)

LEMMA SerialRequest ==
    ASSUME TypeInv, NEW j \in Jobs, NEW e \in Docs, Request(j, e), NEW d \in Docs,
           SerialInv(d), FreshInv(d)
    PROVE  SerialInv(d)' /\ FreshInv(d)'
  <1> USE DEF TypeInv
  <1>0. /\ pc[j] = "idle" /\ TypeOK /\ vec' = vec /\ chunkCount' = chunkCount
        /\ serial'[e] = (serial[e] /\ ~\E k \in Jobs : Busy(k, e))
        /\ \A f \in Docs \ {e} : serial'[f] = serial[f]
        /\ target'[j] = e /\ pc'[j] # "idle"
        /\ \A k \in Jobs \ {j} : /\ pc'[k] = pc[k] /\ target'[k] = target[k]
                                 /\ parsed'[k] = parsed[k] /\ next'[k] = next[k]
    BY DEF Request, UploadNew, UploadVersion, RequestReingest, Claim, TypeOK,
           indexVars
  <1>1. CASE d # e
    <2>1. status'[d] = status[d] /\ file'[d] = file[d]
      BY <1>0, <1>1, SetStatusValue
      DEF Request, UploadNew, UploadVersion, RequestReingest, TypeOK
    <2>2. Same(d)
      BY <1>0, <1>1, <2>1 DEF Same, Busy
    <2> QED
      BY <2>2, SameKeeps
  <1>2. CASE d = e
    <2>0. /\ Busy(j, d)' /\ (serial'[d] => \A k \in Jobs \ {j} : ~Busy(k, d)')
          /\ serial'[d] => serial[d]
      BY <1>0, <1>2 DEF Busy
    <2>1. Phase(j, d)' => SerialInv(d)'
      BY <2>0 DEF SerialInv
    <2>2. CASE \E c \in Contents : UploadNew(j, e, c)
      <3>1. PICK c \in Contents : UploadNew(j, d, c)
        BY <1>2, <2>2
      <3>2. /\ status'[d] = "pending" /\ file'[d] = c
            /\ pc'[j] = "dispatching" /\ vec'[d] = NoIndex
        BY <1>0, <3>1 DEF UploadNew, Claim, TypeOK, FreshInv
      <3>3. Clean(d)'
        BY <3>2 DEF Clean, NoIndex
      <3>4. Phase(j, d)'
        BY <3>2, <3>3 DEF Phase
      <3>5. FreshInv(d)'
        BY <3>2 DEF FreshInv
      <3> QED
        BY <2>1, <3>4, <3>5
    <2>3. CASE \E c \in Contents : UploadVersion(j, e, c)
      <3>1. PICK c \in Contents : UploadVersion(j, d, c)
        BY <1>2, <2>3
      <3>2. /\ status' = status /\ file'[d] = c /\ pc'[j] = "bumping"
            /\ status[d] # "absent"
        BY <1>0, <3>1 DEF UploadVersion, Claim, TypeOK, Exists, Terminal,
                          InProgress
      <3>3. Phase(j, d)'
        BY <3>2 DEF Phase
      <3>4. FreshInv(d)'
        BY <3>2 DEF FreshInv
      <3> QED
        BY <2>1, <3>3, <3>4
    <2>4. CASE RequestReingest(j, e)
      <3>1. /\ status'[d] = "pending" /\ file' = file /\ pc'[j] = "requeued"
            /\ status[d] # "absent"
        BY <1>0, <1>2, <2>4, SetStatusValue
        DEF RequestReingest, Claim, TypeOK, Exists, Terminal, InProgress
      <3>2. Phase(j, d)'
        BY <3>1 DEF Phase
      <3>3. FreshInv(d)'
        BY <3>1 DEF FreshInv
      <3> QED
        BY <2>1, <3>2, <3>3
    <2> QED
      BY <2>2, <2>3, <2>4 DEF Request
  <1> QED
    BY <1>1, <1>2

LEMMA SerialDelete ==
    ASSUME TypeInv, NEW S \in SUBSET Docs, DeleteDocuments(S), NEW d \in Docs,
           SerialInv(d), FreshInv(d)
    PROVE  SerialInv(d)' /\ FreshInv(d)'
  <1>0. /\ UNCHANGED <<chunkCount, file, vec, pc, target, parsed, next, serial>>
        /\ \A k \in Jobs : Busy(k, d)' <=> Busy(k, d)
    BY DEF DeleteDocuments, indexVars, jobVars, histVars, Busy
  <1>1. CASE d \notin S
    <2>1. status'[d] = status[d]
      BY <1>1 DEF DeleteDocuments
    <2> QED
      BY <1>0, <2>1, SameKeeps DEF Same
  <1>2. CASE d \in S
    <2>1. status'[d] = "deleted" /\ status[d] # "absent"
      BY <1>2 DEF DeleteDocuments, Exists, Terminal, InProgress
    <2>2. ReadyIsExact(d)'
      BY <2>1 DEF ReadyIsExact
    <2>3. Clean(d) => Clean(d)'
      BY <1>0 DEF Clean, Image
    <2>4. \A k \in Jobs : Phase(k, d) => Phase(k, d)'
      BY <1>0, <2>1, <2>2, <2>3 DEF Phase, Image
    <2>5. SerialInv(d)'
      BY <1>0, <2>2, <2>4 DEF SerialInv
    <2>6. FreshInv(d)'
      BY <1>0, <2>1 DEF FreshInv
    <2> QED
      BY <2>5, <2>6
  <1> QED
    BY <1>1, <1>2

\* Jobs that die or go back to the queue, in whatever phase it is sound.
LEMMA DropKeeps ==
    ASSUME TypeInv, NEW d \in Docs, SerialInv(d), FreshInv(d),
           NEW S \in SUBSET Jobs, NEW p \in {"idle", "queued"}, NEW h,
           \A j \in S : pc[j] # "idle", Drop(S, p, h),
           UNCHANGED <<status, chunkCount, file, vec>>,
           serial'[d] => serial[d],
           serial'[d] => \A j \in S : Busy(j, d) =>
                           ReadyIsExact(d) /\ (p = "queued" => Clean(d))
    PROVE  SerialInv(d)' /\ FreshInv(d)'
  <1>1. \A j \in Jobs \ S : /\ pc'[j] = pc[j] /\ target'[j] = target[j]
                            /\ parsed'[j] = parsed[j] /\ next'[j] = next[j]
    BY DEF Drop
  <1>2. \A j \in S : /\ pc'[j] = p
                     /\ Busy(j, d)' <=> (p = "queued" /\ Busy(j, d))
    BY DEF Drop, Busy
  <1>3. \A j \in Jobs : Busy(j, d)' => Busy(j, d)
    BY <1>1, <1>2 DEF Busy
  <1>4. (ReadyIsExact(d)' <=> ReadyIsExact(d)) /\ (Clean(d)' <=> Clean(d))
    BY DEF ReadyIsExact, Exact, Clean, Image
  <1>5. \A j \in Jobs \ S : Phase(j, d) => Phase(j, d)'
    BY <1>1, <1>4 DEF Phase, Image
  <1>6. ASSUME serial'[d], NEW j \in S, Busy(j, d)' PROVE Phase(j, d)'
    BY <1>2, <1>4, <1>6 DEF Phase
  <1>7. SerialInv(d)'
    <2> SUFFICES ASSUME serial'[d]
                 PROVE  /\ \A j, k \in Jobs : Busy(j, d)' /\ Busy(k, d)' => j = k
                        /\ (\A j \in Jobs : ~Busy(j, d)') => ReadyIsExact(d)'
                        /\ \A j \in Jobs : Busy(j, d)' => Phase(j, d)'
      BY DEF SerialInv
    <2>1. \A j, k \in Jobs : Busy(j, d)' /\ Busy(k, d)' => j = k
      BY <1>3 DEF SerialInv
    <2>2. (\A j \in Jobs : ~Busy(j, d)') => ReadyIsExact(d)'
      <3>1. CASE \E j \in S : Busy(j, d)
        BY <1>4, <3>1
      <3>2. CASE \A j \in S : ~Busy(j, d)
        <4>1. (\A j \in Jobs : ~Busy(j, d)') => \A j \in Jobs : ~Busy(j, d)
          BY <1>1, <3>2 DEF Busy
        <4> QED
          BY <1>4, <4>1 DEF SerialInv
      <3> QED
        BY <3>1, <3>2
    <2>3. \A j \in Jobs : Busy(j, d)' => Phase(j, d)'
      BY <1>3, <1>5, <1>6 DEF SerialInv
    <2> QED
      BY <2>1, <2>2, <2>3
  <1>8. FreshInv(d)'
    BY <1>3 DEF FreshInv
  <1> QED
    BY <1>7, <1>8

LEMMA SerialCrash ==
    ASSUME TypeInv, HostInv, Crash, NEW d \in Docs, SerialInv(d), FreshInv(d)
    PROVE  SerialInv(d)' /\ FreshInv(d)'
  <1>0. /\ UNCHANGED <<status, chunkCount, file, vec>>
        /\ \A H : /\ OnHost(H) \in SUBSET Jobs
                  /\ \A j \in OnHost(H) : pc[j] # "idle"
    BY DEF Crash, ApiCrash, WorkerCrash, ChildKilled, docVars, OnHost
  \* A job on a worker has said nothing yet, or all it has to say is true.
  <1>a. \A j \in Jobs : serial[d] /\ Busy(j, d) /\ pc[j] \in WorkerPCs
          => ReadyIsExact(d) /\ Clean(d)
    BY DEF SerialInv, Phase, WorkerPCs, ReadyIsExact
  <1>b. \A j \in Jobs : serial[d] /\ Busy(j, d) /\ pc[j] # "bumping"
          => ReadyIsExact(d)
    BY DEF SerialInv, Phase, ReadyIsExact
  <1>1. CASE ApiCrash
    <2>1. /\ Drop(OnHost({"api"}), "idle", "api")
          /\ serial'[d] => serial[d] /\ \A j \in Jobs : ~(pc[j] = "bumping"
                                                          /\ target[j] = d)
      BY <1>1 DEF ApiCrash
    <2>2. serial'[d] => \A j \in OnHost({"api"}) : Busy(j, d) => ReadyIsExact(d)
      BY <1>0, <1>b, <2>1 DEF Busy
    <2> QED
      BY <1>0, <2>1, <2>2, DropKeeps
  <1>2. CASE WorkerCrash
    <2>1. Drop(OnHost(Workers), "queued", "broker") /\ serial' = serial
      BY <1>2 DEF WorkerCrash
    <2>2. serial[d] => \A j \in OnHost(Workers) : Busy(j, d) =>
                         ReadyIsExact(d) /\ Clean(d)
      BY <1>a DEF OnHost, HostInv
    <2> QED
      BY <1>0, <2>1, <2>2, DropKeeps
  <1>3. CASE \E w \in Workers : ChildKilled(w)
    <2>1. PICK w \in Workers : ChildKilled(w)
      BY <1>3
    <2>2. Drop(OnHost({w}), "idle", "api") /\ serial' = serial
      BY <2>1 DEF ChildKilled
    <2>3. serial[d] => \A j \in OnHost({w}) : Busy(j, d) => ReadyIsExact(d)
      BY <1>a, <2>1 DEF OnHost, HostInv
    <2> QED
      BY <1>0, <2>2, <2>3, DropKeeps
  <1> QED
    BY <1>1, <1>2, <1>3 DEF Crash

----------------------------------------------------------------------------
(* Only the ingestion steps run on a worker. *)

LEMMA HostStep ==
    ASSUME TypeInv, HostInv, NEW j \in Jobs, Step(j)
    PROVE  HostInv'
  <1> USE DEF TypeInv
  <1>0. /\ pc \in [Jobs -> PCs] /\ host \in [Jobs -> Hosts \cup {"broker"}]
        /\ "api" \notin Workers /\ "broker" \notin Workers
    BY HostAssumption DEF TypeOK
  <1>1. \A k \in Jobs \ {j} : pc'[k] = pc[k] /\ host'[k] = host[k]
    BY <1>0 DEF Step, Dispatch, CommitVersion, LoadForReingest,
           DeleteVectors, DeleteVectorsFails, Unindex, Start, Parse, Embed,
           InsertBatch, Index, MarkReady, IngestFails, EmbedFails,
           RecordEmbeddingFailure, RecordFailure, MarkFailed, Ack,
           UnindexFails, IndexFails, CommitVersionFails,
           MarkReadyFails, RecordFails, MarkFailedFails,
           Goto, End, Finish, Drop
  <1>2. host'[j] \in Workers => pc'[j] \in WorkerPCs
    <2>1. CASE Dispatch(j) \/ CommitVersion(j) \/ LoadForReingest(j)
               \/ DeleteVectors(j) \/ DeleteVectorsFails(j) \/ Unindex(j)
               \/ UnindexFails(j) \/ CommitVersionFails(j)
      <3>1. pc[j] \notin WorkerPCs
        BY <2>1 DEF Dispatch, CommitVersion, LoadForReingest, DeleteVectors,
                    DeleteVectorsFails, Unindex, UnindexFails,
                    CommitVersionFails, WorkerPCs
      <3>2. host'[j] \in {host[j], "api", "broker"}
        BY <1>0, <2>1
        DEF Dispatch, CommitVersion, LoadForReingest, DeleteVectors,
            DeleteVectorsFails, Unindex, UnindexFails, CommitVersionFails,
            Goto, End, Drop
      <3> QED
        BY <1>0, <3>1, <3>2 DEF HostInv
    <2>2. CASE Start(j) \/ Parse(j) \/ Embed(j) \/ InsertBatch(j) \/ Index(j)
               \/ IngestFails(j) \/ EmbedFails(j) \/ IndexFails(j)
               \/ MarkReadyFails(j) \/ MarkFailedFails(j)
      BY <1>0, <2>2 DEF Start, Parse, Embed, InsertBatch, Index, IngestFails,
                        EmbedFails, IndexFails, MarkReadyFails, MarkFailedFails,
                        Goto, WorkerPCs
    <2>3. CASE MarkReady(j) \/ RecordEmbeddingFailure(j) \/ RecordFailure(j)
               \/ MarkFailed(j) \/ Ack(j) \/ RecordFails(j)
      BY <1>0, <2>3 DEF MarkReady, RecordEmbeddingFailure, RecordFailure,
                        MarkFailed, Ack, RecordFails, Goto, End, Finish, Drop,
                        WorkerPCs
    <2> QED
      BY <2>1, <2>2, <2>3 DEF Step
  <1> QED
    BY <1>1, <1>2 DEF HostInv

LEMMA HostElse ==
    ASSUME TypeInv, HostInv,
           \/ \E j \in Jobs, d \in Docs : Request(j, d)
           \/ \E S \in SUBSET Docs : DeleteDocuments(S)
           \/ Crash
    PROVE  HostInv'
  <1> USE HostAssumption DEF TypeInv, HostInv
  <1>1. ASSUME NEW j \in Jobs, NEW d \in Docs, Request(j, d) PROVE HostInv'
    <2>1. pc[j] = "idle" /\ host' = host /\ \A k \in Jobs \ {j} : pc'[k] = pc[k]
      BY <1>1 DEF Request, UploadNew, UploadVersion, RequestReingest, Claim,
                  TypeOK
    <2>2. "idle" \notin WorkerPCs
      BY DEF WorkerPCs
    <2> QED
      BY <2>1, <2>2
  <1>2. ASSUME NEW S \in SUBSET Docs, DeleteDocuments(S) PROVE HostInv'
    BY <1>2 DEF DeleteDocuments, jobVars
  <1>3. CASE Crash
    <2>1. PICK S \in SUBSET Jobs, h \in {"api", "broker"} :
            \/ Drop(S, "idle", h) \/ Drop(S, "queued", h)
      BY <1>3 DEF Crash, ApiCrash, WorkerCrash, ChildKilled, OnHost
    <2> QED
      BY <2>1 DEF Drop
  <1> QED
    BY <1>1, <1>2, <1>3

----------------------------------------------------------------------------

LEMMA IndexNext == IndexInv /\ [Next]_vars => IndexInv'
  <1> SUFFICES ASSUME IndexInv, [Next]_vars PROVE IndexInv'
    OBVIOUS
  <1> USE DEF IndexInv
  <1>1. TypeInv'
    BY NextType
  <1>2. CASE Next
    <2>1. ASSUME NEW j \in Jobs, Step(j) PROVE IndexInv'
      BY <1>1, <2>1, HostStep, SerialStep
    <2>2. ASSUME NEW j \in Jobs, NEW d \in Docs, Request(j, d) PROVE IndexInv'
      BY <1>1, <2>2, HostElse, SerialRequest
    <2>3. ASSUME NEW S \in SUBSET Docs, DeleteDocuments(S) PROVE IndexInv'
      BY <1>1, <2>3, HostElse, SerialDelete
    <2>4. CASE Crash
      BY <1>1, <2>4, HostElse, SerialCrash
    <2> QED
      BY <1>2, <2>1, <2>2, <2>3, <2>4 DEF Next
  <1>3. CASE UNCHANGED vars
    <2>1. HostInv'
      BY <1>3 DEF HostInv, vars, jobVars
    <2>2. ASSUME NEW d \in Docs PROVE Same(d)
      BY <1>3 DEF Same, Busy, vars, docVars, indexVars, jobVars, histVars
    <2> QED
      BY <1>1, <2>1, <2>2, SameKeeps
  <1> QED
    BY <1>2, <1>3

\* While the jobs of a ready document never overlapped, the vector store holds
\* exactly its live file's chunks and chunk_count counts them: what
\* ingest_document and reingest_document promise, for any number of
\* documents, batches, concurrent jobs, workers, crashes and redeliveries.
THEOREM ReadyDocumentsAreIndexed == Spec => []ReadyIndexExact
  <1>1. IndexInv /\ [Next]_vars => IndexInv'
    BY IndexNext
  <1>2. Init => IndexInv
    BY IndexInit
  <1>3. IndexInv => ReadyIndexExact
    BY IndexInvSuffices
  <1> QED
    BY <1>1, <1>2, <1>3, PTL DEF Spec

----------------------------------------------------------------------------
(* The keyword index, in every process and on disk.                        *)
(*                                                                         *)
(* A process that has loaded the index changes, of its entries, only that  *)
(* of the document it works on; what appears anywhere else was in another  *)
(* copy before, or is nothing.  So it is enough to know of a serial        *)
(* document that no copy holds an earlier content while a task of it may   *)
(* run on a worker, and that the API's copy holds none when its own job    *)
(* comes to index.                                                         *)

StoreInv ==
    /\ "api" \in loaded
    /\ \A d \in Docs : keeper[d] # "none" => keeper[d] \in loaded

\* An entry with no chunk but those of content c.
Tidy(entry, c) == \A i \in Idx : entry[i] \in {NoContent, Image(c)[i]}

TidyAll(d) ==
    /\ Tidy(bm25File[d], file[d])
    /\ \A h \in Hosts : Tidy(Memory(h)[d], file[d])

BareAll(d) == bm25File[d] = NoIndex /\ \A h \in Hosts : Memory(h)[d] = NoIndex

\* The process that indexed document d last has its live file.
Kept(d) == \A h \in Hosts : keeper[d] = h /\ h # "none"
                             => Memory(h)[d] = Image(file[d])

KeyReady(d) == status[d] = "ready" => Kept(d)

\* What the only job j of document d has established at its step.
KeyPhase(j, d) ==
    /\ pc[j] \in {"queued", "marking", "acking"} => KeyReady(d)
    /\ pc[j] = "dispatching" => BareAll(d)
    /\ host[j] # "api" => TidyAll(d)
    /\ host[j] = "api" /\ pc[j] \in {"queued", "parsing", "embedding",
                                     "inserting", "indexing"}
         => Memory("api")[d] = NoIndex
    /\ pc[j] = "committing" => Kept(d)

KeyInv(d) ==
    /\ status[d] = "absent" => BareAll(d)
    /\ serial[d] =>
        /\ (\A j \in Jobs : ~Busy(j, d)) => KeyReady(d)
        /\ \A j \in Jobs : Busy(j, d) => KeyPhase(j, d)

KeywordInv == StoreInv /\ \A d \in Docs : KeyInv(d)

LEMMA KeywordInvSuffices == IndexInv /\ KeywordInv => KeywordIndexExact
  <1> SUFFICES ASSUME IndexInv, KeywordInv, NEW d \in Docs,
                      status[d] = "ready", serial[d], keeper[d] # "none",
                      \A j \in Jobs : Busy(j, d) => pc[j] # "bumping"
               PROVE  Memory(keeper[d])[d] = Image(file[d])
    BY DEF KeywordIndexExact
  <1>1. KeyReady(d)
    <2>1. CASE \A j \in Jobs : ~Busy(j, d)
      BY <2>1 DEF KeywordInv, KeyInv
    <2>2. ASSUME NEW j \in Jobs, Busy(j, d) PROVE KeyReady(d)
      <3>1. Phase(j, d) /\ KeyPhase(j, d) /\ pc[j] # "bumping"
        BY <2>2 DEF IndexInv, SerialInv, KeywordInv, KeyInv
      <3> QED
        BY <3>1 DEF Phase, KeyPhase
    <2> QED
      BY <2>1, <2>2
  <1>2. keeper[d] \in Hosts
    BY DEF IndexInv, TypeInv, TypeOK
  <1> QED
    BY <1>1, <1>2 DEF KeyReady, Kept

LEMMA KeywordInit == Init => KeywordInv
  <1> SUFFICES ASSUME Init PROVE KeywordInv
    OBVIOUS
  <1>1. \A h \in Hosts, d \in Docs : Memory(h)[d] = NoIndex /\ bm25File[d] = NoIndex
    BY DEF Init, Memory
  <1>2. StoreInv
    BY DEF Init, StoreInv
  <1>3. ASSUME NEW d \in Docs PROVE KeyInv(d)
    <2>1. BareAll(d)
      BY <1>1 DEF BareAll, Init
    <2> QED
      BY <2>1 DEF Init, KeyInv, KeyReady, Busy
  <1> QED
    BY <1>2, <1>3 DEF KeywordInv

----------------------------------------------------------------------------
(* How a step changes the copies. *)

Entry == [Idx -> Contents \cup {NoContent}]

\* Process h makes v its entry of document e, and saves its store or fails to.
Touch(h, e, v) ==
    /\ Memorise(h, [Memory(h) EXCEPT ![e] = v])
    /\ bm25File' \in {bm25'[h], bm25File, [d \in Docs |-> NoIndex]}

LEMMA TouchedMemory ==
    ASSUME TypeInv, NEW h \in Hosts, NEW e \in Docs, NEW v \in Entry, Touch(h, e, v)
    PROVE  /\ Memory(h)'[e] = v
           /\ \A d \in Docs \ {e} : Memory(h)'[d] = Memory(h)[d]
           /\ \A g \in Hosts \ {h} :
                Memory(g)' = IF g \in loaded THEN Memory(g) ELSE bm25File'
           /\ \A d \in Docs : bm25File'[d] \in {Memory(h)'[d], bm25File[d], NoIndex}
           /\ loaded' = loaded \cup {h}
  <1> DEFINE store == [Memory(h) EXCEPT ![e] = v]
  <1>1. IndexTypeOK
    BY TypeParts
  <1>2. Memory(h) \in Store
    BY <1>1, MemoryType
  <1>3. bm25' = [bm25 EXCEPT ![h] = store] /\ loaded' = loaded \cup {h}
    BY DEF Touch, Memorise
  <1>4. bm25 \in [Hosts -> Store]
    BY <1>1 DEF IndexTypeOK
  <1>5. bm25'[h] = store /\ \A g \in Hosts \ {h} : bm25'[g] = bm25[g]
    BY <1>3, <1>4
  <1>6. Memory(h)' = store
    BY <1>3, <1>5 DEF Memory
  <1>7. /\ store[e] = v /\ \A d \in Docs \ {e} : store[d] = Memory(h)[d]
    BY <1>2 DEF Store
  <1>8. \A g \in Hosts \ {h} : Memory(g)' = IF g \in loaded THEN Memory(g) ELSE bm25File'
    BY <1>3, <1>5 DEF Memory
  <1>9. bm25File' \in {store, bm25File, [d \in Docs |-> NoIndex]}
    BY <1>5 DEF Touch
  <1>10. \A d \in Docs : bm25File'[d] \in {store[d], bm25File[d], NoIndex}
    BY <1>9
  <1> HIDE DEF store
  <1> QED
    BY <1>3, <1>6, <1>7, <1>8, <1>10

LEMMA UnindexTouches ==
    ASSUME NEW j \in Jobs, Unindex(j), NEW d \in Docs, d = target[j]
    PROVE  Touch("api", d, NoIndex)
  <1>1. bm25File' \in {bm25'["api"], bm25File, [x \in Docs |-> NoIndex]}
    BY DEF Unindex, SaveToDisk
  <1> QED
    BY <1>1 DEF Unindex, Touch

LEMMA IndexTouches ==
    ASSUME TypeInv, NEW j \in Jobs, Index(j) \/ IndexFails(j),
           NEW d \in Docs, d = target[j]
    PROVE  Touch(host[j], d, Upsert(Memory(host[j])[d], parsed[j]))
  <1>1. IndexTypeOK /\ host[j] \in Hosts
    BY TypeParts, IndexedType DEF Index, IndexFails
  <1>2. Memory(host[j]) \in Store
    BY <1>1, MemoryType
  <1>3. [Memory(host[j]) EXCEPT ![d] = Upsert(@, parsed[j])]
          = [Memory(host[j]) EXCEPT ![d] = Upsert(Memory(host[j])[d], parsed[j])]
    BY <1>2 DEF Store
  <1>4. bm25File' \in {bm25'[host[j]], bm25File, [x \in Docs |-> NoIndex]}
    BY DEF Index, IndexFails, SaveToDisk
  <1>5. Memorise(host[j], [Memory(host[j]) EXCEPT ![d] = Upsert(@, parsed[j])])
    BY DEF Index, IndexFails
  <1> QED
    BY <1>3, <1>4, <1>5 DEF Touch

\* What a step may touch: the entry of its document, in its process.
LEMMA StepTouches ==
    ASSUME TypeInv, HostInv, NEW j \in Jobs, Step(j), NEW d \in Docs, d = target[j]
    PROVE  \/ /\ UNCHANGED bm25Vars
              /\ pc[j] # "unindexing" /\ pc[j] # "indexing"
           \/ Unindex(j) /\ Touch("api", d, NoIndex) /\ keeper' = keeper
           \/ UnindexFails(j) /\ keeper' = keeper
              /\ (Touch("api", d, NoIndex) \/ UNCHANGED <<bm25, loaded, bm25File>>)
           \/ /\ Index(j) /\ Touch(host[j], d, Upsert(Memory(host[j])[d], parsed[j]))
              /\ keeper' = [keeper EXCEPT ![d] = host[j]]
           \/ /\ IndexFails(j) /\ keeper' = keeper
              /\ Touch(host[j], d, Upsert(Memory(host[j])[d], parsed[j]))
  <1>1. CASE Unindex(j)
    BY <1>1, UnindexTouches DEF Unindex
  <1>2. CASE UnindexFails(j)
    BY <1>2 DEF UnindexFails, Touch
  <1>3. CASE Index(j)
    BY <1>3, IndexTouches DEF Index
  <1>4. CASE IndexFails(j)
    BY <1>4, IndexTouches DEF IndexFails
  <1>5. CASE ~Unindex(j) /\ ~UnindexFails(j) /\ ~Index(j) /\ ~IndexFails(j)
    BY <1>5 DEF Step, Dispatch, CommitVersion, LoadForReingest, DeleteVectors,
       DeleteVectorsFails, Start, Parse, Embed, InsertBatch, MarkReady,
       IngestFails, EmbedFails, RecordEmbeddingFailure, RecordFailure,
       MarkFailed, Ack, CommitVersionFails, MarkReadyFails, RecordFails,
       MarkFailedFails, indexVars, bm25Vars
  <1> QED
    BY <1>1, <1>2, <1>3, <1>4, <1>5

\* An entry of document d that is in some copy now, or nothing.
Came(x, d) ==
    x = NoIndex \/ x = bm25File[d] \/ \E h \in Hosts : x = Memory(h)[d]

\* What a step leaves of the copies of a document that it does not work on.
Inherited(d) ==
    /\ Came(bm25File'[d], d)
    /\ \A h \in Hosts : Came(Memory(h)'[d], d)
    /\ \A h \in Hosts : keeper'[d] = h /\ h # "none"
                         => keeper[d] = h /\ Memory(h)'[d] = Memory(h)[d]

LEMMA TidyInherited ==
    ASSUME NEW d \in Docs, Inherited(d), file'[d] = file[d]
    PROVE  /\ TidyAll(d) => TidyAll(d)'
           /\ BareAll(d) => BareAll(d)'
           /\ Kept(d) => Kept(d)'
  <1>1. \A x : Came(x, d) /\ BareAll(d) => x = NoIndex
    BY DEF Came, BareAll
  <1>2. Tidy(NoIndex, file[d])
    BY DEF Tidy, NoIndex
  <1>3. \A x : Came(x, d) /\ TidyAll(d) => Tidy(x, file[d])
    BY <1>2 DEF Came, TidyAll
  <1>4. \A x : Tidy(x, file[d]) <=> Tidy(x, file'[d])
    OBVIOUS
  <1>5. TidyAll(d) => TidyAll(d)'
    BY <1>3, <1>4 DEF TidyAll, Inherited, Tidy, Image
  <1>6. BareAll(d) => BareAll(d)'
    BY <1>1 DEF BareAll, Inherited, NoIndex
  <1>7. Kept(d) => Kept(d)'
    BY DEF Kept, Inherited, Image
  <1> QED
    BY <1>5, <1>6, <1>7

LEMMA TouchInherited ==
    ASSUME TypeInv, StoreInv, NEW h \in Hosts, NEW e \in Docs, NEW v \in Entry,
           Touch(h, e, v), NEW d \in Docs, d # e, keeper'[d] = keeper[d]
    PROVE  Inherited(d) /\ Memory("api")'[d] = Memory("api")[d]
  <1> USE TouchedMemory
  <1>0. keeper[d] \in Hosts \cup {"none"} /\ "api" \in Hosts
    BY DEF TypeInv, TypeOK, Hosts
  <1>1. Memory(h)'[d] = Memory(h)[d]
    OBVIOUS
  <1>2. \A g \in Hosts \cap loaded : Memory(g)'[d] = Memory(g)[d]
    BY <1>1
  <1>3. bm25File'[d] \in {Memory(h)[d], bm25File[d], NoIndex}
    BY <1>1
  <1>4. Came(bm25File'[d], d)
    BY <1>3 DEF Came
  <1>5. \A g \in Hosts : Came(Memory(g)'[d], d)
    <2> SUFFICES ASSUME NEW g \in Hosts PROVE Came(Memory(g)'[d], d)
      OBVIOUS
    <2>1. CASE g \in loaded \cup {h}
      BY <1>1, <1>2, <2>1 DEF Came
    <2>2. CASE g \notin loaded /\ g # h
      BY <1>4, <2>2
    <2> QED
      BY <2>1, <2>2
  <1> QED
    BY <1>0, <1>2, <1>4, <1>5 DEF Inherited, StoreInv

\* The copies a step leaves alone.
LEMMA UntouchedInherited ==
    ASSUME TypeInv, UNCHANGED <<bm25, loaded, bm25File, keeper>>, NEW d \in Docs
    PROVE  /\ Inherited(d) /\ \A h \in Hosts : Memory(h)' = Memory(h)
           /\ "api" \in Hosts /\ Memory("api")' = Memory("api")
  <1>1. keeper[d] \in Hosts \cup {"none"}
    BY DEF TypeInv, TypeOK
  <1>2. \A h : Memory(h)' = Memory(h)
    BY DEF Memory
  <1> QED
    BY <1>1, <1>2 DEF Inherited, Came, Hosts

\* What no job of document d works on stays as the invariant has it.
LEMMA KeyKeeps ==
    ASSUME NEW d \in Docs, KeyInv(d), Same(d), Inherited(d),
           \A k \in Jobs : Busy(k, d) => host'[k] = host[k],
           \A k \in Jobs : Busy(k, d) /\ host[k] = "api"
             => Memory("api")'[d] = Memory("api")[d]
    PROVE  KeyInv(d)'
  <1>1. file'[d] = file[d] /\ status'[d] = status[d]
    BY DEF Same
  <1>2. /\ TidyAll(d) => TidyAll(d)'
        /\ BareAll(d) => BareAll(d)'
        /\ Kept(d) => Kept(d)'
    BY <1>1, TidyInherited
  <1>3. KeyReady(d) => KeyReady(d)'
    BY <1>1, <1>2 DEF KeyReady
  <1>4. ASSUME NEW k \in Jobs, Busy(k, d), KeyPhase(k, d) PROVE KeyPhase(k, d)'
    <2>1. pc'[k] = pc[k] /\ host'[k] = host[k]
      BY <1>4 DEF Same
    <2>2. host[k] = "api" => Memory("api")'[d] = Memory("api")[d]
      BY <1>4
    <2>3. NoIndex' = NoIndex
      BY DEF NoIndex
    <2> QED
      BY <1>2, <1>3, <1>4, <2>1, <2>2, <2>3 DEF KeyPhase
  <1> QED
    BY <1>1, <1>2, <1>3, <1>4 DEF KeyInv, Same

\* A step of the document's own job: it is enough to establish its next phase.
LEMMA KeyOwn ==
    ASSUME NEW d \in Docs, SerialInv(d), KeyInv(d), NEW j \in Jobs, Busy(j, d),
           serial'[d] => serial[d], status'[d] # "absent",
           \A k \in Jobs \ {j} : pc'[k] = pc[k] /\ target'[k] = target[k],
           serial'[d] /\ Busy(j, d)' => KeyPhase(j, d)',
           serial'[d] /\ ~Busy(j, d)' => KeyReady(d)'
    PROVE  KeyInv(d)'
  BY DEF SerialInv, KeyInv, Busy

----------------------------------------------------------------------------
(* Each step of the only job of a serial document reaches its next phase. *)

\* Steps that touch no copy.
LEMMA QuietKey ==
    ASSUME TypeInv, HostInv, NEW j \in Jobs, Step(j), NEW d \in Docs, Busy(j, d),
           Phase(j, d), KeyPhase(j, d), UNCHANGED bm25Vars,
           pc[j] # "unindexing", pc[j] # "indexing", ~CommitVersionFails(j)
    PROVE  /\ Busy(j, d)' => KeyPhase(j, d)'
           /\ ~Busy(j, d)' => KeyReady(d)'
  <1> USE DEF TypeInv
  <1>0. /\ pc \in [Jobs -> PCs] /\ host \in [Jobs -> Hosts \cup {"broker"}]
        /\ target[j] = d /\ TypeOK /\ file' = file
        /\ "api" \notin Workers /\ "broker" \notin Workers
    BY StepHome, HostAssumption DEF TypeOK, Busy
  <1>1. /\ TidyAll(d)' <=> TidyAll(d)
        /\ Kept(d)' <=> Kept(d)
        /\ (Memory("api")[d] = NoIndex)' <=> (Memory("api")[d] = NoIndex)
        /\ bm25' = bm25 /\ loaded' = loaded /\ bm25File' = bm25File /\ keeper' = keeper
    <2>1. /\ \A h \in Hosts : Memory(h)' = Memory(h)
          /\ Memory("api")' = Memory("api")
          /\ bm25' = bm25 /\ loaded' = loaded /\ bm25File' = bm25File /\ keeper' = keeper
      BY UntouchedInherited DEF bm25Vars
    <2>2. keeper[d] = "none" \/ keeper[d] \in Hosts
      BY <1>0 DEF TypeOK
    <2> QED
      BY <1>0, <2>1, <2>2 DEF TidyAll, Kept, Tidy, Image, NoIndex
  <1>2. BareAll(d) => TidyAll(d) /\ Memory("api")[d] = NoIndex
    BY DEF BareAll, TidyAll, Tidy, NoIndex, Hosts
  <1>a. /\ KeyReady(d) => (status'[d] = status[d] => KeyReady(d)')
        /\ status'[d] # "ready" => KeyReady(d)'
        /\ Kept(d) => KeyReady(d)'
    BY <1>1 DEF KeyReady
  <1>3. CASE Dispatch(j)
    <2>1. /\ pc[j] = "dispatching" /\ pc'[j] = "queued" /\ status' = status
      BY <1>0, <1>3 DEF Dispatch, docVars
    <2>2. KeyReady(d)' /\ BareAll(d)
      BY <1>a, <2>1 DEF Phase, KeyPhase
    <2> QED
      BY <1>1, <1>2, <2>1, <2>2 DEF KeyPhase, Dispatch, Busy
  <1>4. CASE CommitVersion(j)
    <2>1. status'[d] # "ready"
      BY <1>0, <1>4, SetStatusValue DEF CommitVersion, Exists, Terminal
    <2>2. Busy(j, d)' => pc'[j] = "requeued" /\ host'[j] = host[j]
      BY <1>0, <1>4, NullAssumption DEF CommitVersion, Goto, End, Drop, Busy
    <2> QED
      BY <1>1, <1>a, <2>1, <2>2 DEF KeyPhase
  <1>5. CASE LoadForReingest(j) \/ DeleteVectors(j) \/ DeleteVectorsFails(j)
    <2>1. status' = status /\ pc[j] \in {"requeued", "cleaning"}
      BY <1>5 DEF LoadForReingest, DeleteVectors, DeleteVectorsFails, docVars
    <2>2. Busy(j, d)' => pc'[j] \in {"cleaning", "unindexing"} /\ host'[j] = host[j]
      BY <1>0, <1>5 DEF LoadForReingest, DeleteVectors, DeleteVectorsFails,
                        Goto, End, Drop, Busy
    <2>3. KeyReady(d)'
      BY <1>a, <2>1 DEF Phase
    <2> QED
      BY <1>1, <2>2, <2>3 DEF KeyPhase
  <1>6. CASE Start(j)
    <2>1. pc[j] = "queued" /\ pc'[j] = "parsing" /\ target' = target
      BY <1>0, <1>6 DEF Start
    <2>2. PICK h \in Runners(j) : host' = [host EXCEPT ![j] = h]
      BY <1>6 DEF Start
    <2>3. host'[j] = h /\ (h = "api" <=> host[j] = "api")
      BY <1>0, <2>2 DEF Runners
    <2> QED
      BY <1>0, <1>1, <2>1, <2>3 DEF KeyPhase, Busy
  <1>7. CASE \/ Parse(j) \/ Embed(j) \/ InsertBatch(j) \/ IngestFails(j)
             \/ EmbedFails(j) \/ MarkReadyFails(j)
    <2>1. /\ host' = host /\ target' = target
          /\ pc'[j] \in {"embedding", "inserting", "indexing", "failing", "embfailing"}
          /\ pc'[j] \in {"embedding", "inserting", "indexing"}
               => pc[j] \in {"parsing", "embedding", "inserting"}
          /\ pc'[j] # "idle"
      BY <1>0, <1>7 DEF Parse, Embed, InsertBatch, IngestFails, EmbedFails,
                        MarkReadyFails, Goto
    <2> QED
      BY <1>0, <1>1, <2>1 DEF KeyPhase, Busy
  <1>8. CASE MarkReady(j)
    <2>1. Kept(d) /\ pc[j] = "committing"
      BY <1>8 DEF KeyPhase, MarkReady
    <2>2. Busy(j, d)' => pc'[j] \in {"failing", "acking"} /\ host'[j] = host[j]
      BY <1>0, <1>8 DEF MarkReady, Goto, Finish, End, Drop, Busy
    <2>3. KeyReady(d)'
      BY <1>a, <2>1
    <2> QED
      BY <1>1, <2>2, <2>3 DEF KeyPhase
  <1>9. CASE RecordEmbeddingFailure(j) \/ RecordFailure(j) \/ MarkFailed(j)
    <2>1. /\ pc[j] \in {"embfailing", "failing", "marking"}
          /\ \E s \in {"embedding_failed", "failed"} : SetStatus(d, s)
      BY <1>0, <1>9 DEF RecordEmbeddingFailure, RecordFailure, MarkFailed
    <2>2. status'[d] \in {"embedding_failed", "failed"} \/ status'[d] = status[d]
      BY <1>0, <2>1, SetStatusValue
    <2>3. KeyReady(d)'
      BY <1>a, <2>1, <2>2 DEF Phase, KeyPhase
    <2>4. Busy(j, d)' => pc'[j] \in {"marking", "acking"} /\ host'[j] = host[j]
      BY <1>0, <1>9 DEF RecordEmbeddingFailure, RecordFailure, MarkFailed,
                        Goto, Finish, End, Drop, Busy
    <2> QED
      BY <1>1, <2>3, <2>4 DEF KeyPhase
  <1>10. CASE RecordFails(j)
    <2>1. /\ pc[j] \in {"requeued", "queued", "embfailing", "failing"}
          /\ status' = status
      BY <1>10 DEF RecordFails, docVars
    <2>2. KeyReady(d)'
      BY <1>a, <2>1 DEF Phase, KeyPhase
    <2>3. Busy(j, d)' => pc'[j] = "marking" /\ host[j] # "api"
      BY <1>0, <1>10 DEF RecordFails, End, Drop, Busy, Runners
    <2> QED
      BY <1>1, <2>2, <2>3 DEF KeyPhase
  <1>11. CASE MarkFailedFails(j) \/ Ack(j)
    <2>1. pc[j] \in {"marking", "acking"} /\ status' = status
      BY <1>11 DEF MarkFailedFails, Ack, docVars
    <2>2. KeyReady(d)'
      BY <1>a, <2>1 DEF KeyPhase
    <2>3. Busy(j, d)' => pc'[j] = "acking" /\ host'[j] = host[j]
      BY <1>0, <1>11 DEF MarkFailedFails, Ack, Goto, End, Drop, Busy
    <2> QED
      BY <1>1, <2>2, <2>3 DEF KeyPhase
  <1> QED
    BY <1>3, <1>4, <1>5, <1>6, <1>7, <1>8, <1>9, <1>10, <1>11
    DEF Step, Unindex, UnindexFails, Index, IndexFails

\* The clean-up takes the document out of the API's copy.
LEMMA UnindexKey ==
    ASSUME TypeInv, HostInv, NEW j \in Jobs, Unindex(j) \/ UnindexFails(j),
           NEW d \in Docs, Busy(j, d), Phase(j, d), KeyPhase(j, d)
    PROVE  /\ Busy(j, d)' => KeyPhase(j, d)'
           /\ ~Busy(j, d)' => KeyReady(d)'
  <1>0. /\ pc[j] = "unindexing" /\ status' = status /\ target[j] = d
        /\ status[d] # "ready"
    BY DEF Unindex, UnindexFails, docVars, Busy, Phase
  <1>1. KeyReady(d)'
    BY <1>0 DEF KeyReady
  <1>2. CASE UnindexFails(j)
    <2>1. ~Busy(j, d)'
      BY <1>2 DEF UnindexFails, End, Drop, Busy
    <2> QED
      BY <1>1, <2>1
  <1>3. CASE Unindex(j)
    <2>1. host[j] = "api"
      BY <1>0 DEF TypeInv, TypeOK, LoopInv, HostInv, WorkerPCs, Hosts
    <2>2. host' = host /\ pc'[j] = "queued"
      BY <1>3 DEF Unindex, Goto, TypeInv, TypeOK
    <2>3. Touch("api", d, NoIndex)
      BY <1>0, <1>3, UnindexTouches
    <2>4. NoIndex \in Entry /\ "api" \in Hosts
      BY DEF NoIndex, Entry, Hosts
    <2>5. Memory("api")'[d] = NoIndex
      BY <2>3, <2>4, TouchedMemory
    <2>6. NoIndex' = NoIndex
      BY DEF NoIndex
    <2> QED
      BY <1>1, <2>1, <2>2, <2>5, <2>6 DEF KeyPhase
  <1> QED
    BY <1>2, <1>3

\* Chunks of the live file complete a tidy entry.
LEMMA TidyUpsert ==
    ASSUME NEW entry \in Entry, NEW c, Tidy(entry, c)
    PROVE  Upsert(entry, c) = Image(c)
  BY DEF Entry, Tidy, Upsert, Image

\* Adding the chunks makes them what its process has of the document.
LEMMA IndexKey ==
    ASSUME TypeInv, HostInv, StoreInv, NEW j \in Jobs, Index(j) \/ IndexFails(j),
           NEW d \in Docs, Busy(j, d), Phase(j, d), KeyPhase(j, d)
    PROVE  Busy(j, d)' /\ KeyPhase(j, d)'
  <1>h. PICK h \in Hosts : h = host[j]
    BY TypeParts, IndexedType DEF Index, IndexFails
  <1> DEFINE v == Upsert(Memory(h)[d], parsed[j])
  <1>0. /\ pc[j] = "indexing" /\ target[j] = d /\ parsed[j] = file[d]
        /\ file' = file /\ host' = host /\ target' = target
        /\ pc'[j] \in {"committing", "failing"}
        /\ pc'[j] = "committing" => Index(j)
    BY DEF Index, IndexFails, Goto, docVars, Busy, Phase, TypeInv, TypeOK
  <1>1. IndexTypeOK
    BY TypeParts
  <1>2. Memory(h) \in Store /\ Memory(h)[d] \in Entry
    BY <1>0, <1>1, MemoryType DEF Store, Entry
  <1>3. Tidy(Memory(h)[d], file[d])
    <2>1. CASE h = "api"
      BY <1>h, <1>0, <2>1 DEF KeyPhase, Tidy, NoIndex
    <2>2. CASE h # "api"
      BY <1>h, <1>0, <2>2 DEF KeyPhase, TidyAll
    <2> QED
      BY <2>1, <2>2
  <1>4. v = Image(file[d])
    BY <1>0, <1>2, <1>3, TidyUpsert
  <1>5. /\ Touch(h, d, v)
        /\ Index(j) => keeper' = [keeper EXCEPT ![d] = h]
    BY <1>h, <1>0, IndexTouches DEF Index
  <1>6. Image(file[d]) \in Entry
    BY <1>0 DEF Image, Entry, TypeInv, TypeOK
  <1>7. /\ Memory(h)'[d] = Image(file[d])
        /\ \A g \in Hosts \ {h} :
             Memory(g)' = IF g \in loaded THEN Memory(g) ELSE bm25File'
        /\ bm25File'[d] \in {Memory(h)'[d], bm25File[d], NoIndex}
    BY <1>0, <1>4, <1>5, <1>6, TouchedMemory
  <1> HIDE DEF v
  <1>8. pc'[j] = "committing" => Kept(d)'
    <2>1. SUFFICES ASSUME Index(j) PROVE Kept(d)'
      BY <1>0
    <2>2. keeper'[d] = h
      BY <1>5, <2>1 DEF TypeInv, TypeOK
    <2>3. Memory(h)'[d] = Image(file'[d])
      BY <1>0, <1>7
    <2>4. \A g \in Hosts : keeper'[d] = g => Memory(g)'[d] = Image(file'[d])
      BY <2>2, <2>3
    <2> QED
      BY <2>4 DEF Kept, Image
  <1>9. h # "api" => TidyAll(d)'
    <2> SUFFICES ASSUME TidyAll(d) PROVE TidyAll(d)'
      BY <1>h, <1>0 DEF KeyPhase
    <2>1. Tidy(Image(file[d]), file[d]) /\ Tidy(NoIndex, file[d])
      BY DEF Tidy, NoIndex, Image
    <2>2. Tidy(bm25File'[d], file[d])
      BY <1>7, <2>1 DEF TidyAll
    <2>3. \A g \in Hosts : Tidy(Memory(g)'[d], file[d])
      BY <1>7, <2>1, <2>2 DEF TidyAll
    <2>4. \A x : Tidy(x, file[d]) <=> Tidy(x, file'[d])
      BY <1>0
    <2>5. /\ Tidy(bm25File'[d], file'[d])
          /\ \A g \in Hosts : Tidy(Memory(g)'[d], file'[d])
      BY <2>2, <2>3, <2>4
    <2> QED
      BY <2>5 DEF TidyAll, Tidy, Image
  <1> QED
    BY <1>h, <1>0, <1>8, <1>9 DEF KeyPhase, Busy

\* Who holds an index goes on holding it.
LEMMA StoreStep ==
    ASSUME TypeInv, HostInv, StoreInv, NEW j \in Jobs, Step(j)
    PROVE  StoreInv'
  <1>1. PICK d \in Docs : d = target[j]
    BY StepHome
  <1>2. \/ UNCHANGED <<loaded, keeper>>
        \/ loaded \subseteq loaded' /\ keeper' = keeper
        \/ /\ loaded' = loaded \cup {host[j]}
           /\ keeper' = [keeper EXCEPT ![d] = host[j]]
    BY <1>1, StepTouches DEF Touch, Memorise, bm25Vars
  <1> QED
    BY <1>2 DEF StoreInv, TypeInv, TypeOK

LEMMA KeyStep ==
    ASSUME TypeInv, HostInv, StoreInv, NEW j \in Jobs, Step(j), NEW d \in Docs,
           SerialInv(d), FreshInv(d), KeyInv(d)
    PROVE  KeyInv(d)'
  <1>0. PICK e \in Docs : e = target[j]
    BY StepHome
  <1>1. CASE d # e
    <2>1. Same(d)
      BY <1>0, <1>1, StepElsewhere
    <2>2. Inherited(d) /\ Memory("api")'[d] = Memory("api")[d]
      <3>0. /\ IndexTypeOK /\ "api" \in Hosts /\ NoIndex \in Entry
            /\ \A h \in Hosts : Memory(h) \in Store
        BY TypeParts, MemoryType DEF Hosts, NoIndex, Entry
      <3>1. CASE UNCHANGED <<bm25, loaded, bm25File, keeper>>
        BY <3>1, UntouchedInherited
      <3>2. ASSUME Touch("api", e, NoIndex), keeper' = keeper
            PROVE  Inherited(d) /\ Memory("api")'[d] = Memory("api")[d]
        BY <1>1, <3>0, <3>2, TouchInherited
      <3>3. ASSUME Touch(host[j], e, Upsert(Memory(host[j])[e], parsed[j])),
                   keeper'[d] = keeper[d], Index(j) \/ IndexFails(j)
            PROVE  Inherited(d) /\ Memory("api")'[d] = Memory("api")[d]
        <4>1. host[j] \in Hosts /\ parsed[j] \in Contents \cup {NoContent}
          BY <3>3, TypeParts, IndexedType DEF Index, IndexFails, TypeInv, TypeOK
        <4>2. Upsert(Memory(host[j])[e], parsed[j]) \in Entry
          BY <3>0, <4>1, UpsertType DEF Store, Entry
        <4> QED
          BY <1>1, <3>3, <4>1, <4>2, TouchInherited
      <3>4. keeper' = [keeper EXCEPT ![e] = host[j]] => keeper'[d] = keeper[d]
        BY <1>1 DEF TypeInv, TypeOK
      <3> QED
        BY <1>0, <3>1, <3>2, <3>3, <3>4, StepTouches DEF bm25Vars
    <2>3. \A k \in Jobs : Busy(k, d) => host'[k] = host[k]
      <3>1. ~Busy(j, d)
        BY <1>0, <1>1 DEF Busy
      <3>2. \A k \in Jobs \ {j} : host'[k] = host[k]
        BY DEF TypeInv, TypeOK, Step, Dispatch, CommitVersion, LoadForReingest,
               DeleteVectors, DeleteVectorsFails, Unindex, Start, Parse, Embed,
               InsertBatch, Index, MarkReady, IngestFails, EmbedFails,
               RecordEmbeddingFailure, RecordFailure, MarkFailed, Ack,
               UnindexFails, IndexFails, CommitVersionFails,
               MarkReadyFails, RecordFails, MarkFailedFails,
               Goto, End, Finish, Drop
      <3> QED
        BY <3>1, <3>2
    <2> QED
      BY <2>1, <2>2, <2>3, KeyKeeps
  <1>2. CASE d = e
    <2>1. /\ Busy(j, d) /\ (serial'[d] => serial[d])
          /\ \A k \in Jobs \ {j} : pc'[k] = pc[k] /\ target'[k] = target[k]
      BY <1>0, <1>2, StepHome
    <2>2. status'[d] # "absent"
      BY <1>0, <1>2, FreshStep
    <2>3. serial'[d] => /\ Busy(j, d)' => KeyPhase(j, d)'
                        /\ ~Busy(j, d)' => KeyReady(d)'
      <3> SUFFICES ASSUME serial'[d]
                   PROVE  /\ Busy(j, d)' => KeyPhase(j, d)'
                          /\ ~Busy(j, d)' => KeyReady(d)'
        OBVIOUS
      <3>1. Phase(j, d) /\ KeyPhase(j, d) /\ ~CommitVersionFails(j)
        BY <1>0, <1>2, <2>1 DEF SerialInv, KeyInv, CommitVersionFails, TypeInv, TypeOK
      <3>2. CASE Unindex(j) \/ UnindexFails(j)
        BY <2>1, <3>1, <3>2, UnindexKey
      <3>3. CASE Index(j) \/ IndexFails(j)
        BY <2>1, <3>1, <3>3, IndexKey
      <3>4. CASE UNCHANGED bm25Vars /\ pc[j] # "unindexing" /\ pc[j] # "indexing"
        BY <2>1, <3>1, <3>4, QuietKey
      <3> QED
        BY <1>0, <1>2, <3>2, <3>3, <3>4, StepTouches
    <2> QED
      BY <2>1, <2>2, <2>3, KeyOwn
  <1> QED
    BY <1>1, <1>2

----------------------------------------------------------------------------
(* Requests, deletions and crashes. *)

LEMMA KeyRequest ==
    ASSUME TypeInv, HostInv, NEW j \in Jobs, NEW e \in Docs, Request(j, e),
           NEW d \in Docs, SerialInv(d), FreshInv(d), KeyInv(d)
    PROVE  KeyInv(d)'
  <1> USE DEF TypeInv
  <1>0. /\ pc[j] = "idle" /\ TypeOK
        /\ UNCHANGED <<bm25, loaded, bm25File, keeper, host, vec, chunkCount>>
        /\ serial'[e] = (serial[e] /\ ~\E k \in Jobs : Busy(k, e))
        /\ \A f \in Docs \ {e} : serial'[f] = serial[f]
        /\ target'[j] = e /\ pc'[j] \in {"dispatching", "bumping", "requeued"}
        /\ \A k \in Jobs \ {j} : /\ pc'[k] = pc[k] /\ target'[k] = target[k]
                                 /\ parsed'[k] = parsed[k] /\ next'[k] = next[k]
    BY DEF Request, UploadNew, UploadVersion, RequestReingest, Claim, TypeOK,
           indexVars, bm25Vars
  <1>1. /\ Inherited(d) /\ \A h \in Hosts : Memory(h)' = Memory(h)
        /\ "api" \in Hosts /\ Memory("api")' = Memory("api")
    BY <1>0, UntouchedInherited
  <1>2. CASE d # e
    <2>1. status'[d] = status[d] /\ file'[d] = file[d]
      BY <1>0, <1>2, SetStatusValue
      DEF Request, UploadNew, UploadVersion, RequestReingest, TypeOK
    <2>2. Same(d)
      BY <1>0, <1>2, <2>1 DEF Same, Busy
    <2> QED
      BY <1>0, <1>1, <2>2, KeyKeeps
  <1>3. CASE d = e
    <2>1. /\ Busy(j, d)' /\ (serial'[d] => \A k \in Jobs \ {j} : ~Busy(k, d)')
          /\ status'[d] # "absent"
      <3>1. Busy(j, d)' /\ (serial'[d] => \A k \in Jobs \ {j} : ~Busy(k, d)')
        BY <1>0, <1>3 DEF Busy
      <3>2. status'[d] = "pending" \/ (status' = status /\ Exists(d))
        BY <1>0, <1>3, SetStatusValue
        DEF Request, UploadNew, UploadVersion, RequestReingest, TypeOK
      <3> QED
        BY <3>1, <3>2 DEF Exists, Terminal, InProgress
    <2>2. host'[j] = "api"
      BY <1>0 DEF TypeOK, LoopInv, HostInv, WorkerPCs, Hosts
    <2>3. pc'[j] = "dispatching" => BareAll(d)'
      <3>1. SUFFICES ASSUME pc'[j] = "dispatching" PROVE BareAll(d)'
        OBVIOUS
      <3>2. status[d] = "absent"
        BY <1>0, <1>3, <3>1
        DEF Request, UploadNew, UploadVersion, RequestReingest, Claim, TypeOK
      <3>3. BareAll(d)
        BY <3>2 DEF KeyInv
      <3> QED
        BY <1>0, <1>1, <3>3 DEF BareAll, NoIndex
    <2>4. KeyPhase(j, d)'
      BY <1>0, <2>2, <2>3 DEF KeyPhase
    <2> QED
      BY <2>1, <2>4 DEF KeyInv
  <1> QED
    BY <1>2, <1>3

LEMMA KeyDelete ==
    ASSUME TypeInv, NEW S \in SUBSET Docs, DeleteDocuments(S), NEW d \in Docs,
           KeyInv(d)
    PROVE  KeyInv(d)'
  <1>0. /\ UNCHANGED <<chunkCount, file, vec, pc, target, host, parsed, next, serial>>
        /\ UNCHANGED <<bm25, loaded, bm25File, keeper>>
        /\ \A k \in Jobs : Busy(k, d)' <=> Busy(k, d)
    BY DEF DeleteDocuments, indexVars, bm25Vars, jobVars, histVars, Busy
  <1>1. /\ Inherited(d) /\ \A h \in Hosts : Memory(h)' = Memory(h)
        /\ "api" \in Hosts /\ Memory("api")' = Memory("api")
    BY <1>0, UntouchedInherited
  <1>2. CASE d \notin S
    <2>1. status'[d] = status[d]
      BY <1>2 DEF DeleteDocuments
    <2>2. Same(d)
      BY <1>0, <2>1 DEF Same
    <2> QED
      BY <1>0, <1>1, <2>2, KeyKeeps
  <1>3. CASE d \in S
    <2>1. status'[d] = "deleted" /\ status[d] # "absent"
      BY <1>3 DEF DeleteDocuments, Exists, Terminal, InProgress
    <2>2. KeyReady(d)'
      BY <2>1 DEF KeyReady
    <2>3. /\ TidyAll(d) => TidyAll(d)'
          /\ BareAll(d) => BareAll(d)'
          /\ Kept(d) => Kept(d)'
      BY <1>0, <1>1, TidyInherited
    <2>4. NoIndex' = NoIndex
      BY DEF NoIndex
    <2>5. \A k \in Jobs : KeyPhase(k, d) => KeyPhase(k, d)'
      BY <1>0, <1>1, <2>2, <2>3, <2>4 DEF KeyPhase
    <2> QED
      BY <1>0, <2>1, <2>2, <2>5 DEF KeyInv
  <1> QED
    BY <1>2, <1>3

\* A process that restarts has what the file holds, or will load it.
LEMMA RestartInherited ==
    ASSUME TypeInv, StoreInv, NEW H \in SUBSET Hosts, Restart(H),
           UNCHANGED bm25File, NEW d \in Docs
    PROVE  /\ Inherited(d) /\ StoreInv'
           /\ "api" \notin H => Memory("api")'[d] = Memory("api")[d]
  <1>0. /\ bm25' = [h \in Hosts |->
                      IF h \notin H THEN bm25[h]
                      ELSE IF h = "api" THEN bm25File ELSE [x \in Docs |-> NoIndex]]
        /\ loaded' = loaded \ (H \ {"api"})
        /\ keeper' = [x \in Docs |-> IF keeper[x] \in H THEN "none" ELSE keeper[x]]
        /\ keeper[d] \in Hosts \cup {"none"} /\ "api" \in loaded /\ "api" \in Hosts
    BY DEF Restart, TypeInv, TypeOK, StoreInv, Hosts
  <1>1. \A h \in Hosts \ H : Memory(h)' = Memory(h)
    <2> SUFFICES ASSUME NEW h \in Hosts \ H PROVE Memory(h)' = Memory(h)
      OBVIOUS
    <2>1. bm25'[h] = bm25[h] /\ (h \in loaded' <=> h \in loaded)
      BY <1>0
    <2> QED
      BY <2>1 DEF Memory
  <1>2. \A h \in H : Memory(h)' = bm25File
    <2> SUFFICES ASSUME NEW h \in H PROVE Memory(h)' = bm25File
      OBVIOUS
    <2>1. h \in loaded' => h = "api" /\ bm25'[h] = bm25File
      BY <1>0
    <2> QED
      BY <2>1 DEF Memory
  <1>3. \A h \in Hosts : Came(Memory(h)'[d], d)
    BY <1>1, <1>2 DEF Came
  <1>4. Came(bm25File'[d], d)
    BY DEF Came
  <1>5. keeper'[d] = IF keeper[d] \in H THEN "none" ELSE keeper[d]
    BY <1>0
  <1>6. Inherited(d)
    BY <1>0, <1>1, <1>3, <1>4, <1>5 DEF Inherited
  <1>7. StoreInv'
    <2>1. "api" \in loaded'
      BY <1>0
    <2>2. ASSUME NEW x \in Docs, keeper'[x] # "none" PROVE keeper'[x] \in loaded'
      BY <1>0, <2>2 DEF StoreInv
    <2> QED
      BY <2>1, <2>2 DEF StoreInv
  <1> QED
    BY <1>0, <1>1, <1>6, <1>7

\* Jobs that die or go back to the broker.
LEMMA DropKeepsKey ==
    ASSUME NEW d \in Docs, KeyInv(d), Inherited(d),
           NEW S \in SUBSET Jobs, NEW p \in {"idle", "queued"}, NEW h,
           Drop(S, p, h), \A j \in S : pc[j] # "idle",
           UNCHANGED <<status, file>>, serial'[d] => serial[d],
           p = "queued" => h # "api" /\ \A j \in S : host[j] # "api",
           serial'[d] => \A j \in S : Busy(j, d) => KeyReady(d),
           \A j \in Jobs \ S : Busy(j, d) /\ host[j] = "api"
             => Memory("api")'[d] = Memory("api")[d]
    PROVE  KeyInv(d)'
  <1>1. \A j \in Jobs \ S : /\ pc'[j] = pc[j] /\ target'[j] = target[j]
                            /\ host'[j] = host[j]
    BY DEF Drop
  <1>2. \A j \in S : /\ pc'[j] = p /\ host'[j] = h
                     /\ Busy(j, d)' <=> (p = "queued" /\ Busy(j, d))
    BY DEF Drop, Busy
  <1>3. /\ TidyAll(d) => TidyAll(d)'
        /\ BareAll(d) => BareAll(d)'
        /\ Kept(d) => Kept(d)'
    BY TidyInherited
  <1>4. KeyReady(d) => KeyReady(d)'
    BY <1>3 DEF KeyReady
  <1>5. NoIndex' = NoIndex
    BY DEF NoIndex
  <1>6. ASSUME NEW j \in Jobs \ S, Busy(j, d), KeyPhase(j, d) PROVE KeyPhase(j, d)'
    <2>1. host[j] = "api" => Memory("api")'[d] = Memory("api")[d]
      BY <1>6
    <2> QED
      BY <1>1, <1>3, <1>4, <1>5, <1>6, <2>1 DEF KeyPhase
  <1>7. ASSUME serial'[d], NEW j \in S, Busy(j, d)' PROVE KeyPhase(j, d)'
    <2>1. /\ pc'[j] = "queued" /\ host'[j] = h /\ h # "api" /\ host[j] # "api"
          /\ Busy(j, d) /\ serial[d]
      BY <1>2, <1>7
    <2>2. KeyReady(d)' /\ TidyAll(d)'
      BY <1>3, <1>4, <1>7, <2>1 DEF KeyInv, KeyPhase
    <2> QED
      BY <2>1, <2>2 DEF KeyPhase
  <1>8. ASSUME serial'[d] PROVE (\A j \in Jobs : ~Busy(j, d)') => KeyReady(d)'
    <2>1. CASE \E j \in S : Busy(j, d)
      BY <1>4, <1>8, <2>1
    <2>2. CASE \A j \in S : ~Busy(j, d)
      <3>1. (\A j \in Jobs : ~Busy(j, d)') => \A j \in Jobs : ~Busy(j, d)
        BY <1>1, <2>2 DEF Busy
      <3> QED
        BY <1>4, <1>8, <3>1 DEF KeyInv
    <2> QED
      BY <2>1, <2>2
  <1>9. ASSUME serial'[d], NEW j \in Jobs, Busy(j, d)' PROVE KeyPhase(j, d)'
    <2>1. CASE j \in S
      BY <1>7, <1>9, <2>1
    <2>2. CASE j \notin S
      <3>1. Busy(j, d)
        BY <1>1, <1>9, <2>2 DEF Busy
      <3>2. KeyPhase(j, d)
        BY <1>9, <3>1 DEF KeyInv
      <3> QED
        BY <1>6, <2>2, <3>1, <3>2
    <2> QED
      BY <2>1, <2>2
  <1>10. status'[d] = "absent" => BareAll(d)'
    BY <1>3 DEF KeyInv
  <1> QED
    BY <1>8, <1>9, <1>10 DEF KeyInv

LEMMA KeyCrash ==
    ASSUME TypeInv, HostInv, StoreInv, Crash, NEW d \in Docs, SerialInv(d), KeyInv(d)
    PROVE  StoreInv' /\ KeyInv(d)'
  <1>0. /\ UNCHANGED <<status, file, bm25File>>
        /\ \A H : /\ OnHost(H) \in SUBSET Jobs
                  /\ \A j \in OnHost(H) : pc[j] # "idle" /\ host[j] \in H
        /\ "api" \notin Workers /\ "broker" \notin Workers
        /\ {"api"} \in SUBSET Hosts /\ Workers \in SUBSET Hosts
        /\ \A w \in Workers : {w} \in SUBSET Hosts
    BY HostAssumption
    DEF Crash, ApiCrash, WorkerCrash, ChildKilled, docVars, OnHost, Hosts
  <1>a. \A j \in Jobs : serial[d] /\ Busy(j, d) /\ pc[j] # "bumping" => KeyReady(d)
    <2> SUFFICES ASSUME NEW j \in Jobs, serial[d], Busy(j, d), pc[j] # "bumping"
                 PROVE  KeyReady(d)
      OBVIOUS
    <2>1. Phase(j, d) /\ KeyPhase(j, d)
      BY DEF SerialInv, KeyInv
    <2> QED
      BY <2>1 DEF Phase, KeyPhase, KeyReady
  <1>b. \A H \in SUBSET Workers : \A j \in OnHost(H) : pc[j] # "bumping"
    BY <1>0 DEF HostInv, WorkerPCs
  <1>1. CASE ApiCrash
    <2>1. /\ Drop(OnHost({"api"}), "idle", "api") /\ Restart({"api"})
          /\ serial'[d] => serial[d] /\ \A j \in Jobs : ~(pc[j] = "bumping"
                                                          /\ target[j] = d)
      BY <1>1 DEF ApiCrash
    <2>2. StoreInv' /\ Inherited(d)
      BY <1>0, <2>1, RestartInherited
    <2>3. serial'[d] => \A j \in OnHost({"api"}) : Busy(j, d) => KeyReady(d)
      BY <1>0, <1>a, <2>1 DEF Busy
    <2>4. \A j \in Jobs \ OnHost({"api"}) : ~(Busy(j, d) /\ host[j] = "api")
      BY DEF OnHost, Busy
    <2>5. KeyInv(d)'
      BY <1>0, <2>1, <2>2, <2>3, <2>4, DropKeepsKey
    <2> QED
      BY <2>2, <2>5
  <1>2. CASE WorkerCrash
    <2>1. /\ Drop(OnHost(Workers), "queued", "broker") /\ Restart(Workers)
          /\ serial' = serial
      BY <1>2 DEF WorkerCrash
    <2>2. /\ StoreInv' /\ Inherited(d)
          /\ Memory("api")'[d] = Memory("api")[d]
      BY <1>0, <2>1, RestartInherited
    <2>3. serial[d] => \A j \in OnHost(Workers) : Busy(j, d) => KeyReady(d)
      BY <1>0, <1>a, <1>b
    <2>4. \A j \in OnHost(Workers) : host[j] # "api"
      BY <1>0
    <2>5. KeyInv(d)'
      BY <1>0, <2>1, <2>2, <2>3, <2>4, DropKeepsKey
    <2> QED
      BY <2>2, <2>5
  <1>3. CASE \E w \in Workers : ChildKilled(w)
    <2>1. PICK w \in Workers : ChildKilled(w)
      BY <1>3
    <2>2. /\ Drop(OnHost({w}), "idle", "api") /\ Restart({w})
          /\ serial' = serial
      BY <2>1 DEF ChildKilled
    <2>3. /\ StoreInv' /\ Inherited(d)
          /\ Memory("api")'[d] = Memory("api")[d]
      BY <1>0, <2>2, RestartInherited
    <2>4. serial[d] => \A j \in OnHost({w}) : Busy(j, d) => KeyReady(d)
      BY <1>0, <1>a, <1>b
    <2>5. KeyInv(d)'
      BY <1>0, <2>2, <2>3, <2>4, DropKeepsKey
    <2> QED
      BY <2>3, <2>5
  <1> QED
    BY <1>1, <1>2, <1>3 DEF Crash

----------------------------------------------------------------------------

LEMMA KeywordNext == IndexInv /\ KeywordInv /\ [Next]_vars => KeywordInv'
  <1> SUFFICES ASSUME IndexInv, KeywordInv, [Next]_vars PROVE KeywordInv'
    OBVIOUS
  <1> USE DEF IndexInv, KeywordInv
  <1>1. CASE Next
    <2>1. ASSUME NEW j \in Jobs, Step(j) PROVE KeywordInv'
      BY <2>1, StoreStep, KeyStep
    <2>2. ASSUME NEW j \in Jobs, NEW d \in Docs, Request(j, d) PROVE KeywordInv'
      <3>1. StoreInv'
        BY <2>2 DEF Request, UploadNew, UploadVersion, RequestReingest,
                    indexVars, bm25Vars, StoreInv
      <3> QED
        BY <2>2, <3>1, KeyRequest
    <2>3. ASSUME NEW S \in SUBSET Docs, DeleteDocuments(S) PROVE KeywordInv'
      <3>1. StoreInv'
        BY <2>3 DEF DeleteDocuments, indexVars, bm25Vars, StoreInv
      <3> QED
        BY <2>3, <3>1, KeyDelete
    <2>4. CASE Crash
      <3>1. StoreInv'
        <4>1. PICK H \in SUBSET Hosts : Restart(H) /\ UNCHANGED bm25File
          BY <2>4 DEF Crash, ApiCrash, WorkerCrash, ChildKilled, Hosts
        <4> QED
          BY <4>1 DEF Restart, StoreInv
      <3> QED
        BY <2>4, <3>1, KeyCrash
    <2> QED
      BY <1>1, <2>1, <2>2, <2>3, <2>4 DEF Next
  <1>2. CASE UNCHANGED vars
    <2>0. UNCHANGED <<bm25, loaded, bm25File, keeper>>
      BY <1>2 DEF vars, indexVars, bm25Vars
    <2>1. StoreInv'
      BY <2>0 DEF StoreInv
    <2>2. ASSUME NEW d \in Docs PROVE KeyInv(d)'
      <3>1. Same(d) /\ host' = host
        BY <1>2 DEF Same, Busy, vars, docVars, indexVars, jobVars, histVars
      <3>2. Inherited(d) /\ Memory("api")' = Memory("api")
        BY <2>0, UntouchedInherited
      <3> QED
        BY <3>1, <3>2, KeyKeeps
    <2> QED
      BY <2>1, <2>2
  <1> QED
    BY <1>1, <1>2

\* While the jobs of a ready document never overlapped, the process that
\* indexed it last holds exactly its live file's keywords until it restarts,
\* be it the API or a worker: what add_chunks and remove_document promise, for
\* any number of documents, workers, failed saves, spoilt files and crashes.
THEOREM ReadyDocumentsAreInTheKeywordIndex == Spec => []KeywordIndexExact
  <1>1. Init => IndexInv /\ KeywordInv
    BY IndexInit, KeywordInit
  <1>2. IndexInv /\ KeywordInv /\ [Next]_vars => (IndexInv /\ KeywordInv)'
    BY IndexNext, KeywordNext
  <1>3. IndexInv /\ KeywordInv => KeywordIndexExact
    BY KeywordInvSuffices
  <1> QED
    BY <1>1, <1>2, <1>3, PTL DEF Spec

----------------------------------------------------------------------------
(* The promise of IngestionPromise: each step is one of its steps, or none. *)

\* No document is lost before it is uploaded.
LostInv == \A d \in Docs : status[d] = "absent" => ~stranded[d]

PromiseInv == IndexInv /\ NeverInLimbo /\ LostInv

\* A watcher sees nothing new of document d.
Unseen(d) ==
    /\ Shown(status'[d]) = Shown(status[d])
    /\ Owed(d)' <=> Owed(d)
    /\ Lost(d)' <=> Lost(d)

LEMMA ShownIs ==
    ASSUME NEW s \in Terminal \cup InProgress \cup {"absent", "deleted"}
    PROVE  /\ s \in InProgress => Shown(s) = "waiting"
           /\ s \in Terminal => Shown(s) = "settled"
           /\ s = "deleted" => Shown(s) = "removed"
           /\ s = "absent" => Shown(s) = "absent"
  BY DEF Shown, Terminal, InProgress

LEMMA StatusShown ==
    ASSUME TypeOK, NEW d \in Docs
    PROVE  /\ status[d] \in InProgress => Shown(status[d]) = "waiting"
           /\ status[d] \in Terminal => Shown(status[d]) = "settled"
           /\ status[d] = "deleted" => Shown(status[d]) = "removed"
           /\ status[d] = "absent" => Shown(status[d]) = "absent"
           /\ Exists(d) => Shown(status[d]) \in {"waiting", "settled"}
  <1>1. status[d] \in Terminal \cup InProgress \cup {"absent", "deleted"}
    BY DEF TypeOK
  <1> QED
    BY <1>1, ShownIs DEF Exists

LEMMA NoneSeen ==
    ASSUME \A d \in Docs : Unseen(d)
    PROVE  UNCHANGED Promise!vars
  BY DEF Unseen, Promise!vars

LEMMA OneSubmit ==
    ASSUME TypeOK, TypeOK', NEW d \in Docs, \A x \in Docs \ {d} : Unseen(x),
           status[d] = "absent" \/ Exists(d),
           status'[d] \in InProgress, Owed(d)', ~Lost(d)'
    PROVE  Promise!Submit(d)
  <1>1. Shown(status'[d]) = "waiting"
    BY ShownIs
  <1>2. Shown(status[d]) \in {"absent", "waiting", "settled"}
    BY StatusShown
  <1> QED
    BY <1>1, <1>2 DEF Unseen, Promise!Submit, Promise!Exists

LEMMA OneBegin ==
    ASSUME TypeOK, NEW d \in Docs, \A x \in Docs \ {d} : Unseen(x),
           Exists(d), Owed(d), status'[d] \in InProgress, Owed(d)',
           Lost(d)' <=> Lost(d)
    PROVE  Promise!Begin(d)
  <1>1. Shown(status'[d]) = "waiting"
    BY ShownIs
  <1>2. Shown(status[d]) \in {"waiting", "settled"}
    BY StatusShown
  <1> QED
    BY <1>1, <1>2 DEF Unseen, Promise!Begin, Promise!Exists

LEMMA OneSettle ==
    ASSUME TypeOK, NEW d \in Docs, \A x \in Docs \ {d} : Unseen(x),
           Exists(d), Owed(d), status'[d] \in Terminal,
           Owed(d)' => Owed(d), Lost(d)' <=> Lost(d)
    PROVE  Promise!Settle(d)
  <1> DEFINE owed == {x \in Docs : Owed(x)}
  <1>1. Shown(status'[d]) = "settled"
    BY ShownIs
  <1>2. Shown(status[d]) \in {"waiting", "settled"}
    BY StatusShown
  <1>3. owed' \in {owed, owed \ {d}}
    <2>1. CASE Owed(d)'
      BY <2>1 DEF Unseen
    <2>2. CASE ~Owed(d)'
      <3>1. owed' = owed \ {d}
        BY <2>2 DEF Unseen
      <3> QED
        BY <3>1
    <2> QED
      BY <2>1, <2>2
  <1>4. [x \in Docs |-> Shown(status[x])]'
          = [[x \in Docs |-> Shown(status[x])] EXCEPT ![d] = "settled"]
    BY <1>1 DEF Unseen
  <1>5. {x \in Docs : Lost(x)}' = {x \in Docs : Lost(x)}
    BY DEF Unseen
  <1>6. d \in owed
    OBVIOUS
  <1> QED
    BY <1>2, <1>3, <1>4, <1>5, <1>6 DEF Promise!Settle, Promise!Exists

LEMMA OneLoss ==
    ASSUME NEW d \in Docs, \A x \in Docs \ {d} : Unseen(x),
           Shown(status'[d]) = Shown(status[d]),
           Owed(d), ~Owed(d)', Lost(d)'
    PROVE  Promise!Lose({d})
  BY DEF Unseen, Promise!Lose

\* A job's step shows nothing of the documents of others.
LEMMA ElsewhereUnseen ==
    ASSUME TypeInv, NEW j \in Jobs, Step(j), NEW x \in Docs, x # target[j]
    PROVE  Unseen(x)
  <1>1. Same(x) /\ target[j] \in Docs
    BY StepElsewhere, StepHome
  <1>2. ~Working(j, x) /\ ~Working(j, x)'
    BY <1>1 DEF Same, Busy, Working, WorkingPCs
  <1>3. \A k \in Jobs \ {j} : Working(k, x)' <=> Working(k, x)
    BY StepHome DEF Working
  <1>4. Exists(x)' <=> Exists(x)
    BY <1>1 DEF Same, Exists
  <1>5. stranded'[x] <=> stranded[x]
    <2>1. UNCHANGED stranded \/ Rescue(target[j]) \/ Strand({j})
      BY DEF Step, Dispatch, CommitVersion, LoadForReingest, DeleteVectors,
             DeleteVectorsFails, Unindex, Start, Parse, Embed, InsertBatch,
             Index, MarkReady, IngestFails, EmbedFails,
             RecordEmbeddingFailure, RecordFailure, MarkFailed, Ack,
             UnindexFails, IndexFails, CommitVersionFails,
             MarkReadyFails, RecordFails, MarkFailedFails, histVars
    <2> QED
      BY <2>1, <1>1, <1>2 DEF Rescue, Strand, TypeInv, TypeOK
  <1>6. Owed(x)' <=> Owed(x)
    BY <1>2, <1>3, <1>4 DEF Owed
  <1> QED
    BY <1>1, <1>4, <1>5, <1>6 DEF Unseen, Same, Lost

\* Some job other than j owes document d a status.
Another(j, d) == \E k \in Jobs \ {j} : Working(k, d)

LEMMA OwedAround ==
    ASSUME TypeInv, NEW j \in Jobs, Step(j), NEW d \in Docs, d = target[j]
    PROVE  /\ Owed(d) <=> Exists(d) /\ (Working(j, d) \/ Another(j, d))
           /\ Owed(d)' <=> Exists(d)' /\ (Working(j, d)' \/ Another(j, d))
  BY StepHome DEF Owed, Working, Another

\* A watcher sees nothing when the row is gone, or its status, its debt and
\* its loss stay as they are.
LEMMA QuietUnseen ==
    ASSUME TypeInv, NEW j \in Jobs, Step(j), NEW d \in Docs, d = target[j],
           status'[d] = status[d],
           Exists(d) => /\ Working(j, d)' <=> Working(j, d)
                        /\ stranded'[d] <=> stranded[d]
    PROVE  Unseen(d)
  <1>1. Exists(d)' <=> Exists(d)
    BY DEF Exists
  <1> QED
    BY <1>1, OwedAround DEF Unseen, Lost

\* The steps between the first and the last write of a status.
MiddleStep(j) ==
    \/ Dispatch(j) \/ LoadForReingest(j) \/ DeleteVectors(j) \/ Unindex(j)
    \/ Parse(j) \/ Embed(j) \/ InsertBatch(j) \/ Index(j)
    \/ IngestFails(j) \/ EmbedFails(j) \/ IndexFails(j) \/ MarkReadyFails(j)
    \/ RecordFails(j) /\ pc'[j] = "marking"
    \/ CommitVersionFails(j) \/ Ack(j)

LEMMA MiddlePromise ==
    ASSUME TypeInv, NEW j \in Jobs, Step(j), MiddleStep(j)
    PROVE  UNCHANGED Promise!vars
  <1>1. PICK d \in Docs : d = target[j]
    BY StepHome
  <1>2. pc \in [Jobs -> PCs] /\ target \in [Jobs -> Docs \cup {NoDoc}]
    BY DEF TypeInv, TypeOK
  <1>3. status' = status /\ stranded' = stranded
    BY <1>2 DEF End, Drop, MiddleStep, Dispatch, LoadForReingest, DeleteVectors, Unindex, Parse,
           Embed, InsertBatch, Index, IngestFails, EmbedFails, IndexFails,
           MarkReadyFails, RecordFails, CommitVersionFails, Ack, docVars,
           histVars
  <1>4. Exists(d) => (Working(j, d)' <=> Working(j, d))
    <2>1. CASE Dispatch(j) \/ DeleteVectors(j) \/ Unindex(j) \/ Parse(j)
                 \/ Embed(j) \/ InsertBatch(j) \/ Index(j)
                 \/ IngestFails(j) \/ EmbedFails(j) \/ IndexFails(j)
                 \/ MarkReadyFails(j)
      <3>1. target'[j] = target[j] /\ pc[j] \in WorkingPCs /\ pc'[j] \in WorkingPCs
        BY <1>2, <2>1 DEF Dispatch, DeleteVectors, Unindex, Parse, Embed,
           InsertBatch, Index, IngestFails, EmbedFails, IndexFails,
           MarkReadyFails, Goto, WorkingPCs
      <3> QED
        BY <1>1, <3>1 DEF Working
    <2>2. CASE LoadForReingest(j)
      <3>1. Exists(d) => /\ target'[j] = target[j]
                         /\ pc[j] \in WorkingPCs /\ pc'[j] \in WorkingPCs
        BY <1>1, <1>2, <2>2 DEF LoadForReingest, Goto, WorkingPCs
      <3> QED
        BY <1>1, <3>1 DEF Working
    <2>3. CASE Ack(j) \/ CommitVersionFails(j)
      <3>1. pc[j] \notin WorkingPCs /\ pc'[j] \notin WorkingPCs
        BY <1>2, <2>3 DEF Ack, CommitVersionFails, End, Drop, WorkingPCs
      <3> QED
        BY <1>1, <3>1 DEF Working
    <2>4. CASE RecordFails(j) /\ pc'[j] = "marking"
      <3>1. /\ target'[j] = target[j]
            /\ pc[j] \in WorkingPCs /\ pc'[j] \in WorkingPCs
        BY <1>2, <2>4 DEF RecordFails, End, Drop, WorkingPCs
      <3> QED
        BY <1>1, <3>1 DEF Working
    <2> QED
      BY <2>1, <2>2, <2>3, <2>4 DEF MiddleStep
  <1>5. Unseen(d)
    BY <1>1, <1>3, <1>4, QuietUnseen
  <1> QED
    BY <1>1, <1>5, ElsewhereUnseen, NoneSeen

LEMMA SubmitPromise ==
    ASSUME TypeInv, TypeInv', NEW j \in Jobs, CommitVersion(j)
    PROVE  [Promise!Next]_(Promise!vars)
  <1>1. Step(j)
    BY DEF Step
  <1>2. PICK d \in Docs : d = target[j]
    BY <1>1, StepHome
  <1>3. \A x \in Docs \ {d} : Unseen(x)
    BY <1>1, <1>2, ElsewhereUnseen
  <1>4. TypeOK /\ TypeOK'
    BY DEF TypeInv
  <1>5. CASE Exists(d)
    <2>1. /\ status'[d] = "pending" /\ ~stranded'[d]
          /\ pc'[j] = "requeued" /\ target'[j] = d
      BY <1>2, <1>4, <1>5, SetStatusValue
      DEF CommitVersion, Goto, Rescue, TypeOK
    <2>2. Owed(d)' /\ ~Lost(d)'
      BY <2>1 DEF Owed, Lost, Exists, Working, WorkingPCs, InProgress
    <2>3. Promise!Submit(d)
      BY <1>3, <1>4, <1>5, <2>1, <2>2, OneSubmit DEF InProgress
    <2> QED
      BY <2>3 DEF Promise!Next
  <1>6. CASE ~Exists(d)
    <2>1. status'[d] = status[d]
      BY <1>2, <1>4, <1>6, SetStatusValue DEF CommitVersion
    <2>2. Unseen(d)
      BY <1>1, <1>2, <1>6, <2>1, QuietUnseen
    <2> QED
      BY <1>3, <2>2, NoneSeen
  <1> QED
    BY <1>5, <1>6

\* The steps that end a job with an error that nothing records.
LosingStep(j) ==
    \/ DeleteVectorsFails(j) \/ UnindexFails(j) \/ MarkFailedFails(j)
    \/ RecordFails(j) /\ pc'[j] # "marking"

\* They lose the document, unless another job works on it.
LEMMA LosePromise ==
    ASSUME TypeInv, NEW j \in Jobs, LosingStep(j)
    PROVE  [Promise!Next]_(Promise!vars)
  <1>1. Step(j)
    BY DEF Step, LosingStep
  <1>2. PICK d \in Docs : d = target[j]
    BY <1>1, StepHome
  <1>3. \A x \in Docs \ {d} : Unseen(x)
    BY <1>1, <1>2, ElsewhereUnseen
  <1>4. /\ status' = status /\ Working(j, d) /\ ~Working(j, d)'
        /\ stranded'[d] <=> stranded[d] \/ ~Another(j, d)
    <2>1. pc \in [Jobs -> PCs]
      BY DEF TypeInv, TypeOK
    <2>2. /\ status' = status /\ Strand({j})
          /\ pc[j] \in WorkingPCs /\ pc'[j] \in {"idle", "acking"}
      BY <2>1 DEF LosingStep, DeleteVectorsFails, UnindexFails, MarkFailedFails,
                  RecordFails, docVars, WorkingPCs, End, Goto, Drop
    <2> QED
      BY <1>2, <2>2 DEF Working, WorkingPCs, Strand, Another
  <1>5. /\ Owed(d) <=> Exists(d)
        /\ Owed(d)' <=> Exists(d) /\ Another(j, d)
        /\ Lost(d)' <=> Exists(d) /\ (stranded[d] \/ ~Another(j, d))
    <2>1. Exists(d)' <=> Exists(d)
      BY <1>4 DEF Exists
    <2> QED
      BY <1>1, <1>2, <1>4, <2>1, OwedAround DEF Lost
  <1>6. CASE Exists(d) /\ ~Another(j, d)
    <2>1. Promise!Lose({d})
      BY <1>3, <1>4, <1>5, <1>6, OneLoss
    <2>2. {d} \in SUBSET Docs
      OBVIOUS
    <2> QED
      BY <2>1, <2>2 DEF Promise!Next
  <1>7. CASE ~Exists(d) \/ Another(j, d)
    <2>1. Unseen(d)
      BY <1>4, <1>5, <1>7 DEF Unseen, Lost
    <2> QED
      BY <1>3, <2>1, NoneSeen
  <1> QED
    BY <1>6, <1>7

\* A job that begins makes its document wait.
LEMMA BeginPromise ==
    ASSUME TypeInv, NEW j \in Jobs, Start(j)
    PROVE  [Promise!Next]_(Promise!vars)
  <1>1. Step(j)
    BY DEF Step
  <1>2. PICK d \in Docs : d = target[j]
    BY <1>1, StepHome
  <1>3. \A x \in Docs \ {d} : Unseen(x)
    BY <1>1, <1>2, ElsewhereUnseen
  <1>4. /\ TypeOK /\ SetStatus(d, "processing") /\ stranded' = stranded
        /\ Working(j, d) /\ Working(j, d)'
    BY <1>2 DEF TypeInv, TypeOK, Start, histVars, Working, WorkingPCs
  <1>5. CASE Exists(d)
    <2>1. status'[d] = "processing"
      BY <1>4, <1>5, SetStatusValue
    <2>2. Exists(d)' /\ Owed(d) /\ Owed(d)'
      BY <1>4, <1>5, <2>1 DEF Exists, Owed, InProgress
    <2>3. Lost(d)' <=> Lost(d)
      BY <1>4, <1>5, <2>2 DEF Lost
    <2>4. Promise!Begin(d)
      BY <1>3, <1>4, <1>5, <2>1, <2>2, <2>3, OneBegin DEF InProgress
    <2> QED
      BY <2>4 DEF Promise!Next
  <1>6. CASE ~Exists(d)
    <2>1. status'[d] = status[d]
      BY <1>4, <1>6, SetStatusValue
    <2>2. Unseen(d)
      BY <1>1, <1>2, <1>6, <2>1, QuietUnseen
    <2> QED
      BY <1>3, <2>2, NoneSeen
  <1> QED
    BY <1>5, <1>6

\* The steps that write a terminal status.
LastStep(j) ==
    MarkReady(j) \/ RecordEmbeddingFailure(j) \/ RecordFailure(j) \/ MarkFailed(j)

\* A job that ends settles its document, and may still owe it a second answer.
LEMMA SettlePromise ==
    ASSUME TypeInv, NEW j \in Jobs, LastStep(j)
    PROVE  [Promise!Next]_(Promise!vars)
  <1>1. Step(j)
    BY DEF LastStep, Step
  <1>2. PICK d \in Docs : d = target[j]
    BY <1>1, StepHome
  <1>3. \A x \in Docs \ {d} : Unseen(x)
    BY <1>1, <1>2, ElsewhereUnseen
  <1>4. /\ TypeOK /\ stranded' = stranded /\ Working(j, d)
        /\ \E s \in Terminal : SetStatus(d, s)
    BY <1>2 DEF TypeInv, LastStep, MarkReady, RecordEmbeddingFailure,
                RecordFailure, MarkFailed, histVars, Terminal, Working, WorkingPCs
  <1>5. CASE Exists(d)
    <2>1. status'[d] \in Terminal
      BY <1>4, <1>5, SetStatusValue
    <2>2. Lost(d)' <=> Lost(d)
      BY <1>4, <1>5, <2>1 DEF Exists, Lost
    <2>3. Owed(d)
      BY <1>4, <1>5 DEF Owed
    <2>4. Promise!Settle(d)
      BY <1>3, <1>4, <1>5, <2>1, <2>2, <2>3, OneSettle
    <2> QED
      BY <2>4 DEF Promise!Next
  <1>6. CASE ~Exists(d)
    <2>1. status'[d] = status[d]
      BY <1>4, <1>6, SetStatusValue
    <2>2. Unseen(d)
      BY <1>1, <1>2, <1>6, <2>1, QuietUnseen
    <2> QED
      BY <1>3, <2>2, NoneSeen
  <1> QED
    BY <1>5, <1>6

LEMMA StepPromise ==
    ASSUME TypeInv, TypeInv', NEW j \in Jobs, Step(j)
    PROVE  [Promise!Next]_(Promise!vars)
  <1>1. \/ MiddleStep(j) \/ CommitVersion(j) \/ LosingStep(j) \/ Start(j)
        \/ LastStep(j)
    BY DEF Step, MiddleStep, LosingStep, LastStep
  <1>2. CASE MiddleStep(j)
    BY <1>2, MiddlePromise
  <1>3. CASE ~MiddleStep(j)
    BY <1>1, <1>3, SubmitPromise, LosePromise, BeginPromise, SettlePromise
  <1> QED
    BY <1>2, <1>3

\* A request shows nothing of other documents.
LEMMA RequestElsewhere ==
    ASSUME TypeInv, NEW j \in Jobs, NEW d \in Docs, Request(j, d),
           NEW x \in Docs, x # d
    PROVE  Unseen(x)
  <1>1. TypeOK
    BY DEF TypeInv
  <1>2. /\ status'[x] = status[x] /\ stranded'[x] = stranded[x]
        /\ pc[j] = "idle" /\ target'[j] = d
        /\ \A k \in Jobs \ {j} : pc'[k] = pc[k] /\ target'[k] = target[k]
    BY <1>1, SetStatusValue
    DEF Request, UploadNew, UploadVersion, RequestReingest, Claim, Rescue, TypeOK
  <1>3. \A k \in Jobs : Working(k, x)' <=> Working(k, x)
    BY <1>2 DEF Working, WorkingPCs
  <1> QED
    BY <1>2, <1>3 DEF Unseen, Owed, Lost, Exists

LEMMA RequestPromise ==
    ASSUME TypeInv, TypeInv', LostInv, NEW j \in Jobs, NEW d \in Docs,
           Request(j, d)
    PROVE  [Promise!Next]_(Promise!vars)
  <1>1. \A x \in Docs \ {d} : Unseen(x)
    BY RequestElsewhere
  <1>2. TypeOK /\ TypeOK'
    BY DEF TypeInv
  <1>3. CASE ~\E c \in Contents : UploadVersion(j, d, c)
    <2>1. /\ status[d] = "absent" \/ Exists(d)
          /\ status'[d] = "pending" /\ ~stranded'[d]
          /\ pc'[j] \in {"dispatching", "requeued"} /\ target'[j] = d
      BY <1>2, <1>3, SetStatusValue
      DEF Request, UploadNew, RequestReingest, Claim, Rescue, LostInv, TypeOK
    <2>2. Owed(d)' /\ ~Lost(d)'
      BY <2>1 DEF Owed, Lost, Exists, Working, WorkingPCs, InProgress
    <2>3. Promise!Submit(d)
      BY <1>1, <1>2, <2>1, <2>2, OneSubmit DEF InProgress
    <2> QED
      BY <2>3 DEF Promise!Next
  <1>4. CASE \E c \in Contents : UploadVersion(j, d, c)
    <2>1. /\ status' = status /\ stranded' = stranded
          /\ pc[j] = "idle" /\ pc'[j] = "bumping"
          /\ \A k \in Jobs \ {j} : pc'[k] = pc[k] /\ target'[k] = target[k]
      BY <1>2, <1>4 DEF UploadVersion, Claim, TypeOK
    <2>2. \A k \in Jobs : Working(k, d)' <=> Working(k, d)
      BY <2>1 DEF Working, WorkingPCs
    <2>3. Unseen(d)
      BY <2>1, <2>2 DEF Unseen, Owed, Lost, Exists
    <2> QED
      BY <1>1, <2>3, NoneSeen
  <1> QED
    BY <1>3, <1>4

LEMMA DeletePromise ==
    ASSUME TypeInv, NEW S \in SUBSET Docs, DeleteDocuments(S)
    PROVE  Promise!Next
  <1> DEFINE shown == [d \in Docs |-> Shown(status[d])]
             owed  == {d \in Docs : Owed(d)}
             lost  == {d \in Docs : Lost(d)}
  <1>1. /\ \A d \in S : Exists(d)
        /\ \A d \in Docs : status'[d] = IF d \in S THEN "deleted" ELSE status[d]
        /\ pc' = pc /\ target' = target /\ stranded' = stranded
    BY DEF DeleteDocuments, jobVars, histVars
  <1>2. \A d \in S : shown[d] \in {"waiting", "settled"}
    BY <1>1, StatusShown DEF TypeInv
  <1>3. shown' = [d \in Docs |-> IF d \in S THEN "removed" ELSE shown[d]]
    <2>1. Shown("deleted") = "removed"
      BY ShownIs
    <2> QED
      BY <1>1, <2>1
  <1>4. \A d \in Docs : Exists(d)' <=> Exists(d) /\ d \notin S
    BY <1>1 DEF Exists, Terminal, InProgress
  <1>5. \A d \in Docs : /\ Owed(d)' <=> Owed(d) /\ d \notin S
                        /\ Lost(d)' <=> Lost(d) /\ d \notin S
    BY <1>1, <1>4 DEF Owed, Lost, Working
  <1>6. owed' = owed \ S /\ lost' = lost \ S
    BY <1>5
  <1>7. Promise!Remove(S)
    BY <1>2, <1>3, <1>6 DEF Promise!Remove, Promise!Exists
  <1> QED
    BY <1>7 DEF Promise!Next

\* A worker restart returns to the broker what was being worked on.
LEMMA ReturnPromise ==
    ASSUME TypeInv, NeverInLimbo, WorkerCrash
    PROVE  Promise!Next
  <1> DEFINE owed == {d \in Docs : Owed(d)}
             lost == {d \in Docs : Lost(d)}
             S    == owed' \ owed
  <1>1. /\ status' = status /\ stranded' = stranded
        /\ Drop(OnHost(Workers), "queued", "broker")
    BY DEF WorkerCrash, docVars
  <1>2. \A d \in Docs, j \in Jobs : Working(j, d) => Working(j, d)'
    BY <1>1 DEF Drop, Working, WorkingPCs
  <1>3. \A d \in Docs : (Exists(d)' <=> Exists(d)) /\ (Lost(d)' <=> Lost(d))
    BY <1>1 DEF Exists, Lost
  <1>4. \A d \in Docs : Owed(d) => Owed(d)'
    BY <1>2, <1>3 DEF Owed
  <1>5. owed' = owed \cup S /\ lost' = lost
    BY <1>3, <1>4
  <1>6. ASSUME NEW d \in Docs, ~Owed(d), Owed(d)'
        PROVE  Shown(status[d]) = "settled" \/ Lost(d)
    <2>1. Exists(d)
      BY <1>3, <1>6 DEF Owed
    <2>2. status[d] \in Terminal \/ stranded[d]
      BY <1>6, <2>1 DEF NeverInLimbo, Owed, Exists
    <2> QED
      BY <2>1, <2>2, ShownIs DEF Lost
  <1>7. [d \in Docs |-> Shown(status[d])]' = [d \in Docs |-> Shown(status[d])]
    BY <1>1
  <1>8. Promise!Return(S)
    <2>1. \A d \in S : [x \in Docs |-> Shown(status[x])][d] = "settled" \/ d \in lost
      BY <1>6
    <2> QED
      BY <1>5, <1>7, <2>1 DEF Promise!Return
  <1>9. S \in SUBSET Docs
    OBVIOUS
  <1> QED
    BY <1>8, <1>9 DEF Promise!Next

\* An API restart or a killed child loses the documents they alone work on.
LEMMA DeathPromise ==
    ASSUME TypeInv, ApiCrash \/ \E w \in Workers : ChildKilled(w)
    PROVE  Promise!Next
  <1> DEFINE owed == {d \in Docs : Owed(d)}
             lost == {d \in Docs : Lost(d)}
             D    == owed \ owed'
  <1>1. PICK S \in SUBSET Jobs : Drop(S, "idle", "api") /\ Strand(S)
    BY DEF ApiCrash, ChildKilled, OnHost
  <1>2. status' = status
    BY DEF ApiCrash, ChildKilled, docVars
  <1>3. \A d \in Docs : Exists(d)' <=> Exists(d)
    BY <1>2 DEF Exists
  <1>4. /\ \A j \in S, d \in Docs : ~Working(j, d)'
        /\ \A j \in Jobs \ S, d \in Docs : Working(j, d)' <=> Working(j, d)
    BY <1>1 DEF Drop, Working, WorkingPCs
  <1>5. \A d \in Docs : Owed(d)' => Owed(d)
    BY <1>3, <1>4 DEF Owed
  <1>6. owed' = owed \ D
    BY <1>5
  <1>7. ASSUME NEW d \in Docs PROVE Lost(d)' <=> Lost(d) \/ d \in D
    <2>1. stranded'[d] <=> \/ stranded[d]
                           \/ /\ \E j \in S : Working(j, d)
                              /\ \A j \in Jobs \ S : ~Working(j, d)
      BY <1>1 DEF Strand
    <2>2. Owed(d) /\ ~Owed(d)' <=> /\ Exists(d)
                                   /\ \E j \in S : Working(j, d)
                                   /\ \A j \in Jobs \ S : ~Working(j, d)
      BY <1>3, <1>4 DEF Owed
    <2> QED
      BY <1>3, <2>1, <2>2 DEF Lost
  <1>8. lost' = lost \cup D
    BY <1>7
  <1>9. [d \in Docs |-> Shown(status[d])]' = [d \in Docs |-> Shown(status[d])]
    BY <1>2
  <1>10. Promise!Lose(D) /\ D \in SUBSET Docs
    BY <1>6, <1>8, <1>9 DEF Promise!Lose
  <1> QED
    BY <1>10 DEF Promise!Next

LEMMA LostNext == IndexInv /\ LostInv /\ [Next]_vars => LostInv'
  <1> SUFFICES ASSUME IndexInv, LostInv, [Next]_vars,
                      NEW d \in Docs, status'[d] = "absent"
               PROVE  ~stranded'[d]
    BY DEF LostInv
  <1>1. TypeInv /\ TypeOK /\ FreshInv(d)
    BY DEF IndexInv, TypeInv
  <1>2. CASE UNCHANGED vars
    BY <1>2 DEF LostInv, vars, docVars, histVars
  <1>3. CASE \E j \in Jobs : Step(j)
    <2>1. PICK j \in Jobs : Step(j)
      BY <1>3
    <2>2. PICK e \in Docs : e = target[j]
      BY <1>1, <2>1, StepHome
    <2>3. CASE d # e
      <3>1. Same(d)
        BY <1>1, <2>1, <2>2, <2>3, StepElsewhere
      <3>2. status[d] = "absent" /\ ~Busy(j, d)
        BY <1>1, <3>1 DEF Same, FreshInv
      <3>3. UNCHANGED stranded \/ Rescue(e) \/ Strand({j})
        BY <2>1, <2>2
        DEF Step, Dispatch, CommitVersion, LoadForReingest, DeleteVectors,
            DeleteVectorsFails, Unindex, Start, Parse, Embed, InsertBatch,
            Index, MarkReady, IngestFails, EmbedFails,
            RecordEmbeddingFailure, RecordFailure, MarkFailed, Ack,
            UnindexFails, IndexFails, CommitVersionFails,
            MarkReadyFails, RecordFails, MarkFailedFails, histVars
      <3>4. ~Working(j, d) /\ ~stranded[d]
        BY <3>2 DEF Working, WorkingPCs, Busy, LostInv
      <3>5. CASE Rescue(e)
        BY <2>3, <3>4, <3>5 DEF Rescue
      <3>6. CASE Strand({j})
        BY <3>4, <3>6 DEF Strand
      <3> QED
        BY <3>3, <3>4, <3>5, <3>6
    <2>4. CASE d = e
      <3>1. status'[d] # "absent"
        BY <1>1, <2>1, <2>2, <2>4, FreshStep
      <3> QED
        BY <3>1
    <2> QED
      BY <2>3, <2>4
  <1>4. CASE \E j \in Jobs, e \in Docs : Request(j, e)
    <2>1. PICK j \in Jobs, e \in Docs : Request(j, e)
      BY <1>4
    <2>2. status[d] = "absent" /\ stranded'[d] = stranded[d]
      BY <1>1, <2>1, SetStatusValue
      DEF Request, UploadNew, UploadVersion, RequestReingest, Claim, Rescue,
          Exists, Terminal, InProgress, TypeOK
    <2> QED
      BY <2>2 DEF LostInv
  <1>5. CASE \E S \in SUBSET Docs : DeleteDocuments(S)
    BY <1>5 DEF DeleteDocuments, LostInv, histVars
  <1>6. CASE Crash
    <2>1. status' = status
      BY <1>6 DEF Crash, ApiCrash, WorkerCrash, ChildKilled, docVars
    <2>2. UNCHANGED stranded \/ \E S \in SUBSET Jobs : Strand(S)
      BY <1>6 DEF Crash, ApiCrash, WorkerCrash, ChildKilled, OnHost
    <2> QED
      BY <1>1, <2>1, <2>2
      DEF FreshInv, LostInv, Strand, Working, WorkingPCs, Busy
  <1> QED
    BY <1>2, <1>3, <1>4, <1>5, <1>6 DEF Next

LEMMA PromiseNext ==
    ASSUME PromiseInv, TypeInv', [Next]_vars
    PROVE  [Promise!Next]_(Promise!vars)
  <1>1. TypeInv /\ NeverInLimbo /\ LostInv
    BY DEF PromiseInv, IndexInv
  <1>2. CASE UNCHANGED vars
    <2>1. \A d \in Docs : Unseen(d)
      BY <1>2 DEF Unseen, Owed, Lost, Exists, Working, vars, docVars, jobVars,
                  histVars
    <2> QED
      BY <2>1, NoneSeen
  <1> QED
    BY <1>1, <1>2, StepPromise, RequestPromise, DeletePromise, ReturnPromise,
       DeathPromise DEF Next, Crash

LEMMA PromiseInit == Init => Promise!Init
  <1> SUFFICES ASSUME Init PROVE Promise!Init
    OBVIOUS
  <1>1. Shown("absent") = "absent"
    BY ShownIs
  <1>2. \A d \in Docs : status[d] = "absent" /\ ~Exists(d)
    BY DEF Init, Exists, Terminal, InProgress
  <1> QED
    BY <1>1, <1>2 DEF Promise!Init, Owed, Lost

\* The ingestion of documents keeps the promise of IngestionPromise, whatever
\* the number of documents, jobs, workers and faults: a status is written for
\* a request or by a job that owes it, no crash takes a document's last job
\* without the document being counted as lost, and nothing brings back the
\* row of a deleted one.
THEOREM IngestionKeepsItsPromise == Spec => Refines
  <1>1. Init => PromiseInv
    BY IndexInit DEF Init, PromiseInv, NeverInLimbo, LostInv, InProgress
  <1>2. PromiseInv /\ [Next]_vars => PromiseInv'
    BY IndexNext, LimboNext, LostNext DEF PromiseInv, IndexInv, TypeInv
  <1>3. PromiseInv /\ PromiseInv' /\ [Next]_vars => [Promise!Next]_(Promise!vars)
    BY PromiseNext DEF PromiseInv, IndexInv
  <1> QED
    BY <1>1, <1>2, <1>3, PromiseInit, PTL DEF Spec, Refines, Promise!Spec

=============================================================================
