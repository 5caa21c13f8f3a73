-------------------------- MODULE ConnectorSyncProofs --------------------------
(***************************************************************************)
(* Proofs about ConnectorSync, for any source, any number of syncs and     *)
(* ingestion tasks and any faults: types, one document per item, pauses    *)
(* that hold, what the connector counts and what a sync skips.             *)
(***************************************************************************)
EXTENDS ConnectorSync, FiniteSetTheorems, TLAPS

RecordType == Record \cup {NoRecord}
\* What a sync has in its hands where it is.
AtInv == \A s \in Syncs :
    /\ spc[s] \in {"fetching", "saving", "flushing"} => at[s] \in Items
    /\ spc[s] = "saving" => got[s] \in Versions

TypeInv == TypeOK /\ AtInv

\* The part of it about the syncs.
SessionOK ==
    /\ spc \in [Syncs -> {"idle", "queued", "listing", "scanning", "fetching",
                          "saving", "flushing", "failing"}]
    /\ loaded \in [Syncs -> [status : {"active", "error"}, total : Nat]]
    /\ known \in [Syncs -> [Items -> RecordType]]
    /\ listed \in [Syncs -> [Items -> Versions \cup {NoVersion}]]
    /\ at \in [Syncs -> 1..(NumItems + 1)]
    /\ got \in [Syncs -> Versions \cup {NoVersion}]
    /\ mine \in [Syncs -> [Items -> RecordType]]
    /\ AtInv

\* ... and about all the rest.
RestOK ==
    /\ remote \in [Items -> Versions]
    /\ status \in {"active", "paused", "error", "deleted"}
    /\ total \in Nat
    /\ rec \in [Items -> RecordType]
    /\ row \in [DocIds -> {"none", "pending", "processing", "ready", "failed"}]
    /\ lastDoc \in 0..MaxDocs
    /\ disk \in [Items -> Versions \cup {NoVersion}]
    /\ index \in [DocIds -> [Idx -> Versions \cup {NoVersion}]]
    /\ task \in [Tasks -> [pc : {"free", "queued", "running", "marking"},
                           doc : DocIds \cup {NoDoc}, item : Items,
                           read : Versions \cup {NoVersion}]]
    /\ changes \in 0..MaxChanges /\ faults \in 0..MaxFaults
    /\ overlapped \in BOOLEAN

LEMMA TypeParts == TypeInv <=> SessionOK /\ RestOK
  BY DEF TypeInv, TypeOK, SessionOK, RestOK, RecordType

LEMMA TypePartsNext == TypeInv' <=> SessionOK' /\ RestOK'
  BY DEF TypeInv, TypeOK, SessionOK, RestOK, RecordType, AtInv

LEMMA ItemsExist == 1 \in Items /\ 1 \in 1..(NumItems + 1) /\ Fresh \in [Items -> RecordType]
  BY SyncAssumption DEF Items, Fresh, RecordType

LEMMA ForgetType ==
    ASSUME SessionOK, NEW S \in SUBSET Syncs, NEW pc \in {"idle", "queued"},
           Forget(S, pc)
    PROVE  SessionOK'
  <1>1. spc' \in [Syncs -> {"idle", "queued", "listing", "scanning", "fetching",
                            "saving", "flushing", "failing"}]
    BY DEF Forget, SessionOK
  <1>2. loaded' \in [Syncs -> [status : {"active", "error"}, total : Nat]]
    BY DEF Forget, SessionOK
  <1>3. /\ known' \in [Syncs -> [Items -> RecordType]]
        /\ mine' \in [Syncs -> [Items -> RecordType]]
    BY ItemsExist DEF Forget, SessionOK
  <1>4. listed' \in [Syncs -> [Items -> Versions \cup {NoVersion}]]
    <2>1. [i \in Items |-> NoVersion] \in [Items -> Versions \cup {NoVersion}]
      OBVIOUS
    <2> QED BY <2>1 DEF Forget, SessionOK
  <1>5. at' \in [Syncs -> 1..(NumItems + 1)]
    BY ItemsExist DEF Forget, SessionOK
  <1>6. got' \in [Syncs -> Versions \cup {NoVersion}]
    BY DEF Forget, SessionOK
  <1>7. AtInv'
    BY DEF Forget, SessionOK, AtInv
  <1> QED
    BY <1>1, <1>2, <1>3, <1>4, <1>5, <1>6, <1>7 DEF SessionOK

\* A step of sync s changes where it is, and what it has in its hands.
Moves(s) ==
    /\ spc' \in [Syncs -> {"idle", "queued", "listing", "scanning", "fetching",
                           "saving", "flushing", "failing"}]
    /\ at' \in [Syncs -> 1..(NumItems + 1)]
    /\ got' \in [Syncs -> Versions \cup {NoVersion}]
    /\ \A x \in Syncs \ {s} :
         spc'[x] = spc[x] /\ at'[x] = at[x] /\ got'[x] = got[x]
    /\ spc'[s] \in {"fetching", "saving", "flushing"} => at'[s] \in Items
    /\ spc'[s] = "saving" => got'[s] \in Versions

LEMMA MovesType ==
    ASSUME SessionOK, NEW s \in Syncs, Moves(s),
           loaded' \in [Syncs -> [status : {"active", "error"}, total : Nat]],
           known' \in [Syncs -> [Items -> RecordType]],
           listed' \in [Syncs -> [Items -> Versions \cup {NoVersion}]],
           mine' \in [Syncs -> [Items -> RecordType]]
    PROVE  SessionOK'
  <1>1. AtInv'
    BY DEF SessionOK, AtInv, Moves
  <1> QED
    BY <1>1 DEF SessionOK, Moves

LEMMA AtType ==
    ASSUME SessionOK, NEW s \in Syncs
    PROVE  /\ at[s] \in 1..(NumItems + 1) /\ got[s] \in Versions \cup {NoVersion}
           /\ at[s] \in Items => at[s] + 1 \in 1..(NumItems + 1)
  BY SyncAssumption DEF SessionOK, Items

LEMMA KnownMine ==
    ASSUME SessionOK, NEW f \in {known, mine}, NEW s \in Syncs, NEW i \in Items,
           NEW e \in RecordType
    PROVE  [f EXCEPT ![s][i] = e] \in [Syncs -> [Items -> RecordType]]
  <1>1. f \in [Syncs -> [Items -> RecordType]]
    BY DEF SessionOK
  <1>2. [f[s] EXCEPT ![i] = e] \in [Items -> RecordType]
    BY <1>1
  <1> QED
    BY <1>1, <1>2

-----------------------------------------------------------------------------
(* Types *)

LEMMA InitTyped == Init => TypeInv
  <1> SUFFICES ASSUME Init PROVE TypeInv
    OBVIOUS
  <1>1. PICK s \in Syncs :
          spc = [x \in Syncs |-> IF x = s THEN "queued" ELSE "idle"]
    BY DEF Init
  <1>2. SessionOK
    <2>1. spc \in [Syncs -> {"idle", "queued", "listing", "scanning", "fetching",
                             "saving", "flushing", "failing"}]
      BY <1>1
    <2>2. \A x \in Syncs : spc[x] \in {"idle", "queued"}
      BY <1>1
    <2>3. AtInv
      BY <2>2 DEF AtInv
    <2>4. loaded \in [Syncs -> [status : {"active", "error"}, total : Nat]]
      BY DEF Init
    <2>5. /\ known \in [Syncs -> [Items -> RecordType]]
          /\ mine \in [Syncs -> [Items -> RecordType]]
      BY ItemsExist DEF Init
    <2>6. listed \in [Syncs -> [Items -> Versions \cup {NoVersion}]]
      BY DEF Init
    <2>7. at \in [Syncs -> 1..(NumItems + 1)]
      BY ItemsExist DEF Init
    <2>8. got \in [Syncs -> Versions \cup {NoVersion}]
      BY DEF Init
    <2> QED BY <2>1, <2>3, <2>4, <2>5, <2>6, <2>7, <2>8 DEF SessionOK
  <1>3. RestOK
    <2>1. rec \in [Items -> RecordType]
      BY ItemsExist DEF Init
    <2>2. index \in [DocIds -> [Idx -> Versions \cup {NoVersion}]]
      BY DEF Init, NoFile
    <2>3. task \in [Tasks -> [pc : {"free", "queued", "running", "marking"},
                              doc : DocIds \cup {NoDoc}, item : Items,
                              read : Versions \cup {NoVersion}]]
      BY ItemsExist DEF Init, Free
    <2>4. /\ lastDoc \in 0..MaxDocs /\ changes \in 0..MaxChanges
          /\ faults \in 0..MaxFaults
      BY SyncAssumption DEF Init
    <2>5. /\ row \in [DocIds -> {"none", "pending", "processing", "ready", "failed"}]
          /\ disk \in [Items -> Versions \cup {NoVersion}]
      BY DEF Init
    <2> QED BY <2>1, <2>2, <2>3, <2>4, <2>5 DEF Init, RestOK
  <1> QED
    BY <1>2, <1>3, TypeParts

LEMMA SessionStays ==
    ASSUME SessionOK, UNCHANGED syncVars
    PROVE  SessionOK'
  BY DEF SessionOK, AtInv, syncVars

LEMMA RestStays ==
    ASSUME RestOK, UNCHANGED <<store, database, task, changes>>,
           faults' \in 0..MaxFaults, overlapped' \in BOOLEAN
    PROVE  RestOK'
  BY DEF RestOK, store, database

LEMMA FaultType == Fault /\ RestOK => faults' \in 0..MaxFaults
  BY SyncAssumption DEF Fault, RestOK

LEMMA AroundTyped ==
    ASSUME SessionOK, RestOK,
           \/ \E i \in Items, v \in Versions : RemoteChange(i, v)
           \/ \E s \in Syncs : Beat(s) \/ TriggerSync(s)
           \/ \E new \in {"active", "paused"} : SetConnectorStatus(new)
           \/ DeleteConnector
    PROVE  SessionOK' /\ RestOK'
  <1>1. ASSUME NEW i \in Items, NEW v \in Versions, RemoteChange(i, v)
        PROVE  SessionOK' /\ RestOK'
    <2>1. /\ remote' = [remote EXCEPT ![i] = v] /\ changes' \in 0..MaxChanges
          /\ UNCHANGED <<disk, index, lastDoc, database, syncVars, task, faults,
                         overlapped>>
      BY <1>1, SyncAssumption DEF RemoteChange, RestOK
    <2> QED BY <2>1, SessionStays DEF RestOK, database
  <1>2. ASSUME NEW s \in Syncs, Beat(s) \/ TriggerSync(s)
        PROVE  SessionOK' /\ RestOK'
    <2>1. /\ spc' = [spc EXCEPT ![s] = "queued"]
          /\ UNCHANGED <<store, database, loaded, known, listed, at, got, mine,
                         task, changes, faults, overlapped>>
      BY <1>2 DEF Beat, TriggerSync, Enqueue
    <2>2. SessionOK'
      <3>1. Moves(s)
        BY <2>1, AtType DEF Moves, SessionOK
      <3> QED BY <2>1, <3>1, MovesType DEF SessionOK
    <2> QED BY <2>1, <2>2, RestStays DEF RestOK
  <1>3. ASSUME NEW new \in {"active", "paused"}, SetConnectorStatus(new)
        PROVE  SessionOK' /\ RestOK'
    <2>1. /\ status' \in {"active", "paused"}
          /\ UNCHANGED <<store, total, rec, row, syncVars, task, changes, faults,
                         overlapped>>
      BY <1>3 DEF SetConnectorStatus
    <2> QED BY <2>1, SessionStays DEF RestOK, store
  <1>4. CASE DeleteConnector
    <2>1. /\ status' = "deleted" /\ rec' = Fresh
          /\ UNCHANGED <<store, total, row, syncVars, task, changes, faults,
                         overlapped>>
      BY <1>4 DEF DeleteConnector
    <2> QED BY <2>1, ItemsExist, SessionStays DEF RestOK, store
  <1> QED
    BY <1>1, <1>2, <1>3, <1>4

LEMMA SyncTyped ==
    ASSUME SessionOK, RestOK, NEW s \in Syncs,
           \/ Load(s) \/ List(s) \/ Examine(s) \/ Fetch(s) \/ Flush(s)
           \/ CommitFails(s) \/ ListFails(s) \/ FetchFails(s) \/ SaveFails(s)
    PROVE  SessionOK' /\ RestOK'
  <1>1. CASE Load(s)
    <2>1. UNCHANGED <<store, database, task, changes, faults>>
      BY <1>1 DEF Load
    <2>2. CASE status \in {"deleted", "paused"}
      <3>1. Forget({s}, "idle") /\ UNCHANGED overlapped
        BY <1>1, <2>2 DEF Load
      <3>2. SessionOK'
        BY <3>1, ForgetType
      <3> QED BY <2>1, <3>1, <3>2, RestStays DEF RestOK
    <2>3. CASE status \notin {"deleted", "paused"}
      <3>1. /\ spc' = [spc EXCEPT ![s] = "listing"]
            /\ loaded' = [loaded EXCEPT ![s] = [status |-> status,
                                                total |-> total]]
            /\ known' = [known EXCEPT ![s] = rec]
            /\ overlapped' = (overlapped \/ Active # {})
            /\ UNCHANGED <<listed, at, got, mine>>
        BY <1>1, <2>3 DEF Load
      <3>2. /\ loaded' \in [Syncs -> [status : {"active", "error"}, total : Nat]]
            /\ known' \in [Syncs -> [Items -> RecordType]]
        BY <2>3, <3>1 DEF SessionOK, RestOK
      <3>3. SessionOK'
        <4>1. Moves(s)
          BY <3>1, <3>2, AtType DEF Moves, SessionOK
        <4> QED BY <3>1, <3>2, <4>1, MovesType DEF SessionOK
      <3>4. overlapped' \in BOOLEAN
        BY <3>1
      <3> QED BY <2>1, <3>3, <3>4, RestStays DEF RestOK
    <2> QED BY <2>2, <2>3
  <1>2. CASE List(s)
    <2>1. /\ spc' = [spc EXCEPT ![s] = "scanning"]
          /\ UNCHANGED <<store, database, loaded, known, at, got, mine, task,
                         changes, faults, overlapped>>
          /\ listed' = [listed EXCEPT ![s] =
               [i \in Items |-> IF ListsMD5 THEN remote[i] ELSE NoVersion]]
      BY <1>2 DEF List
    <2>2. listed' \in [Syncs -> [Items -> Versions \cup {NoVersion}]]
      <3>1. [i \in Items |-> IF ListsMD5 THEN remote[i] ELSE NoVersion]
              \in [Items -> Versions \cup {NoVersion}]
        BY DEF RestOK
      <3> QED BY <2>1, <3>1 DEF SessionOK
    <2>3. SessionOK'
      <3>1. Moves(s)
        BY <2>1, <2>2, AtType DEF Moves, SessionOK
      <3> QED BY <2>1, <2>2, <3>1, MovesType DEF SessionOK
    <2> QED BY <2>1, <2>3, RestStays DEF RestOK
  <1>3. CASE Examine(s)
    <2>1. PICK skip \in BOOLEAN : SkipOrFetch(s, skip)
      <3>1. SkipOrFetch(s, TRUE) \/ SkipOrFetch(s, FALSE)
        BY <1>3 DEF Examine, SkipOrFetch
      <3> QED BY <3>1
    <2>2. /\ at[s] \in Items
          /\ known' = [known EXCEPT ![s][at[s]] = Seen(s, at[s])]
          /\ UNCHANGED <<store, database, loaded, listed, got, mine, task, changes,
                         faults, overlapped>>
      BY <2>1 DEF SkipOrFetch
    <2>3. Seen(s, at[s]) \in RecordType
      BY <2>2 DEF Seen, SessionOK, RestOK
    <2>4. known' \in [Syncs -> [Items -> RecordType]]
      BY <2>2, <2>3, KnownMine
    <2>5. CASE skip
      <3>1. at' = [at EXCEPT ![s] = at[s] + 1] /\ spc' = [spc EXCEPT ![s] = "scanning"]
        BY <2>1, <2>5 DEF SkipOrFetch, SessionOK
      <3>2. SessionOK'
        <4>1. Moves(s)
          BY <2>2, <2>4, <3>1, AtType DEF Moves, SessionOK
        <4> QED BY <2>2, <2>4, <3>1, <4>1, MovesType DEF SessionOK
      <3> QED BY <2>2, <3>2, RestStays DEF RestOK
    <2>6. CASE ~skip
      <3>1. spc' = [spc EXCEPT ![s] = "fetching"] /\ UNCHANGED at
        BY <2>1, <2>6 DEF SkipOrFetch
      <3>2. SessionOK'
        <4>1. Moves(s)
          BY <2>2, <2>4, <3>1, AtType DEF Moves, SessionOK
        <4> QED BY <2>2, <2>4, <3>1, <4>1, MovesType DEF SessionOK
      <3> QED BY <2>2, <3>2, RestStays DEF RestOK
    <2> QED BY <2>5, <2>6
  <1>4. CASE Fetch(s)
    <2>1. /\ spc[s] = "fetching" /\ at[s] \in Items
          /\ UNCHANGED <<store, database, loaded, known, listed, mine, task,
                         changes, faults, overlapped>>
          /\ \/ /\ spc' = [spc EXCEPT ![s] = "scanning"]
                /\ at' = [at EXCEPT ![s] = at[s] + 1] /\ UNCHANGED got
             \/ /\ spc' = [spc EXCEPT ![s] = "saving"]
                /\ got' = [got EXCEPT ![s] = remote[at[s]]] /\ UNCHANGED at
      BY <1>4 DEF Fetch, SessionOK, AtInv
    <2>2. remote[at[s]] \in Versions
      BY <2>1 DEF RestOK
    <2>3. SessionOK'
      <3>1. Moves(s)
        BY <2>1, <2>2, AtType DEF Moves, SessionOK
      <3> QED BY <2>1, <2>2, <3>1, MovesType DEF SessionOK
    <2> QED BY <2>1, <2>3, RestStays DEF RestOK
  <1>5. CASE Flush(s)
    <2>1. /\ spc[s] = "flushing" /\ at[s] \in Items
          /\ UNCHANGED <<store, database, loaded, known, listed, got, mine, task,
                         changes, faults, overlapped>>
          /\ \/ spc' = [spc EXCEPT ![s] = "failing"] /\ UNCHANGED at
             \/ /\ spc' = [spc EXCEPT ![s] = "scanning"]
                /\ at' = [at EXCEPT ![s] = at[s] + 1]
      BY <1>5 DEF Flush, FlushUnless, SessionOK, AtInv
    <2>2. SessionOK'
      <3>1. Moves(s)
        BY <2>1, AtType DEF Moves, SessionOK
      <3> QED BY <2>1, <3>1, MovesType DEF SessionOK
    <2> QED BY <2>1, <2>2, RestStays DEF RestOK
  <1>6. CASE CommitFails(s) \/ ListFails(s)
    <2>1. /\ spc' = [spc EXCEPT ![s] = "failing"]
          /\ UNCHANGED <<store, database, loaded, known, listed, at, got, mine,
                         task, changes, overlapped>>
          /\ faults' \in 0..MaxFaults
      BY <1>6, FaultType DEF CommitFails, ListFails, RestOK
    <2>2. SessionOK'
      <3>1. Moves(s)
        BY <2>1, AtType DEF Moves, SessionOK
      <3> QED BY <2>1, <3>1, MovesType DEF SessionOK
    <2> QED BY <2>1, <2>2, RestStays DEF RestOK
  <1>7. CASE FetchFails(s)
    <2>1. /\ at[s] \in Items
          /\ spc' = [spc EXCEPT ![s] = "scanning"]
          /\ at' = [at EXCEPT ![s] = at[s] + 1]
          /\ UNCHANGED <<store, database, loaded, known, listed, got, mine, task,
                         changes, overlapped>>
          /\ faults' \in 0..MaxFaults
      BY <1>7, FaultType DEF FetchFails, SessionOK, AtInv
    <2>2. SessionOK'
      <3>1. Moves(s)
        BY <2>1, AtType DEF Moves, SessionOK
      <3> QED BY <2>1, <3>1, MovesType DEF SessionOK
    <2> QED BY <2>1, <2>2, RestStays DEF RestOK
  <1>8. CASE SaveFails(s)
    <2>1. /\ at[s] \in Items /\ got[s] \in Versions
          /\ spc' = [spc EXCEPT ![s] = "failing"]
          /\ got' = [got EXCEPT ![s] = NoVersion]
          /\ disk' \in {disk, [disk EXCEPT ![at[s]] = got[s]]}
          /\ overlapped' = (overlapped \/ disk' # disk)
          /\ UNCHANGED <<remote, index, lastDoc, database, loaded, known, listed, at,
                         mine, task, changes>>
          /\ faults' \in 0..MaxFaults
      BY <1>8, FaultType DEF SaveFails, SessionOK, AtInv
    <2>2. SessionOK'
      <3>1. Moves(s)
        BY <2>1, AtType DEF Moves, SessionOK
      <3> QED BY <2>1, <3>1, MovesType DEF SessionOK
    <2>3. disk' \in [Items -> Versions \cup {NoVersion}] /\ overlapped' \in BOOLEAN
      BY <2>1 DEF RestOK
    <2> QED BY <2>1, <2>2, <2>3 DEF RestOK, database
  <1> QED
    BY <1>1, <1>2, <1>3, <1>4, <1>5, <1>6, <1>7, <1>8

TaskType == [pc : {"free", "queued", "running", "marking"},
             doc : DocIds \cup {NoDoc}, item : Items,
             read : Versions \cup {NoVersion}]

LEMMA RecordRef ==
    ASSUME NEW e \in RecordType
    PROVE  /\ e # NoRecord <=> e \in Record
           /\ e # NoRecord => e.ref \in DocIds /\ e.hash \in Versions
           /\ e = NoRecord => e.ref = NoDoc
           /\ NoDoc \notin DocIds
  BY SyncAssumption DEF RecordType, Record, NoRecord, NoDoc, DocIds

LEMMA SaveTyped ==
    ASSUME SessionOK, RestOK, NEW s \in Syncs, NEW t \in Tasks, Save(s, t)
    PROVE  SessionOK' /\ RestOK'
  <1> DEFINE i == at[s]
             d == IF known[s][i] = NoRecord THEN lastDoc + 1 ELSE known[s][i].ref
             e == [hash |-> got[s], ref |-> d]
             k == [pc |-> "queued", doc |-> d, item |-> i, read |-> NoVersion]
  <1>1. i \in Items /\ got[s] \in Versions
    BY DEF Save, SessionOK, AtInv
  <1>2. /\ d \in DocIds
        /\ disk' = [disk EXCEPT ![i] = got[s]]
        /\ lastDoc' = IF d > lastDoc THEN d ELSE lastDoc
        /\ mine' = [mine EXCEPT ![s][i] = e]
        /\ task' = [task EXCEPT ![t] = k]
        /\ overlapped' = (overlapped \/ Live(d) # {})
        /\ got' = [got EXCEPT ![s] = NoVersion]
        /\ spc' = [spc EXCEPT ![s] = "flushing"]
        /\ UNCHANGED <<remote, index, database, loaded, known, listed, at, changes,
                       faults>>
    BY DEF Save
  <1>3. e \in RecordType /\ k \in TaskType
    BY <1>1, <1>2 DEF RecordType, Record, TaskType
  <1> HIDE DEF i, d, e, k
  <1>4. mine' \in [Syncs -> [Items -> RecordType]]
    BY <1>1, <1>2, <1>3, KnownMine
  <1>5. Moves(s)
    <2>1. at[s] \in Items
      BY <1>1 DEF i
    <2> QED BY <1>2, <2>1, AtType DEF Moves, SessionOK
  <1>6. SessionOK'
    BY <1>2, <1>4, <1>5, MovesType DEF SessionOK
  <1>7. lastDoc' \in 0..MaxDocs
    BY <1>2, SyncAssumption DEF RestOK, DocIds
  <1>8. task' \in [Tasks -> TaskType]
    BY <1>2, <1>3 DEF RestOK, TaskType
  <1>9. disk' \in [Items -> Versions \cup {NoVersion}] /\ overlapped' \in BOOLEAN
    BY <1>1, <1>2 DEF RestOK
  <1>10. RestOK'
    BY <1>2, <1>7, <1>8, <1>9 DEF RestOK, TaskType, database
  <1> QED
    BY <1>6, <1>10

LEMMA WrittenFinite ==
    ASSUME NEW s
    PROVE  IsFiniteSet(Written(s)) /\ Cardinality(Written(s)) \in Nat
  <1>1. IsFiniteSet(Items)
    BY SyncAssumption, FS_Interval DEF Items
  <1>2. Written(s) \in SUBSET Items
    BY DEF Written
  <1>3. IsFiniteSet(Written(s))
    BY <1>1, <1>2, FS_Subset
  <1> QED
    BY <1>3, FS_CardinalityType

LEMMA CommitTyped ==
    ASSUME SessionOK, RestOK, NEW s \in Syncs, Commit(s)
    PROVE  SessionOK' /\ RestOK'
  <1>1. /\ Forget({s}, "idle")
        /\ rec' = [i \in Items |-> IF i \in Written(s) THEN mine[s][i] ELSE rec[i]]
        /\ row' = NewRows(s)
        /\ UNCHANGED <<store, task, changes, faults, overlapped>>
        /\ total' = NewTotal(s) /\ status' = NewStatus(s)
    BY DEF Commit, CommitRows
  <1>2. SessionOK'
    BY <1>1, ForgetType
  <1>3. rec' \in [Items -> RecordType]
    BY <1>1 DEF SessionOK, RestOK
  <1>4. row' \in [DocIds -> {"none", "pending", "processing", "ready", "failed"}]
    BY <1>1 DEF NewRows, RestOK
  <1>5. total' \in Nat
    BY <1>1, WrittenFinite DEF NewTotal, SessionOK, RestOK
  <1>6. status' \in {"active", "paused", "error", "deleted"}
    BY <1>1 DEF NewStatus, RestOK
  <1>7. RestOK'
    BY <1>1, <1>3, <1>4, <1>5, <1>6 DEF RestOK, store
  <1> QED
    BY <1>2, <1>7

LEMMA EndTyped ==
    ASSUME SessionOK, RestOK, (\E s \in Syncs : Fail(s)) \/ WorkerCrash
    PROVE  SessionOK' /\ RestOK'
  <1>1. ASSUME NEW s \in Syncs, Fail(s)
        PROVE  SessionOK' /\ RestOK'
    <2>1. /\ Forget({s}, "idle")
          /\ status' \in {status, "error"} /\ overlapped' \in BOOLEAN
          /\ UNCHANGED <<store, total, rec, row, task, changes, faults>>
      BY <1>1 DEF Fail
    <2>2. SessionOK'
      BY <2>1, ForgetType
    <2> QED BY <2>1, <2>2 DEF RestOK, store
  <1>2. CASE WorkerCrash
    <2>1. /\ Forget(Active, "queued")
          /\ task' = [t \in Tasks |-> IF task[t].pc = "free" THEN Free
                 ELSE [task[t] EXCEPT !.pc = "queued", !.read = NoVersion]]
          /\ overlapped' \in BOOLEAN /\ faults' \in 0..MaxFaults
          /\ UNCHANGED <<store, database, changes>>
      BY <1>2, FaultType DEF WorkerCrash
    <2>2. SessionOK'
      BY <2>1, ForgetType DEF Active
    <2>3. task' \in [Tasks -> TaskType]
      <3>1. Free \in TaskType
        BY ItemsExist DEF Free, TaskType
      <3>2. \A t \in Tasks :
              [task[t] EXCEPT !.pc = "queued", !.read = NoVersion] \in TaskType
        BY DEF RestOK, TaskType
      <3> QED BY <2>1, <3>1, <3>2
    <2> QED BY <2>1, <2>2, <2>3 DEF RestOK, TaskType, store, database
  <1> QED
    BY <1>1, <1>2

LEMMA SetRowType ==
    ASSUME RestOK, NEW d, NEW st \in {"processing", "ready", "failed"},
           SetRow(d, st)
    PROVE  /\ row' \in [DocIds -> {"none", "pending", "processing", "ready", "failed"}]
           /\ \A x \in DocIds : row'[x] = "none" <=> row[x] = "none"
  BY DEF RestOK, SetRow

LEMMA TaskTyped ==
    ASSUME SessionOK, RestOK, NEW t \in Tasks,
           TaskStep(t) \/ IngestFails(t)
    PROVE  /\ SessionOK' /\ RestOK'
           /\ \A x \in DocIds : row'[x] = "none" <=> row[x] = "none"
  <1>1. CASE Begin(t)
    <2>1. /\ task' = [task EXCEPT ![t].pc = "running",
                                  ![t].read = disk[task[t].item]]
          /\ SetRow(task[t].doc, "processing")
          /\ UNCHANGED <<store, status, total, rec, syncVars, changes, faults,
                         overlapped>>
      BY <1>1 DEF Begin
    <2>2. task' \in [Tasks -> TaskType]
      <3>1. [task[t] EXCEPT !.pc = "running", !.read = disk[task[t].item]] \in TaskType
        BY DEF RestOK, TaskType
      <3>2. task' = [task EXCEPT ![t] =
                       [task[t] EXCEPT !.pc = "running", !.read = disk[task[t].item]]]
        BY <2>1 DEF RestOK
      <3> QED BY <3>1, <3>2 DEF RestOK, TaskType
    <2> QED BY <2>1, <2>2, SetRowType, SessionStays DEF RestOK, TaskType, store
  <1>2. CASE Complete(t)
    <2> DEFINE chunks == [k \in Idx |-> IF k <= Size[task[t].read] THEN task[t].read
                                       ELSE index[task[t].doc][k]]
    <2>1. /\ index' = [index EXCEPT ![task[t].doc] = chunks]
          /\ SetRow(task[t].doc, "ready")
          /\ task' = IF row[task[t].doc] = "none"
                       THEN [task EXCEPT ![t].pc = "marking"]
                       ELSE [task EXCEPT ![t] = Free]
          /\ UNCHANGED <<remote, disk, lastDoc, status, total, rec, syncVars, changes,
                         faults, overlapped>>
      BY <1>2 DEF Complete, CompleteWith
    <2>2. task[t] \in TaskType
      BY DEF RestOK, TaskType
    <2>3. index' \in [DocIds -> [Idx -> Versions \cup {NoVersion}]]
      <3>1. CASE task[t].doc \in DocIds
        <4>1. index[task[t].doc] \in [Idx -> Versions \cup {NoVersion}]
          BY <3>1 DEF RestOK
        <4>2. chunks \in [Idx -> Versions \cup {NoVersion}]
          BY <2>2, <4>1 DEF TaskType
        <4> HIDE DEF chunks
        <4> QED BY <2>1, <4>2 DEF RestOK
      <3>2. CASE task[t].doc \notin DocIds
        <4> HIDE DEF chunks
        <4> QED BY <2>1, <3>2 DEF RestOK
      <3> QED BY <3>1, <3>2
    <2> HIDE DEF chunks
    <2>4. task' \in [Tasks -> TaskType]
      <3>1. Free \in TaskType /\ [task[t] EXCEPT !.pc = "marking"] \in TaskType
        BY <2>2, ItemsExist DEF Free, TaskType
      <3>2. \/ task' = [task EXCEPT ![t] = [task[t] EXCEPT !.pc = "marking"]]
            \/ task' = [task EXCEPT ![t] = Free]
        BY <2>1 DEF RestOK
      <3> QED BY <3>1, <3>2 DEF RestOK, TaskType
    <2> QED BY <2>1, <2>3, <2>4, SetRowType, SessionStays DEF RestOK, TaskType
  <1>3. CASE MarkFailed(t)
    <2>1. /\ SetRow(task[t].doc, "failed") /\ task' = [task EXCEPT ![t] = Free]
          /\ UNCHANGED <<store, status, total, rec, syncVars, changes, faults,
                         overlapped>>
      BY <1>3 DEF MarkFailed
    <2>2. task' \in [Tasks -> TaskType]
      BY <2>1, ItemsExist DEF Free, RestOK, TaskType
    <2> QED BY <2>1, <2>2, SetRowType, SessionStays DEF RestOK, TaskType, store
  <1>4. CASE IngestFails(t)
    <2>1. /\ task' = [task EXCEPT ![t].pc = "marking"] /\ faults' \in 0..MaxFaults
          /\ UNCHANGED <<store, database, syncVars, changes, overlapped>>
      BY <1>4, FaultType DEF IngestFails
    <2>2. task' \in [Tasks -> TaskType]
      BY <2>1 DEF RestOK, TaskType
    <2> QED BY <2>1, <2>2, SessionStays DEF RestOK, TaskType, store, database
  <1> QED
    BY <1>1, <1>2, <1>3, <1>4 DEF TaskStep

LEMMA StepTyped ==
    ASSUME TypeInv, [Next]_vars
    PROVE  TypeInv'
  <1>1. SessionOK /\ RestOK
    BY TypeParts
  <1>2. ASSUME Next
        PROVE  SessionOK' /\ RestOK'
    <2>1. CASE \/ \E i \in Items, v \in Versions : RemoteChange(i, v)
               \/ \E s \in Syncs : Beat(s) \/ TriggerSync(s)
               \/ \E new \in {"active", "paused"} : SetConnectorStatus(new)
               \/ DeleteConnector
      BY <1>1, <2>1, AroundTyped
    <2>2. ASSUME NEW s \in Syncs,
                 SyncStep(s) \/ ListFails(s) \/ FetchFails(s) \/ SaveFails(s)
          PROVE  SessionOK' /\ RestOK'
      BY <1>1, <2>2, SyncTyped, SaveTyped, CommitTyped, EndTyped DEF SyncStep
    <2>3. ASSUME NEW t \in Tasks, TaskStep(t) \/ IngestFails(t)
          PROVE  SessionOK' /\ RestOK'
      BY <1>1, <2>3, TaskTyped
    <2>4. CASE WorkerCrash
      BY <1>1, <2>4, EndTyped
    <2> QED BY <1>2, <2>1, <2>2, <2>3, <2>4 DEF Next, Failure
  <1>3. CASE UNCHANGED vars
    <2>1. /\ UNCHANGED syncVars /\ UNCHANGED <<store, database, task, changes>>
          /\ faults' = faults /\ overlapped' = overlapped
      BY <1>3 DEF vars
    <2>2. SessionOK'
      BY <1>1, <2>1, SessionStays
    <2>3. RestOK'
      BY <1>1, <2>1, RestStays DEF RestOK
    <2> QED BY <2>2, <2>3, TypePartsNext
  <1> QED
    BY <1>2, <1>3, TypePartsNext

\* Every column a sync or an ingestion task reads or writes has the values it
\* is declared with, in particular an item at hand while it is fetched, saved
\* and flushed (_run_sync).
THEOREM SyncTypeCorrect == Spec => []TypeOK
  <1>1. Init => TypeInv
    BY InitTyped
  <1>2. TypeInv /\ [Next]_vars => TypeInv'
    BY StepTyped
  <1>3. TypeInv => TypeOK
    BY DEF TypeInv
  <1> QED
    BY <1>1, <1>2, <1>3, PTL DEF Spec

-----------------------------------------------------------------------------
(* One document per item *)

\* The committed rows and the committed records point at each other.
RowsInv ==
    /\ \A i \in Items : rec[i] # NoRecord => row[rec[i].ref] # "none"
    /\ \A d \in DocIds : row[d] # "none" =>
         d <= lastDoc /\ \E i \in Items : rec[i].ref = d
    /\ \A i, j \in Items : rec[i] # NoRecord /\ rec[i].ref = rec[j].ref => i = j

\* A record a sync has read is still there, for the same document, and what
\* the sync writes over it is for that document too.
KnownInv == \A s \in Syncs, i \in Items : known[s][i] # NoRecord =>
    /\ rec[i] # NoRecord /\ rec[i].ref = known[s][i].ref
    /\ mine[s][i] # NoRecord => mine[s][i].ref = known[s][i].ref

\* The document a sync has created is nobody else's and in no committed row.
NewInv == \A s \in Syncs, i \in Items : mine[s][i] # NoRecord =>
    /\ mine[s][i].ref <= lastDoc
    /\ known[s][i] = NoRecord =>
         /\ row[mine[s][i].ref] = "none"
         /\ \A x \in Syncs, j \in Items :
              mine[x][j].ref = mine[s][i].ref => x = s /\ j = i

\* A sync has written records only for the items it has gone past.
PlaceInv == \A s \in Syncs, i \in Items : mine[s][i] # NoRecord =>
    /\ spc[s] \notin {"idle", "queued", "listing"}
    /\ i < at[s] \/ (i = at[s] /\ spc[s] \in {"flushing", "failing"})

\* A record flushed is locked, and was not there if it was inserted.
LockInv ==
    /\ \A s, x \in Syncs, i \in Items : i \in Holds(s) /\ i \in Holds(x) => s = x
    /\ \A s \in Syncs, i \in Items :
         /\ spc[s] # "failing" /\ i \in Holds(s) /\ known[s][i] = NoRecord
         => rec[i] = NoRecord

\* Once the connector is deleted only the place of each sync matters.
DocsInv ==
    /\ PlaceInv
    /\ status # "deleted" => RowsInv /\ KnownInv /\ NewInv /\ LockInv

\* No row is inserted.
SameRows == \A d \in DocIds : row'[d] = "none" <=> row[d] = "none"

LEMMA RecRef ==
    ASSUME RestOK, NEW i \in Items
    PROVE  /\ rec[i] # NoRecord => rec[i].ref \in DocIds
           /\ rec[i] = NoRecord => rec[i].ref = NoDoc
           /\ NoDoc \notin DocIds
  BY RecordRef DEF RestOK

LEMMA MineRef ==
    ASSUME SessionOK, NEW s \in Syncs, NEW i \in Items
    PROVE  /\ mine[s][i] # NoRecord => mine[s][i].ref \in DocIds
           /\ mine[s][i] = NoRecord => mine[s][i].ref = NoDoc
           /\ known[s][i] # NoRecord => known[s][i].ref \in DocIds
           /\ NoDoc \notin DocIds
  BY RecordRef DEF SessionOK

LEMMA RowsFrame ==
    ASSUME RestOK, RowsInv, UNCHANGED <<rec, lastDoc>>, SameRows
    PROVE  RowsInv'
  BY RecRef DEF RowsInv, SameRows

LEMMA NewFrame ==
    ASSUME SessionOK, NewInv, UNCHANGED <<known, mine, lastDoc>>, SameRows
    PROVE  NewInv'
  BY MineRef DEF NewInv, SameRows

\* What happens around the syncs, the ingestion tasks included.
LEMMA AroundKeeps ==
    ASSUME SessionOK, RestOK, DocsInv, SameRows,
           UNCHANGED <<rec, known, mine, at, lastDoc>>,
           status' # "deleted" => status # "deleted",
           \A s \in Syncs : spc'[s] = spc[s] \/ (spc[s] = "idle" /\ spc'[s] = "queued")
    PROVE  DocsInv'
  <1>1. PlaceInv'
    BY DEF DocsInv, PlaceInv
  <1>2. ASSUME status' # "deleted"
        PROVE  RowsInv' /\ KnownInv' /\ NewInv' /\ LockInv'
    <2>1. RowsInv /\ KnownInv /\ NewInv /\ LockInv
      BY <1>2 DEF DocsInv
    <2>2. RowsInv' /\ NewInv'
      BY <2>1, RowsFrame, NewFrame
    <2>3. KnownInv'
      BY <2>1 DEF KnownInv
    <2>4. \A s \in Syncs : Holds(s)' = Holds(s) /\ (spc'[s] # "failing" => spc[s] # "failing")
      BY DEF Holds
    <2>5. LockInv'
      BY <2>1, <2>4 DEF LockInv
    <2> QED BY <2>2, <2>3, <2>5
  <1> QED
    BY <1>1, <1>2 DEF DocsInv

\* A sync moves on and writes nothing.
LEMMA MoveKeeps ==
    ASSUME SessionOK, RestOK, DocsInv, NEW s \in Syncs,
           UNCHANGED <<rec, row, known, mine, lastDoc, status>>,
           \A x \in Syncs \ {s} : spc'[x] = spc[x] /\ at'[x] = at[x],
           \A i \in Items : mine[s][i] # NoRecord =>
             /\ spc'[s] \notin {"idle", "queued", "listing"}
             /\ i < at'[s] \/ (i = at'[s] /\ spc'[s] \in {"flushing", "failing"}),
           \A i \in Items : i \in Holds(s)' =>
             \/ i \in Holds(s) /\ spc[s] # "failing"
             \/ /\ \A x \in Syncs \ {s} : i \notin Holds(x)
                /\ \/ spc'[s] = "failing" \/ status = "deleted"
                   \/ known[s][i] = NoRecord => rec[i] = NoRecord
    PROVE  DocsInv'
  <1>1. PlaceInv'
    BY DEF DocsInv, PlaceInv
  <1>2. ASSUME status' # "deleted"
        PROVE  RowsInv' /\ KnownInv' /\ NewInv' /\ LockInv'
    <2>1. RowsInv /\ KnownInv /\ NewInv /\ LockInv
      BY <1>2 DEF DocsInv
    <2>2. RowsInv' /\ NewInv'
      BY <2>1, RowsFrame, NewFrame DEF SameRows
    <2>3. KnownInv'
      BY <2>1 DEF KnownInv
    <2>4. \A x \in Syncs \ {s} : Holds(x)' = Holds(x)
      BY DEF Holds
    <2>5. \A x, y \in Syncs, i \in Items :
            i \in Holds(x)' /\ i \in Holds(y)' => x = y
      BY <2>1, <2>4 DEF LockInv
    <2>6. \A x \in Syncs, i \in Items :
            /\ spc'[x] # "failing" /\ i \in Holds(x)' /\ known[x][i] = NoRecord
            => rec[i] = NoRecord
      BY <1>2, <2>1, <2>4 DEF LockInv
    <2>7. LockInv'
      BY <2>5, <2>6 DEF LockInv
    <2> QED BY <2>2, <2>3, <2>7
  <1> QED
    BY <1>1, <1>2 DEF DocsInv

\* Syncs end, and their sessions with them.
LEMMA ForgetKeeps ==
    ASSUME SessionOK, RestOK, DocsInv, NEW S \in SUBSET Syncs,
           NEW pc \in {"idle", "queued"}, Forget(S, pc),
           UNCHANGED <<rec, row, lastDoc>>,
           status' # "deleted" => status # "deleted"
    PROVE  DocsInv'
  <1>1. \A s \in Syncs :
          \/ \A i \in Items : mine'[s][i] = NoRecord /\ known'[s][i] = NoRecord
          \/ mine'[s] = mine[s] /\ known'[s] = known[s] /\ at'[s] = at[s]
             /\ spc'[s] = spc[s]
    BY DEF Forget, Fresh
  <1>2. PlaceInv'
    BY <1>1 DEF DocsInv, PlaceInv
  <1>3. ASSUME status' # "deleted"
        PROVE  RowsInv' /\ KnownInv' /\ NewInv' /\ LockInv'
    <2>1. RowsInv /\ KnownInv /\ NewInv /\ LockInv
      BY <1>3 DEF DocsInv
    <2>2. RowsInv'
      BY <2>1, RowsFrame DEF SameRows
    <2>3. KnownInv'
      BY <1>1, <2>1 DEF KnownInv
    <2>4. NewInv'
      <3> SUFFICES ASSUME NEW s \in Syncs, NEW i \in Items, mine'[s][i] # NoRecord
                   PROVE  /\ mine'[s][i].ref <= lastDoc
                          /\ known'[s][i] = NoRecord =>
                               /\ row[mine'[s][i].ref] = "none"
                               /\ \A x \in Syncs, j \in Items :
                                    mine'[x][j].ref = mine'[s][i].ref => x = s /\ j = i
        BY DEF NewInv
      <3>1. mine'[s] = mine[s] /\ known'[s] = known[s] /\ mine[s][i].ref \in DocIds
        BY <1>1, MineRef
      <3>2. \A x \in Syncs, j \in Items :
              mine'[x][j].ref = mine[s][i].ref => mine[x][j].ref = mine[s][i].ref
        BY <1>1, <3>1, MineRef DEF NoRecord
      <3> QED BY <2>1, <3>1, <3>2 DEF NewInv
    <2>5. \A s \in Syncs : Holds(s)' = {} \/ (Holds(s)' = Holds(s) /\ spc'[s] = spc[s]
                                              /\ known'[s] = known[s])
      BY <1>1 DEF Holds
    <2>6. LockInv'
      BY <2>1, <2>5 DEF LockInv
    <2> QED BY <2>2, <2>3, <2>4, <2>6
  <1> QED
    BY <1>2, <1>3 DEF DocsInv

\* A sync reads records of items it has written nothing for.
LEMMA ReadKeeps ==
    ASSUME SessionOK, RestOK, DocsInv, NEW s \in Syncs,
           UNCHANGED <<rec, row, mine, lastDoc, status>>,
           \A x \in Syncs \ {s} :
             spc'[x] = spc[x] /\ at'[x] = at[x] /\ known'[x] = known[x],
           \A j \in Items : mine[s][j] # NoRecord => known'[s][j] = known[s][j],
           \A j \in Items : known'[s][j] \in {known[s][j], rec[j]},
           spc[s] \in {"queued", "scanning"},
           spc'[s] \in {"listing", "scanning", "fetching"},
           at'[s] >= at[s], at'[s] \in Nat,
           spc[s] = "queued" \/ spc'[s] # "listing"
    PROVE  DocsInv'
  <1>1. \A i \in Items : mine[s][i] # NoRecord => spc[s] = "scanning" /\ i < at[s]
    BY DEF DocsInv, PlaceInv
  <1>2. PlaceInv'
    <2>1. at[s] \in Nat /\ Items \in SUBSET Nat
      BY AtType DEF Items
    <2>2. \A i \in Items : mine[s][i] # NoRecord => i < at'[s]
      BY <1>1, <2>1
    <2>3. \A i \in Items : mine[s][i] # NoRecord =>
            spc'[s] \notin {"idle", "queued", "listing"}
      BY <1>1
    <2> QED BY <2>2, <2>3 DEF DocsInv, PlaceInv
  <1>3. ASSUME status' # "deleted"
        PROVE  RowsInv' /\ KnownInv' /\ NewInv' /\ LockInv'
    <2>1. RowsInv /\ KnownInv /\ NewInv /\ LockInv
      BY <1>3 DEF DocsInv
    <2>2. RowsInv'
      BY <2>1, RowsFrame DEF SameRows
    <2>3. \A x \in Syncs, j \in Items : mine[x][j] # NoRecord => known'[x][j] = known[x][j]
      OBVIOUS
    <2>4. KnownInv'
      <3>1. \A x \in Syncs, j \in Items :
              known'[x][j] = known[x][j] \/ (known'[x][j] = rec[j] /\ x = s)
        OBVIOUS
      <3> QED BY <2>1, <2>3, <3>1 DEF KnownInv
    <2>5. NewInv'
      BY <2>1, <2>3 DEF NewInv
    <2>6. \A x \in Syncs : Holds(x)' = Holds(x) /\ (spc'[x] = "failing" <=> spc[x] = "failing")
      <3>1. Holds(s)' = Holds(s)
        BY DEF Holds
      <3> QED BY <3>1 DEF Holds
    <2>7. LockInv'
      <3>1. \A x \in Syncs : \A i \in Holds(x) : known'[x][i] = known[x][i]
        BY <2>3 DEF Holds
      <3> QED BY <2>1, <2>6, <3>1 DEF LockInv
    <2> QED BY <2>2, <2>4, <2>5, <2>7
  <1> QED
    BY <1>2, <1>3 DEF DocsInv

LEMMA SaveKeeps ==
    ASSUME SessionOK, RestOK, SessionOK', DocsInv, NEW s \in Syncs, NEW t \in Tasks,
           Save(s, t)
    PROVE  DocsInv'
  <1> DEFINE i == at[s]
             d == IF known[s][i] = NoRecord THEN lastDoc + 1 ELSE known[s][i].ref
             e == [hash |-> got[s], ref |-> d]
  <1>1. /\ i \in Items /\ d \in DocIds /\ spc[s] = "saving"
        /\ e.ref = d /\ e # NoRecord /\ i = at[s]
        /\ known[s][i] = NoRecord => d = lastDoc + 1
        /\ known[s][i] # NoRecord => d = known[s][i].ref
    <2>1. i \in Items /\ d \in DocIds /\ spc[s] = "saving"
      BY DEF Save, SessionOK, AtInv
    <2>2. e # NoRecord
      BY <2>1, RecordRef DEF NoRecord, NoDoc, DocIds
    <2> QED BY <2>1, <2>2
  <1>2. /\ lastDoc' = IF d > lastDoc THEN d ELSE lastDoc
        /\ mine' = [mine EXCEPT ![s][i] = e]
        /\ spc' = [spc EXCEPT ![s] = "flushing"]
        /\ UNCHANGED <<database, known, at>>
    BY DEF Save
  <1> HIDE DEF i, d, e
  <1>3. /\ mine'[s][i] = e /\ mine[s][i] = NoRecord
        /\ \A x \in Syncs, j \in Items :
             x # s \/ j # i => mine'[x][j] = mine[x][j]
        /\ spc'[s] = "flushing"
        /\ \A x \in Syncs \ {s} : spc'[x] = spc[x]
    <2>1. mine[s] \in [Items -> RecordType] /\ mine \in [Syncs -> [Items -> RecordType]]
      BY DEF SessionOK
    <2>2. mine[s][i] = NoRecord
      <3>1. i \in Nat
        BY <1>1 DEF Items
      <3>2. ~(i < i)
        BY <3>1
      <3> QED BY <1>1, <3>2 DEF DocsInv, PlaceInv
    <2> QED BY <1>1, <1>2, <2>1, <2>2 DEF SessionOK
  <1>4. PlaceInv'
    <2> SUFFICES ASSUME NEW x \in Syncs, NEW j \in Items, mine'[x][j] # NoRecord
                 PROVE  /\ spc'[x] \notin {"idle", "queued", "listing"}
                        /\ j < at[x] \/ (j = at[x] /\ spc'[x] \in {"flushing", "failing"})
      BY <1>2 DEF PlaceInv
    <2>1. CASE x = s /\ j = i
      BY <1>1, <1>3, <2>1
    <2>2. CASE x # s \/ j # i
      BY <1>1, <1>3, <2>2 DEF DocsInv, PlaceInv
    <2> QED BY <2>1, <2>2
  <1>5. ASSUME status' # "deleted"
        PROVE  RowsInv' /\ KnownInv' /\ NewInv' /\ LockInv'
    <2>1. /\ RowsInv /\ KnownInv /\ NewInv /\ LockInv
          /\ UNCHANGED <<rec, row, known, at>>
      BY <1>2, <1>5 DEF DocsInv, database
    <2>2. /\ lastDoc \in Nat /\ DocIds \in SUBSET Nat
          /\ known[s][i] # NoRecord => d <= lastDoc
      <3>1. lastDoc \in Nat /\ DocIds \in SUBSET Nat
        BY DEF RestOK, DocIds
      <3>2. ASSUME known[s][i] # NoRecord
            PROVE  row[d] # "none"
        BY <1>1, <2>1, <3>2 DEF KnownInv, RowsInv
      <3> QED BY <1>1, <2>1, <3>1, <3>2 DEF RowsInv
    <2>3. d \in Nat /\ lastDoc' \in Nat /\ lastDoc <= lastDoc' /\ d <= lastDoc'
      BY <1>1, <1>2, <2>2
    <2>4. RowsInv'
      <3>1. \A x \in DocIds : x <= lastDoc => x <= lastDoc'
        BY <2>2, <2>3
      <3> QED BY <2>1, <3>1 DEF RowsInv
    <2>5. KnownInv'
      BY <1>1, <1>3, <2>1 DEF KnownInv
    <2>6. ASSUME known[s][i] = NoRecord
          PROVE  /\ row[d] = "none"
                 /\ \A x \in Syncs, j \in Items : mine[x][j].ref # d
      <3>1. d = lastDoc + 1 /\ ~(d <= lastDoc)
        BY <1>1, <2>2, <2>6
      <3>2. row[d] = "none"
        BY <1>1, <2>1, <3>1 DEF RowsInv
      <3>3. \A x \in Syncs, j \in Items : mine[x][j].ref # d
        <4> SUFFICES ASSUME NEW x \in Syncs, NEW j \in Items, mine[x][j].ref = d
                     PROVE  FALSE
          OBVIOUS
        <4>1. mine[x][j] # NoRecord
          BY <1>1, MineRef
        <4> QED BY <2>1, <3>1, <4>1 DEF NewInv
      <3> QED BY <3>2, <3>3
    <2>7. ASSUME known[s][i] # NoRecord
          PROVE  row[d] # "none"
      BY <1>1, <2>1, <2>7 DEF KnownInv, RowsInv
    <2>8. NewInv'
      <3>1. ASSUME NEW x \in Syncs, NEW j \in Items, mine'[x][j] # NoRecord
            PROVE  mine'[x][j].ref <= lastDoc'
        <4>1. CASE x = s /\ j = i
          BY <1>1, <1>3, <2>3, <4>1
        <4>2. CASE x # s \/ j # i
          <5>1. mine'[x][j] = mine[x][j] /\ mine[x][j].ref <= lastDoc
                /\ mine[x][j].ref \in Nat
            BY <1>3, <2>1, <2>2, <3>1, <4>2, MineRef DEF NewInv
          <5>2. \A n \in Nat : n <= lastDoc => n <= lastDoc'
            BY <2>2, <2>3
          <5> QED BY <5>1, <5>2
        <4> QED BY <4>1, <4>2
      <3>2. ASSUME NEW x \in Syncs, NEW j \in Items, mine'[x][j] # NoRecord,
                   known[x][j] = NoRecord
            PROVE  row[mine'[x][j].ref] = "none"
        <4>1. CASE x = s /\ j = i
          BY <1>1, <1>3, <2>6, <3>2, <4>1
        <4>2. CASE x # s \/ j # i
          BY <1>3, <2>1, <3>2, <4>2 DEF NewInv
        <4> QED BY <4>1, <4>2
      <3>3. ASSUME NEW x \in Syncs, NEW j \in Items, mine'[x][j] # NoRecord,
                   known[x][j] = NoRecord,
                   NEW y \in Syncs, NEW l \in Items,
                   mine'[y][l].ref = mine'[x][j].ref
            PROVE  y = x /\ l = j
        <4>1. CASE x = s /\ j = i
          <5>1. mine'[y][l].ref = d
            BY <1>1, <1>3, <3>3, <4>1
          <5> QED BY <1>3, <2>6, <3>3, <4>1, <5>1
        <4>2. CASE (x # s \/ j # i) /\ (y # s \/ l # i)
          BY <1>3, <2>1, <3>3, <4>2 DEF NewInv
        <4>3. CASE (x # s \/ j # i) /\ y = s /\ l = i
          <5>1. mine'[x][j] = mine[x][j] /\ mine[x][j].ref = d
            BY <1>1, <1>3, <3>3, <4>3
          <5>2. row[d] = "none"
            BY <2>1, <3>3, <5>1 DEF NewInv
          <5> QED BY <2>6, <2>7, <5>1, <5>2
        <4> QED BY <4>1, <4>2, <4>3
      <3> QED BY <2>1, <3>1, <3>2, <3>3 DEF NewInv
    <2>9. LockInv'
      <3>1. \A x \in Syncs : Holds(x)' = Holds(x)
        <4>1. \A x \in Syncs \ {s} : Holds(x)' = Holds(x)
          BY <1>2, <1>3, <2>1 DEF Holds
        <4>2. Holds(s)' = Holds(s)
          BY <1>1, <1>3, <2>1 DEF Holds
        <4> QED BY <4>1, <4>2
      <3>2. \A x \in Syncs : spc'[x] # "failing" <=> spc[x] # "failing"
        BY <1>1, <1>3
      <3> QED BY <2>1, <3>1, <3>2 DEF LockInv
    <2> QED BY <2>4, <2>5, <2>8, <2>9
  <1> QED
    BY <1>4, <1>5 DEF DocsInv

LEMMA CommitKeeps ==
    ASSUME SessionOK, RestOK, RestOK', DocsInv, NEW s \in Syncs, Commit(s)
    PROVE  DocsInv'
  <1>1. /\ spc[s] = "scanning" /\ status # "deleted"
        /\ rec' = [i \in Items |-> IF i \in Written(s) THEN mine[s][i] ELSE rec[i]]
        /\ row' = NewRows(s)
        /\ Forget({s}, "idle")
        /\ lastDoc' = lastDoc
    BY DEF Commit, CommitRows, store
  <1>2. RowsInv /\ KnownInv /\ NewInv /\ LockInv /\ PlaceInv
    BY <1>1 DEF DocsInv
  <1>3. /\ \A i \in Items : mine'[s][i] = NoRecord /\ known'[s][i] = NoRecord
        /\ \A x \in Syncs \ {s} :
             /\ mine'[x] = mine[x] /\ known'[x] = known[x] /\ at'[x] = at[x]
             /\ spc'[x] = spc[x]
    BY <1>1 DEF Forget, Fresh
  \* What it writes over a record is for the same document.
  <1>4. \A i \in Items :
          /\ i \in Written(s) <=> mine[s][i] # NoRecord
          /\ i \in Written(s) => i \in Holds(s) /\ rec'[i] = mine[s][i]
          /\ i \notin Written(s) => rec'[i] = rec[i]
    BY <1>1 DEF Written, Holds
  <1>5. \A i \in Items : rec[i] # NoRecord =>
          rec'[i] # NoRecord /\ rec'[i].ref = rec[i].ref
    <2> SUFFICES ASSUME NEW i \in Items, rec[i] # NoRecord, i \in Written(s)
                 PROVE  rec'[i] # NoRecord /\ rec'[i].ref = rec[i].ref
      BY <1>4
    <2>1. known[s][i] # NoRecord
      BY <1>1, <1>2, <1>4 DEF LockInv
    <2> QED BY <1>2, <1>4, <2>1 DEF KnownInv
  \* A record where there was none is for a document it has created.
  <1>6. \A i \in Items : rec'[i] # NoRecord /\ rec[i] = NoRecord =>
          /\ rec'[i] = mine[s][i] /\ mine[s][i] # NoRecord
          /\ known[s][i] = NoRecord
    BY <1>2, <1>4 DEF KnownInv
  <1>7. \A i \in Items : mine[s][i] # NoRecord /\ known[s][i] = NoRecord =>
          /\ rec'[i] = mine[s][i] /\ mine[s][i].ref \in DocIds
          /\ row[mine[s][i].ref] = "none" /\ mine[s][i].ref <= lastDoc
    BY <1>2, <1>4, MineRef DEF NewInv
  <1>8. \A d \in DocIds :
          /\ row'[d] # "none" <=> row[d] # "none" \/ d \in Created(s)
          /\ d \in Created(s) <=> \E i \in Items :
               mine[s][i] # NoRecord /\ known[s][i] = NoRecord /\ mine[s][i].ref = d
    BY <1>1 DEF NewRows, Created, Written
  <1>9. \A i \in Items : /\ rec'[i] # NoRecord => rec'[i].ref \in DocIds
                         /\ rec'[i] = NoRecord => rec'[i].ref \notin DocIds
    BY RecordRef DEF RestOK
  <1>10. RowsInv'
    <2>1. ASSUME NEW i \in Items, rec'[i] # NoRecord
          PROVE  row'[rec'[i].ref] # "none"
      <3>1. CASE rec[i] # NoRecord
        BY <1>2, <1>5, <1>8, <1>9, <2>1, <3>1 DEF RowsInv
      <3>2. CASE rec[i] = NoRecord
        BY <1>6, <1>8, <1>9, <2>1, <3>2
      <3> QED BY <3>1, <3>2
    <2>2. ASSUME NEW d \in DocIds, row'[d] # "none"
          PROVE  d <= lastDoc' /\ \E i \in Items : rec'[i].ref = d
      <3>1. CASE d \in Created(s)
        BY <1>1, <1>7, <1>8, <3>1
      <3>2. CASE d \notin Created(s)
        <4>1. row[d] # "none"
          BY <1>8, <2>2, <3>2
        <4>2. PICK i \in Items : rec[i].ref = d
          BY <1>2, <4>1 DEF RowsInv
        <4>3. rec[i] # NoRecord
          BY <4>2, RecRef
        <4> QED BY <1>1, <1>2, <1>5, <4>1, <4>2, <4>3 DEF RowsInv
      <3> QED BY <3>1, <3>2
    <2>3. ASSUME NEW i \in Items, NEW j \in Items, rec'[i] # NoRecord,
                 rec'[i].ref = rec'[j].ref
          PROVE  i = j
      <3>1. rec'[j] # NoRecord
        BY <1>9, <2>3
      <3>2. CASE rec[i] # NoRecord /\ rec[j] # NoRecord
        BY <1>2, <1>5, <2>3, <3>2 DEF RowsInv
      <3>3. CASE rec[i] = NoRecord /\ rec[j] = NoRecord
        BY <1>2, <1>6, <2>3, <3>1, <3>3 DEF NewInv
      <3>4. CASE rec[i] # NoRecord /\ rec[j] = NoRecord
        <4>1. row[rec'[i].ref] # "none"
          BY <1>2, <1>5, <3>4 DEF RowsInv
        <4>2. row[rec'[j].ref] = "none"
          BY <1>6, <1>7, <3>1, <3>4
        <4> QED BY <2>3, <4>1, <4>2
      <3>5. CASE rec[i] = NoRecord /\ rec[j] # NoRecord
        <4>1. row[rec'[j].ref] # "none"
          BY <1>2, <1>5, <3>5 DEF RowsInv
        <4>2. row[rec'[i].ref] = "none"
          BY <1>6, <1>7, <2>3, <3>5
        <4> QED BY <2>3, <4>1, <4>2
      <3> QED BY <3>2, <3>3, <3>4, <3>5
    <2> QED BY <2>1, <2>2, <2>3 DEF RowsInv
  <1>11. KnownInv'
    <2> SUFFICES ASSUME NEW x \in Syncs, NEW i \in Items, known'[x][i] # NoRecord
                 PROVE  /\ rec'[i] # NoRecord /\ rec'[i].ref = known'[x][i].ref
                        /\ mine'[x][i] # NoRecord => mine'[x][i].ref = known'[x][i].ref
      BY DEF KnownInv
    <2>1. mine'[x] = mine[x] /\ known'[x] = known[x]
      BY <1>3
    <2> QED BY <1>2, <1>5, <2>1 DEF KnownInv
  <1>12. NewInv'
    <2> SUFFICES ASSUME NEW x \in Syncs, NEW i \in Items, mine'[x][i] # NoRecord
                 PROVE  /\ mine'[x][i].ref <= lastDoc
                        /\ known'[x][i] = NoRecord =>
                             /\ row'[mine'[x][i].ref] = "none"
                             /\ \A y \in Syncs, j \in Items :
                                  mine'[y][j].ref = mine'[x][i].ref => y = x /\ j = i
      BY <1>1 DEF NewInv
    <2>1. /\ x # s /\ mine'[x] = mine[x] /\ known'[x] = known[x]
          /\ mine[x][i].ref \in DocIds
      BY <1>3, MineRef
    <2>2. ASSUME known[x][i] = NoRecord
          PROVE  row'[mine[x][i].ref] = "none"
      BY <1>2, <1>8, <2>1, <2>2 DEF NewInv
    <2>3. ASSUME known[x][i] = NoRecord, NEW y \in Syncs, NEW j \in Items,
                 mine'[y][j].ref = mine[x][i].ref
          PROVE  y = x /\ j = i
      <3>1. y # s
        BY <1>3, <2>1, <2>3, MineRef DEF NoRecord
      <3> QED BY <1>2, <1>3, <2>1, <2>3, <3>1 DEF NewInv
    <2> QED BY <1>2, <2>1, <2>2, <2>3 DEF NewInv
  <1>13. LockInv'
    <2>1. Holds(s)' = {} /\ \A x \in Syncs \ {s} : Holds(x)' = Holds(x)
      BY <1>3 DEF Holds
    <2>2. ASSUME NEW x \in Syncs, NEW i \in Items, spc'[x] # "failing",
                 i \in Holds(x)', known'[x][i] = NoRecord
          PROVE  rec'[i] = NoRecord
      <3>1. x # s /\ i \in Holds(x) /\ known[x][i] = NoRecord /\ spc[x] # "failing"
        BY <1>3, <2>1, <2>2
      <3>2. i \notin Written(s)
        BY <1>2, <1>4, <3>1 DEF LockInv
      <3> QED BY <1>2, <1>4, <3>1, <3>2 DEF LockInv
    <2>3. \A x, y \in Syncs, i \in Items : i \in Holds(x)' /\ i \in Holds(y)' => x = y
      BY <1>2, <2>1 DEF LockInv
    <2> QED BY <2>2, <2>3 DEF LockInv
  <1>14. PlaceInv'
    BY <1>2, <1>3 DEF PlaceInv
  <1> QED
    BY <1>10, <1>11, <1>12, <1>13, <1>14 DEF DocsInv

LEMMA AtItems ==
    ASSUME SessionOK, NEW s \in Syncs
    PROVE  /\ at[s] \in Nat /\ Items \in SUBSET Nat
           /\ at[s] + 1 \in Nat /\ at[s] < at[s] + 1 /\ at[s] + 1 >= at[s]
           /\ at[s] >= at[s]
           /\ \A i \in Items : (i < at[s] \/ i = at[s]) => i < at[s] + 1
           /\ \A i \in Items : at[s] \notin Items /\ i = at[s] => FALSE
  BY AtType DEF Items

\* A sync steps on, over the item or into trouble, without writing.
LEMMA SyncMoves ==
    ASSUME SessionOK, RestOK, DocsInv, NEW s \in Syncs,
           \/ List(s) \/ Fetch(s) \/ CommitFails(s) \/ ListFails(s) \/ FetchFails(s)
           \/ SaveFails(s)
    PROVE  DocsInv'
  <1>1. /\ UNCHANGED <<rec, row, known, mine, lastDoc, status>>
        /\ \A x \in Syncs \ {s} : spc'[x] = spc[x] /\ at'[x] = at[x]
        /\ spc[s] \in {"listing", "scanning", "fetching", "saving"}
        /\ spc'[s] \in {"scanning", "saving", "failing"}
        /\ at'[s] \in {at[s], at[s] + 1}
    <2>1. CASE List(s)
      BY <2>1 DEF List, store, database, SessionOK
    <2>2. CASE Fetch(s)
      BY <2>2 DEF Fetch, store, database, SessionOK
    <2>3. CASE CommitFails(s)
      BY <2>3 DEF CommitFails, store, database, SessionOK
    <2>4. CASE ListFails(s)
      BY <2>4 DEF ListFails, store, database, SessionOK
    <2>5. CASE FetchFails(s)
      BY <2>5 DEF FetchFails, store, database, SessionOK
    <2>6. CASE SaveFails(s)
      BY <2>6 DEF SaveFails, database, SessionOK
    <2> QED BY <2>1, <2>2, <2>3, <2>4, <2>5, <2>6
  <1>2. \A i \in Items : mine[s][i] # NoRecord => i < at[s]
    BY <1>1 DEF DocsInv, PlaceInv
  <1>3. \A i \in Items : mine[s][i] # NoRecord =>
          /\ spc'[s] \notin {"idle", "queued", "listing"}
          /\ i < at'[s] \/ (i = at'[s] /\ spc'[s] \in {"flushing", "failing"})
    BY <1>1, <1>2, AtItems
  <1>4. \A i \in Items : i \in Holds(s)' => i \in Holds(s) /\ spc[s] # "failing"
    BY <1>1 DEF Holds
  <1> QED
    BY <1>1, <1>3, <1>4, MoveKeeps

LEMMA FlushKeeps ==
    ASSUME SessionOK, RestOK, DocsInv, NEW s \in Syncs, Flush(s)
    PROVE  DocsInv'
  <1>1. /\ spc[s] = "flushing"
        /\ \A x \in Syncs \ {s} : at[s] \notin Holds(x)
        /\ UNCHANGED <<rec, row, known, mine, lastDoc, status>>
        /\ \A x \in Syncs \ {s} : spc'[x] = spc[x] /\ at'[x] = at[x]
    BY DEF Flush, FlushUnless, store, database, SessionOK
  <1>2. \/ spc'[s] = "failing" /\ at'[s] = at[s]
        \/ /\ spc'[s] = "scanning" /\ at'[s] = at[s] + 1
           /\ known[s][at[s]] = NoRecord => rec[at[s]] = NoRecord
    BY DEF Flush, FlushUnless, SessionOK
  <1>3. \A i \in Items : mine[s][i] # NoRecord => i < at[s] \/ i = at[s]
    BY <1>1 DEF DocsInv, PlaceInv
  <1>4. \A i \in Items : mine[s][i] # NoRecord =>
          /\ spc'[s] \notin {"idle", "queued", "listing"}
          /\ i < at'[s] \/ (i = at'[s] /\ spc'[s] \in {"flushing", "failing"})
    BY <1>2, <1>3, AtItems
  <1>5. \A i \in Items : i \in Holds(s)' =>
          \/ i \in Holds(s) /\ spc[s] # "failing"
          \/ i = at[s]
    BY <1>1 DEF Holds
  <1> QED
    BY <1>1, <1>2, <1>4, <1>5, MoveKeeps

LEMMA LoadKeeps ==
    ASSUME SessionOK, RestOK, SessionOK', DocsInv, NEW s \in Syncs,
           Load(s) \/ Examine(s)
    PROVE  DocsInv'
  <1>1. CASE Load(s) /\ status \in {"deleted", "paused"}
    <2>1. Forget({s}, "idle") /\ UNCHANGED <<rec, row, lastDoc, status>>
      BY <1>1 DEF Load, store, database
    <2> QED BY <2>1, ForgetKeeps
  <1>2. CASE Load(s) /\ status \notin {"deleted", "paused"}
    <2>1. /\ spc' = [spc EXCEPT ![s] = "listing"] /\ spc[s] = "queued"
          /\ known' = [known EXCEPT ![s] = rec]
          /\ UNCHANGED <<rec, row, mine, at, lastDoc, status>>
      BY <1>2 DEF Load, store, database
    <2>2. /\ \A x \in Syncs \ {s} :
               spc'[x] = spc[x] /\ at'[x] = at[x] /\ known'[x] = known[x]
          /\ spc'[s] = "listing" /\ at'[s] = at[s]
          /\ \A j \in Items : known'[s][j] = rec[j]
      BY <2>1 DEF SessionOK
    <2>3. \A j \in Items : mine[s][j] = NoRecord
      BY <2>1 DEF DocsInv, PlaceInv
    <2> QED BY <2>1, <2>2, <2>3, AtItems, ReadKeeps
  <1>3. CASE Examine(s)
    <2>1. /\ at[s] \in Items /\ spc[s] = "scanning"
          /\ known' = [known EXCEPT ![s][at[s]] = Seen(s, at[s])]
          /\ UNCHANGED <<rec, row, mine, lastDoc, status>>
          /\ \A x \in Syncs \ {s} : spc'[x] = spc[x] /\ at'[x] = at[x]
          /\ spc'[s] \in {"scanning", "fetching"} /\ at'[s] \in {at[s], at[s] + 1}
      BY <1>3 DEF Examine, SkipOrFetch, store, database, SessionOK
    <2>2. /\ \A x \in Syncs \ {s} : known'[x] = known[x]
          /\ \A j \in Items \ {at[s]} : known'[s][j] = known[s][j]
          /\ known'[s][at[s]] \in {known[s][at[s]], rec[at[s]]}
      BY <2>1 DEF Seen, SessionOK
    <2>3. mine[s][at[s]] = NoRecord
      <3>1. ~(at[s] < at[s])
        BY AtItems
      <3> QED BY <2>1, <3>1 DEF DocsInv, PlaceInv
    <2>4. at'[s] \in Nat /\ at'[s] >= at[s]
      BY <2>1, AtItems
    <2> QED BY <2>1, <2>2, <2>3, <2>4, ReadKeeps
  <1> QED
    BY <1>1, <1>2, <1>3

LEMMA OthersKeep ==
    ASSUME SessionOK, RestOK, DocsInv,
           \/ \E i \in Items, v \in Versions : RemoteChange(i, v)
           \/ \E s \in Syncs : Beat(s) \/ TriggerSync(s)
           \/ \E new \in {"active", "paused"} : SetConnectorStatus(new)
           \/ DeleteConnector
           \/ \E t \in Tasks : TaskStep(t) \/ IngestFails(t)
    PROVE  DocsInv'
  <1>1. CASE \E i \in Items, v \in Versions : RemoteChange(i, v)
    <2>1. UNCHANGED <<rec, row, known, mine, at, lastDoc, status, spc>>
      BY <1>1 DEF RemoteChange, database, syncVars
    <2> QED BY <2>1, AroundKeeps DEF SameRows
  <1>2. ASSUME NEW s \in Syncs, Beat(s) \/ TriggerSync(s)
        PROVE  DocsInv'
    <2>1. /\ UNCHANGED <<rec, row, known, mine, at, lastDoc, status>>
          /\ \A x \in Syncs : spc'[x] = spc[x] \/ (spc[x] = "idle" /\ spc'[x] = "queued")
      BY <1>2 DEF Beat, TriggerSync, Enqueue, database, store, SessionOK
    <2> QED BY <2>1, AroundKeeps DEF SameRows
  <1>3. CASE \E new \in {"active", "paused"} : SetConnectorStatus(new)
    <2>1. /\ UNCHANGED <<rec, row, known, mine, at, lastDoc, spc>>
          /\ status # "deleted"
      BY <1>3 DEF SetConnectorStatus, store, syncVars
    <2> QED BY <2>1, AroundKeeps DEF SameRows
  <1>4. CASE DeleteConnector
    <2>1. UNCHANGED <<mine, at, spc>> /\ status' = "deleted"
      BY <1>4 DEF DeleteConnector, syncVars
    <2> QED BY <2>1 DEF DocsInv, PlaceInv
  <1>5. ASSUME NEW t \in Tasks, TaskStep(t) \/ IngestFails(t)
        PROVE  DocsInv'
    <2>1. UNCHANGED <<rec, known, mine, at, lastDoc, status, spc>>
      BY <1>5 DEF TaskStep, Begin, Complete, CompleteWith, MarkFailed, IngestFails,
                  store, database, syncVars
    <2>2. SameRows
      BY <1>5, TaskTyped DEF SameRows
    <2> QED BY <2>1, <2>2, AroundKeeps
  <1> QED
    BY <1>1, <1>2, <1>3, <1>4, <1>5

LEMMA StepKeeps ==
    ASSUME TypeInv, TypeInv', DocsInv, [Next]_vars
    PROVE  DocsInv'
  <1>1. SessionOK /\ RestOK /\ SessionOK' /\ RestOK'
    BY TypeParts, TypePartsNext
  <1>2. CASE \/ \E i \in Items, v \in Versions : RemoteChange(i, v)
             \/ \E s \in Syncs : Beat(s) \/ TriggerSync(s)
             \/ \E new \in {"active", "paused"} : SetConnectorStatus(new)
             \/ DeleteConnector
             \/ \E t \in Tasks : TaskStep(t) \/ IngestFails(t)
    BY <1>1, <1>2, OthersKeep
  <1>3. ASSUME NEW s \in Syncs,
               \/ Load(s) \/ List(s) \/ Examine(s) \/ Fetch(s) \/ Flush(s)
               \/ CommitFails(s) \/ ListFails(s) \/ FetchFails(s) \/ SaveFails(s)
        PROVE  DocsInv'
    BY <1>1, <1>3, LoadKeeps, SyncMoves, FlushKeeps
  <1>4. ASSUME NEW s \in Syncs, (\E t \in Tasks : Save(s, t)) \/ Commit(s)
        PROVE  DocsInv'
    BY <1>1, <1>4, SaveKeeps, CommitKeeps
  <1>5. ASSUME NEW s \in Syncs, Fail(s)
        PROVE  DocsInv'
    <2>1. /\ Forget({s}, "idle") /\ UNCHANGED <<rec, row, lastDoc>>
          /\ status' # "deleted" => status # "deleted"
      BY <1>5 DEF Fail, store
    <2> QED BY <1>1, <2>1, ForgetKeeps
  <1>6. CASE WorkerCrash
    <2>1. /\ Forget(Active, "queued") /\ Active \in SUBSET Syncs
          /\ UNCHANGED <<rec, row, lastDoc, status>>
      BY <1>6 DEF WorkerCrash, Active, store, database
    <2> QED BY <1>1, <2>1, ForgetKeeps
  <1>7. CASE UNCHANGED vars
    <2>1. UNCHANGED <<rec, row, known, mine, at, lastDoc, status, spc>>
      BY <1>7 DEF vars, store, database, syncVars
    <2> QED BY <1>1, <2>1, AroundKeeps DEF SameRows
  <1> QED
    BY <1>2, <1>3, <1>4, <1>5, <1>6, <1>7 DEF Next, SyncStep, Failure

LEMMA InitDocs == Init => DocsInv
  <1> SUFFICES ASSUME Init PROVE DocsInv
    OBVIOUS
  <1>1. /\ \A i \in Items : rec[i] = NoRecord
        /\ \A d \in DocIds : row[d] = "none"
        /\ \A s \in Syncs, i \in Items : known[s][i] = NoRecord /\ mine[s][i] = NoRecord
    BY DEF Init, Fresh
  <1>2. RowsInv /\ KnownInv /\ NewInv /\ PlaceInv
    BY <1>1 DEF RowsInv, KnownInv, NewInv, PlaceInv
  <1>3. LockInv
    BY <1>1 DEF LockInv, Holds
  <1> QED
    BY <1>2, <1>3 DEF DocsInv

LEMMA DocsMeaning ==
    ASSUME TypeInv, DocsInv
    PROVE  OneDocumentPerItem
  <1> SUFFICES ASSUME status # "deleted"
               PROVE  /\ \A d \in DocIds : row[d] # "none" =>
                           Cardinality({i \in Items : rec[i].ref = d}) = 1
                      /\ \A i \in Items : rec[i] # NoRecord => row[rec[i].ref] # "none"
    BY DEF OneDocumentPerItem
  <1>1. RestOK /\ RowsInv
    BY TypeParts DEF DocsInv
  <1>2. ASSUME NEW d \in DocIds, row[d] # "none"
        PROVE  Cardinality({i \in Items : rec[i].ref = d}) = 1
    <2>1. PICK i \in Items : rec[i].ref = d
      BY <1>1, <1>2 DEF RowsInv
    <2>2. rec[i] # NoRecord
      BY <1>1, <2>1, RecRef
    <2>3. {j \in Items : rec[j].ref = d} = {i}
      BY <1>1, <2>1, <2>2 DEF RowsInv
    <2> QED BY <2>3, FS_Singleton
  <1> QED
    BY <1>1, <1>2 DEF RowsInv

\* Whatever syncs overlap, fail or are run again, and whatever else happens to
\* the connector, a committed documents row has exactly one record and every
\* record has its row (_run_sync and the UNIQUE constraint on its records).
THEOREM ItemsHaveOneDocument == Spec => []OneDocumentPerItem
  <1> DEFINE IInv == TypeInv /\ DocsInv
  <1>1. Init => IInv
    BY InitTyped, InitDocs
  <1>2. IInv /\ [Next]_vars => IInv'
    BY StepTyped, StepKeeps
  <1>3. IInv => OneDocumentPerItem
    BY DocsMeaning
  <1> QED
    BY <1>1, <1>2, <1>3, PTL DEF Spec

-----------------------------------------------------------------------------
(* Pauses *)

PauseStep ==
    status = "paused" /\ status' = "active" =>
      \/ UNCHANGED spc
      \/ \E s \in Syncs : loaded[s].status = "error" /\ spc'[s] = "idle"

LEMMA PauseKept ==
    ASSUME TypeInv, [Next]_vars
    PROVE  PauseStep
  <1>1. SessionOK
    BY TypeParts
  <1>2. CASE \E new \in {"active", "paused"} : SetConnectorStatus(new)
    BY <1>2 DEF SetConnectorStatus, syncVars, PauseStep
  <1>3. ASSUME NEW s \in Syncs, Commit(s)
        PROVE  PauseStep
    <2>1. status' = NewStatus(s) /\ spc'[s] = "idle"
      BY <1>3 DEF Commit, CommitRows, Forget
    <2>2. loaded[s].status \in {"active", "error"}
      BY <1>1 DEF SessionOK
    <2> QED BY <2>1, <2>2 DEF NewStatus, PauseStep
  <1>4. ASSUME NEW s \in Syncs,
               \/ Load(s) \/ List(s) \/ Examine(s) \/ Fetch(s) \/ Flush(s)
               \/ CommitFails(s) \/ ListFails(s) \/ FetchFails(s) \/ SaveFails(s)
               \/ Beat(s) \/ TriggerSync(s) \/ \E t \in Tasks : Save(s, t)
        PROVE  status' = status
    BY <1>4 DEF Load, List, Examine, SkipOrFetch, Fetch, Flush, FlushUnless, CommitFails,
                ListFails, FetchFails, SaveFails, Beat, TriggerSync, Enqueue, Save, database
  <1>5. ASSUME NEW t \in Tasks, TaskStep(t) \/ IngestFails(t)
        PROVE  status' = status
    BY <1>5 DEF TaskStep, Begin, Complete, CompleteWith, MarkFailed, IngestFails, database
  <1>6. CASE WorkerCrash \/ UNCHANGED vars \/ DeleteConnector
             \/ (\E i \in Items, v \in Versions : RemoteChange(i, v))
             \/ (\E s \in Syncs : Fail(s))
    BY <1>6 DEF WorkerCrash, vars, DeleteConnector, RemoteChange, Fail, database, PauseStep
  <1> QED
    BY <1>2, <1>3, <1>4, <1>5, <1>6 DEF Next, SyncStep, Failure, PauseStep

\* A sync that started while the connector was active never undoes a pause made
\* while it ran: the UPDATE at its end does not name the status (_run_sync).
THEOREM PausesHold == Spec => PauseHolds
  <1>1. Init => TypeInv
    BY InitTyped
  <1>2. TypeInv /\ [Next]_vars => TypeInv' /\ PauseStep
    BY StepTyped, PauseKept
  <1>3. PauseStep =>
          [status = "paused" /\ status' = "active" =>
             \/ UNCHANGED spc
             \/ \E s \in Syncs : loaded[s].status = "error" /\ spc'[s] = "idle"]_vars
    BY DEF PauseStep
  <1> QED
    BY <1>1, <1>2, <1>3, PTL DEF Spec, PauseHolds

-----------------------------------------------------------------------------
(* What a connector counts, while its syncs do not overlap *)

\* Syncs have not overlapped nor lost work, and the connector is there.
Alone == status # "deleted" /\ ~overlapped

\* Then one sync is active at most, and it knows the rows as they are.
LoneInv == Alone =>
    /\ \A s, x \in Active : s = x
    /\ \A s \in Active : loaded[s].total = total /\ known[s] = rec

\* A step that is not a sync's.
Outside ==
    /\ UNCHANGED <<total, rec, loaded, known, at, got, mine, overlapped>>
    /\ status' # "deleted" => status # "deleted"
    /\ \A s \in Syncs : spc'[s] = spc[s] \/ (spc[s] = "idle" /\ spc'[s] = "queued")

\* A step of a sync within its transaction.
Walk(s) ==
    \/ List(s) \/ Examine(s) \/ Fetch(s) \/ Flush(s) \/ CommitFails(s)
    \/ ListFails(s) \/ FetchFails(s) \/ SaveFails(s) \/ \E t \in Tasks : Save(s, t)

\* Syncs end without committing: an error, a restart, a paused connector.
Ends(S) ==
    /\ S \in SUBSET Syncs
    /\ Forget(S, "idle") \/ Forget(S, "queued")
    /\ UNCHANGED <<total, rec, remote, changes>>
    /\ status' # "deleted" => status # "deleted"
    /\ ~overlapped' => ~overlapped /\ \A s \in S : Written(s) = {}

LEMMA OutsideSteps ==
    ASSUME SessionOK,
           \/ \E i \in Items, v \in Versions : RemoteChange(i, v)
           \/ \E s \in Syncs : Beat(s) \/ TriggerSync(s)
           \/ \E new \in {"active", "paused"} : SetConnectorStatus(new)
           \/ \E t \in Tasks : TaskStep(t) \/ IngestFails(t)
           \/ UNCHANGED vars
    PROVE  Outside
  <1>1. CASE \E i \in Items, v \in Versions : RemoteChange(i, v)
    BY <1>1 DEF RemoteChange, database, syncVars, Outside
  <1>2. CASE \E s \in Syncs : Beat(s) \/ TriggerSync(s)
    BY <1>2 DEF Beat, TriggerSync, Enqueue, database, Outside, SessionOK
  <1>3. CASE \E new \in {"active", "paused"} : SetConnectorStatus(new)
    BY <1>3 DEF SetConnectorStatus, syncVars, Outside
  <1>4. CASE \E t \in Tasks : TaskStep(t) \/ IngestFails(t)
    BY <1>4 DEF TaskStep, Begin, Complete, CompleteWith, MarkFailed, IngestFails,
                database, syncVars, Outside
  <1>5. CASE UNCHANGED vars
    BY <1>5 DEF vars, database, syncVars, Outside
  <1> QED
    BY <1>1, <1>2, <1>3, <1>4, <1>5

LEMMA OutsideActive ==
    ASSUME Outside
    PROVE  Active' = Active
  BY DEF Outside, Active

LEMMA WalkFrame ==
    ASSUME SessionOK, NEW s \in Syncs, Walk(s)
    PROVE  /\ s \in Active /\ Active' = Active
           /\ UNCHANGED <<total, rec, row, loaded, status, remote, changes>>
           /\ ~overlapped' => ~overlapped
           /\ \A x \in Syncs \ {s} : /\ spc'[x] = spc[x] /\ at'[x] = at[x]
                                     /\ got'[x] = got[x] /\ mine'[x] = mine[x]
                                     /\ known'[x] = known[x]
           /\ known[s] = rec => known'[s] = rec
  <1>1. CASE List(s) \/ ListFails(s) \/ CommitFails(s) \/ FetchFails(s)
    <2>1. /\ UNCHANGED <<total, rec, row, loaded, status, remote, changes, got, mine,
                         known, overlapped>>
          /\ spc[s] \in {"listing", "scanning", "fetching"}
          /\ spc'[s] \in {"scanning", "failing"}
          /\ \A x \in Syncs \ {s} : spc'[x] = spc[x] /\ at'[x] = at[x]
      BY <1>1 DEF List, ListFails, CommitFails, FetchFails, store, database, SessionOK
    <2> QED BY <2>1 DEF Active
  <1>2. CASE Examine(s)
    <2>1. /\ UNCHANGED <<total, rec, row, loaded, status, remote, changes, got, mine,
                         overlapped>>
          /\ spc[s] = "scanning" /\ spc'[s] \in {"scanning", "fetching"}
          /\ \A x \in Syncs \ {s} : spc'[x] = spc[x] /\ at'[x] = at[x]
          /\ known' = [known EXCEPT ![s][at[s]] = Seen(s, at[s])]
      BY <1>2 DEF Examine, SkipOrFetch, store, database, SessionOK
    <2>2. known[s] = rec => Seen(s, at[s]) = known[s][at[s]]
      BY DEF Seen
    <2>3. known \in [Syncs -> [Items -> RecordType]]
      BY DEF SessionOK
    <2>4. known[s] = rec => known'[s] = rec
      BY <2>1, <2>2, <2>3
    <2> QED BY <2>1, <2>3, <2>4 DEF Active
  <1>3. CASE Fetch(s) \/ Flush(s)
    <2>1. /\ UNCHANGED <<total, rec, row, loaded, status, remote, changes, mine,
                         known, overlapped>>
          /\ spc[s] \in {"fetching", "flushing"}
          /\ spc'[s] \in {"scanning", "saving", "failing"}
          /\ \A x \in Syncs \ {s} :
               spc'[x] = spc[x] /\ at'[x] = at[x] /\ got'[x] = got[x]
      BY <1>3 DEF Fetch, Flush, FlushUnless, store, database, SessionOK
    <2> QED BY <2>1 DEF Active
  <1>4. CASE \E t \in Tasks : Save(s, t)
    <2>1. /\ UNCHANGED <<total, rec, row, loaded, status, remote, changes, at, known>>
          /\ ~overlapped' => ~overlapped
          /\ spc[s] = "saving" /\ spc' = [spc EXCEPT ![s] = "flushing"]
          /\ got' = [got EXCEPT ![s] = NoVersion]
          /\ \A x \in Syncs \ {s} : mine'[x] = mine[x]
      BY <1>4 DEF Save, database, SessionOK
    <2> QED BY <2>1 DEF Active, SessionOK
  <1>5. CASE SaveFails(s)
    <2>1. /\ UNCHANGED <<total, rec, row, loaded, status, remote, changes, at, known, mine>>
          /\ ~overlapped' => ~overlapped
          /\ spc[s] = "saving" /\ spc' = [spc EXCEPT ![s] = "failing"]
          /\ got' = [got EXCEPT ![s] = NoVersion]
      BY <1>5 DEF SaveFails, database, SessionOK
    <2> QED BY <2>1 DEF Active, SessionOK
  <1> QED
    BY <1>1, <1>2, <1>3, <1>4, <1>5 DEF Walk

LEMMA EndSteps ==
    ASSUME DocsInv,
           \/ WorkerCrash
           \/ \E s \in Syncs :
                Fail(s) \/ (Load(s) /\ status \in {"deleted", "paused"})
    PROVE  \E S \in SUBSET Syncs : Ends(S)
  <1>1. ASSUME NEW s \in Syncs, Fail(s)
        PROVE  Ends({s})
    BY <1>1 DEF Fail, Ends, store
  <1>2. CASE WorkerCrash
    <2>1. Ends(Active)
      BY <1>2 DEF WorkerCrash, Ends, store, database, Active
    <2> QED BY <2>1 DEF Ends
  <1>3. ASSUME NEW s \in Syncs, Load(s), status \in {"deleted", "paused"}
        PROVE  Ends({s})
    <2>1. Written(s) = {}
      BY <1>3 DEF Load, DocsInv, PlaceInv, Written
    <2> QED BY <1>3, <2>1 DEF Load, Ends, store, database
  <1> QED
    BY <1>1, <1>2, <1>3 DEF Ends

LEMMA EndFrame ==
    ASSUME NEW S, Ends(S)
    PROVE  /\ Active' = Active \ S
           /\ \A x \in Syncs \ S : /\ spc'[x] = spc[x] /\ at'[x] = at[x]
                                   /\ got'[x] = got[x] /\ mine'[x] = mine[x]
                                   /\ known'[x] = known[x] /\ loaded'[x] = loaded[x]
           /\ \A x \in S : mine'[x] = Fresh /\ spc'[x] \in {"idle", "queued"}
  BY DEF Ends, Forget, Active

\* A sync that is let in is alone, or the syncs have overlapped.
LEMMA Loads ==
    ASSUME SessionOK, NEW s \in Syncs, Load(s), status \notin {"deleted", "paused"}
    PROVE  /\ s \notin Active /\ Active' = Active \cup {s}
           /\ UNCHANGED <<store, database, task, changes, faults, at, got, mine>>
           /\ ~overlapped' => ~overlapped /\ Active = {}
           /\ loaded'[s].total = total /\ known'[s] = rec
           /\ spc' = [spc EXCEPT ![s] = "listing"] /\ spc[s] = "queued"
  <1>1. /\ spc' = [spc EXCEPT ![s] = "listing"] /\ spc[s] = "queued"
        /\ loaded' = [loaded EXCEPT ![s] = [status |-> status, total |-> total]]
        /\ known' = [known EXCEPT ![s] = rec]
        /\ overlapped' = (overlapped \/ Active # {})
        /\ UNCHANGED <<store, database, task, changes, faults, at, got, mine>>
    BY DEF Load
  <1>2. loaded'[s].total = total /\ known'[s] = rec
    BY <1>1 DEF SessionOK
  <1>3. s \notin Active /\ Active' = Active \cup {s}
    BY <1>1 DEF SessionOK, Active
  <1> QED
    BY <1>1, <1>2, <1>3

LEMMA CommitFrame ==
    ASSUME NEW s \in Syncs, Commit(s)
    PROVE  /\ s \in Active /\ spc[s] = "scanning" /\ at[s] \notin Items
           /\ status # "deleted" /\ Forget({s}, "idle")
           /\ Active' = Active \ {s}
           /\ UNCHANGED <<store, task, changes, faults, overlapped>>
           /\ rec' = [i \in Items |-> IF i \in Written(s) THEN mine[s][i] ELSE rec[i]]
           /\ row' = NewRows(s) /\ total' = NewTotal(s)
  BY DEF Commit, CommitRows, Forget, Active

LEMMA LoneStep ==
    ASSUME TypeInv, DocsInv, LoneInv, [Next]_vars
    PROVE  LoneInv'
  <1>0. SessionOK
    BY TypeParts
  <1> SUFFICES ASSUME Alone'
               PROVE  /\ \A s, x \in Active' : s = x
                      /\ \A s \in Active' : loaded'[s].total = total' /\ known'[s] = rec'
    BY DEF LoneInv
  <1>1. CASE Outside
    <2>1. Alone
      BY <1>1 DEF Outside, Alone
    <2> QED BY <1>1, <2>1, OutsideActive DEF Outside, LoneInv
  <1>2. ASSUME NEW s \in Syncs, Walk(s)
        PROVE  /\ \A x, y \in Active' : x = y
               /\ \A x \in Active' : loaded'[x].total = total' /\ known'[x] = rec'
    <2>1. /\ s \in Active /\ Active' = Active
          /\ UNCHANGED <<total, rec, loaded, status>>
          /\ ~overlapped' => ~overlapped
          /\ known[s] = rec => known'[s] = rec
      BY <1>0, <1>2, WalkFrame
    <2>2. Alone
      BY <2>1 DEF Alone
    <2> QED BY <2>1, <2>2 DEF LoneInv
  <1>3. CASE \E S \in SUBSET Syncs : Ends(S)
    <2>1. PICK S \in SUBSET Syncs : Ends(S)
      BY <1>3
    <2>2. Alone /\ UNCHANGED <<total, rec>> /\ Active \subseteq Syncs
      BY <2>1 DEF Ends, Alone, Active
    <2> QED BY <2>1, <2>2, EndFrame DEF LoneInv
  <1>4. ASSUME NEW s \in Syncs, Load(s), status \notin {"deleted", "paused"}
        PROVE  /\ \A x, y \in Active' : x = y
               /\ \A x \in Active' : loaded'[x].total = total' /\ known'[x] = rec'
    <2>1. /\ Active' = Active \cup {s} /\ UNCHANGED database
          /\ ~overlapped' => Active = {}
          /\ loaded'[s].total = total /\ known'[s] = rec
      BY <1>0, <1>4, Loads
    <2> QED BY <2>1 DEF Alone, database
  <1>5. ASSUME NEW s \in Syncs, Commit(s)
        PROVE  /\ \A x, y \in Active' : x = y
               /\ \A x \in Active' : loaded'[x].total = total' /\ known'[x] = rec'
    <2>1. s \in Active /\ Active' = Active \ {s} /\ Alone
      BY <1>5, CommitFrame DEF Alone
    <2> QED BY <2>1 DEF LoneInv
  <1>6. CASE DeleteConnector
    BY <1>6 DEF DeleteConnector, Alone
  <1> QED
    BY <1>0, <1>1, <1>2, <1>3, <1>4, <1>5, <1>6, OutsideSteps, EndSteps
    DEF Next, SyncStep, Failure, Walk

\* The record of item i as it would be if s committed now,
Now(s, i) == IF mine[s][i] # NoRecord THEN mine[s][i] ELSE rec[i]

\* the items s has taken up, and the content of each as s will record it.
InHand(s, i) == spc[s] = "saving" /\ i = at[s]
Taken(s) == {i \in Items : mine[s][i] # NoRecord \/ InHand(s, i)}
HashAt(s, i) == IF InHand(s, i) THEN got[s] ELSE Now(s, i).hash

\* The items that will still be behind the source then: each of them, and
\* each change at the source, allows for one more document to be counted.
Behind(s) == {i \in Items : HashAt(s, i) # remote[i]}
Balance(s) ==
    total + Cardinality(Taken(s)) + Cardinality(Behind(s)) <= NumItems + changes

TotalInv == Alone =>
    /\ Cardinality({i \in Items : rec[i] # NoRecord}) <= total
    /\ total <= NumItems + changes
    /\ \A s \in Syncs : Balance(s)

LEMMA ItemSets ==
    /\ IsFiniteSet(Items) /\ Cardinality(Items) = NumItems
    /\ \A T \in SUBSET Items : /\ IsFiniteSet(T) /\ Cardinality(T) \in Nat
                               /\ Cardinality(T) <= NumItems
  <1>1. IsFiniteSet(Items) /\ Cardinality(Items) = NumItems
    BY FS_Interval, SyncAssumption DEF Items
  <1>2. ASSUME NEW T \in SUBSET Items
        PROVE  /\ IsFiniteSet(T) /\ Cardinality(T) \in Nat
               /\ Cardinality(T) <= NumItems
    BY <1>1, FS_Subset, FS_CardinalityType
  <1> QED
    BY <1>1, <1>2

LEMMA OneMore ==
    ASSUME NEW T \in SUBSET Items, NEW U \in SUBSET Items, NEW i \in Items,
           U \subseteq T \cup {i}
    PROVE  Cardinality(U) <= Cardinality(T) + 1
  <1>1. /\ IsFiniteSet(T \cup {i}) /\ Cardinality(U) <= Cardinality(T \cup {i})
    BY ItemSets, FS_Subset
  <1>2. Cardinality(T \cup {i}) \in {Cardinality(T), Cardinality(T) + 1}
    BY ItemSets, FS_AddElement
  <1> QED
    BY <1>1, <1>2, ItemSets

LEMMA BalanceType ==
    ASSUME RestOK, NEW s \in Syncs
    PROVE  /\ total \in Nat /\ changes \in Nat /\ NumItems \in Nat
           /\ Taken(s) \in SUBSET Items /\ Behind(s) \in SUBSET Items
           /\ Cardinality(Taken(s)) \in Nat /\ Cardinality(Behind(s)) \in Nat
  BY ItemSets, SyncAssumption DEF RestOK, Taken, Behind

\* What leaves a sync's records and the source alone leaves its balance alone.
LEMMA SameBalance ==
    ASSUME NEW x \in Syncs, Balance(x), mine'[x] = mine[x],
           UNCHANGED <<rec, total, remote, changes>>,
           \/ spc[x] # "saving" /\ spc'[x] # "saving"
           \/ spc'[x] = spc[x] /\ at'[x] = at[x] /\ got'[x] = got[x]
    PROVE  Balance(x)'
  <1>1. \A i \in Items : InHand(x, i)' <=> InHand(x, i)
    BY DEF InHand
  <1>2. \A i \in Items : /\ Now(x, i)' = Now(x, i)
                         /\ InHand(x, i) => got'[x] = got[x]
    BY DEF Now, InHand
  <1>3. Taken(x)' = Taken(x) /\ Behind(x)' = Behind(x)
    BY <1>1, <1>2 DEF Taken, Behind, HashAt
  <1> QED
    BY <1>3 DEF Balance

\* A change at the source leaves one more item behind at most.
LEMMA ChangeBalance ==
    ASSUME RestOK, RestOK', NEW x \in Syncs, Balance(x),
           NEW i \in Items, NEW v \in Versions, RemoteChange(i, v)
    PROVE  Balance(x)'
  <1>1. /\ UNCHANGED <<rec, total, spc, at, got, mine>>
        /\ changes' = changes + 1
        /\ \A j \in Items \ {i} : remote'[j] = remote[j]
    BY DEF RemoteChange, database, syncVars, RestOK
  <1>2. /\ Taken(x)' = Taken(x)
        /\ \A j \in Items : HashAt(x, j)' = HashAt(x, j)
    BY <1>1 DEF Taken, InHand, HashAt, Now
  <1>3. Behind(x)' \subseteq Behind(x) \cup {i} /\ Behind(x)' \subseteq Items
    BY <1>1, <1>2 DEF Behind
  <1>4. Cardinality(Behind(x)') <= Cardinality(Behind(x)) + 1
    BY <1>3, BalanceType, OneMore
  <1>5. Cardinality(Behind(x)') \in Nat /\ Behind(x)' = (Behind(x))'
    BY <1>3, ItemSets
  <1>6. /\ total' = total /\ changes' = changes + 1
        /\ Cardinality(Taken(x)) \in Nat /\ Cardinality(Behind(x)) \in Nat
        /\ total \in Nat /\ changes \in Nat /\ NumItems \in Nat
    BY <1>1, BalanceType
  <1> QED
    BY <1>2, <1>4, <1>5, <1>6 DEF Balance

\* A sync that takes up an item to save was behind the source there.
LEMMA FetchBalance ==
    ASSUME SessionOK, RestOK, DocsInv, NEW s \in Syncs, Balance(s), Fetch(s),
           known[s] = rec
    PROVE  Balance(s)'
  <1>0. PICK i \in Items : i = at[s]
    BY DEF Fetch, SessionOK, AtInv
  <1>1. /\ spc[s] = "fetching" /\ at[s] = i
        /\ UNCHANGED <<rec, total, remote, changes, mine>>
    BY <1>0 DEF Fetch, store, database, SessionOK
  <1>2. CASE known[s][i].hash = remote[i]
    <2>1. spc'[s] = "scanning"
      BY <1>1, <1>2 DEF Fetch, SessionOK
    <2> QED BY <1>1, <2>1, SameBalance
  <1>3. CASE known[s][i].hash # remote[i]
    <2>1. spc'[s] = "saving" /\ got'[s] = remote[i] /\ at'[s] = i
      BY <1>1, <1>3 DEF Fetch, SessionOK
    <2>2. mine[s][i] = NoRecord
      <3>1. ~(i < i)
        BY AtItems
      <3> QED BY <1>1, <3>1 DEF DocsInv, PlaceInv
    <2>3. /\ \A j \in Items : ~InHand(s, j)
          /\ \A j \in Items : InHand(s, j)' <=> j = i
          /\ \A j \in Items : Now(s, j)' = Now(s, j)
      BY <1>1, <2>1 DEF InHand, Now
    <2>4. i \notin Taken(s) /\ Taken(s)' = Taken(s) \cup {i}
      BY <1>1, <2>2, <2>3 DEF Taken
    <2>5. i \in Behind(s) /\ Behind(s)' = Behind(s) \ {i}
      <3>1. HashAt(s, i) = rec[i].hash
        BY <1>1, <2>2, <2>3 DEF HashAt, Now
      <3>2. HashAt(s, i)' = remote[i]
        BY <1>1, <2>1, <2>3 DEF HashAt
      <3>3. \A j \in Items \ {i} : HashAt(s, j)' = HashAt(s, j)
        BY <2>3 DEF HashAt
      <3>4. i \in Behind(s) /\ i \notin Behind(s)'
        BY <1>1, <1>3, <3>1, <3>2 DEF Behind
      <3>5. \A j \in Items \ {i} : j \in Behind(s)' <=> j \in Behind(s)
        BY <1>1, <3>3 DEF Behind
      <3>6. Behind(s) \subseteq Items /\ Behind(s)' \subseteq Items
        BY DEF Behind
      <3> QED BY <3>4, <3>5, <3>6
    <2>6. /\ IsFiniteSet(Taken(s)) /\ IsFiniteSet(Behind(s))
      BY BalanceType, ItemSets
    <2>7. /\ Cardinality(Taken(s) \cup {i}) = Cardinality(Taken(s)) + 1
          /\ Cardinality(Behind(s) \ {i}) = Cardinality(Behind(s)) - 1
      BY <2>4, <2>5, <2>6, FS_AddElement, FS_RemoveElement
    <2> QED
      BY <1>1, <2>4, <2>5, <2>7, BalanceType DEF Balance
  <1> QED
    BY <1>2, <1>3

\* Saving an item records what was in hand.
LEMMA SaveBalance ==
    ASSUME SessionOK, DocsInv, NEW s \in Syncs, NEW t \in Tasks, Balance(s), Save(s, t)
    PROVE  Balance(s)'
  <1>0. PICK i \in Items : i = at[s]
    BY DEF Save, SessionOK, AtInv
  <1>1. /\ spc[s] = "saving" /\ at[s] = i /\ spc'[s] = "flushing"
        /\ UNCHANGED <<rec, total, remote, changes>>
        /\ got[s] \in Versions
    BY <1>0 DEF Save, database, SessionOK, AtInv
  <1>2. PICK d : mine' = [mine EXCEPT ![s][i] = [hash |-> got[s], ref |-> d]]
    BY <1>0 DEF Save
  <1>3. /\ mine'[s][i] = [hash |-> got[s], ref |-> d]
        /\ \A j \in Items \ {i} : mine'[s][j] = mine[s][j]
    BY <1>1, <1>2 DEF SessionOK
  <1>4. mine'[s][i] # NoRecord /\ mine'[s][i].hash = got[s]
    BY <1>1, <1>3, SyncAssumption DEF NoRecord
  <1>5. /\ \A j \in Items : InHand(s, j) <=> j = i
        /\ \A j \in Items : ~InHand(s, j)'
    BY <1>1 DEF InHand
  <1>6. Taken(s)' = Taken(s)
    BY <1>3, <1>4, <1>5 DEF Taken
  <1>7. \A j \in Items : HashAt(s, j)' = HashAt(s, j)
    BY <1>1, <1>3, <1>4, <1>5 DEF HashAt, Now
  <1>8. Behind(s)' = Behind(s)
    BY <1>1, <1>7 DEF Behind
  <1> QED
    BY <1>1, <1>6, <1>8 DEF Balance

\* An item that could not be saved is not taken up, and may be behind again.
LEMMA SaveFailsBalance ==
    ASSUME SessionOK, RestOK, NEW s \in Syncs, Balance(s), DocsInv, SaveFails(s)
    PROVE  Balance(s)'
  <1>0. PICK i \in Items : i = at[s]
    BY DEF SaveFails, SessionOK, AtInv
  <1>1. /\ spc[s] = "saving" /\ at[s] = i /\ spc'[s] = "failing"
        /\ UNCHANGED <<rec, total, remote, changes, mine>>
    BY <1>0 DEF SaveFails, database, SessionOK
  <1>2. mine[s][i] = NoRecord
    <2>1. ~(i < i)
      BY <1>0, AtItems
    <2> QED BY <1>1, <2>1 DEF DocsInv, PlaceInv
  <1>3. /\ \A j \in Items : InHand(s, j) <=> j = i
        /\ \A j \in Items : ~InHand(s, j)'
    BY <1>1 DEF InHand
  <1>4. /\ i \in Taken(s) /\ Taken(s)' = Taken(s) \ {i}
    BY <1>1, <1>2, <1>3 DEF Taken
  <1>5. /\ Behind(s)' \subseteq Behind(s) \cup {i}
        /\ Behind(s)' \subseteq Items
    BY <1>1, <1>3 DEF Behind, HashAt, Now
  <1>6. Cardinality(Behind(s)') <= Cardinality(Behind(s)) + 1
    <2>1. Behind(s) \in SUBSET Items
      BY DEF Behind
    <2> QED BY <1>5, <2>1, OneMore
  <1>7. Cardinality(Taken(s)') = Cardinality(Taken(s)) - 1
    <2>1. IsFiniteSet(Taken(s))
      BY BalanceType, ItemSets
    <2> QED BY <1>4, <2>1, FS_RemoveElement
  <1>8. Cardinality(Behind(s)') \in Nat
    BY <1>5, ItemSets
  <1> QED
    BY <1>1, <1>6, <1>7, <1>8, BalanceType DEF Balance

\* A sync that ends takes up nothing any more; what it had in hand may be
\* behind the source again.
LEMMA EndBalance ==
    ASSUME RestOK, RestOK', NEW S \in SUBSET Syncs, Ends(S),
           NEW x \in Syncs, Balance(x)
    PROVE  Balance(x)'
  <1>1. UNCHANGED <<rec, total, remote, changes>>
    BY DEF Ends
  <1>2. CASE x \notin S
    <2>1. mine'[x] = mine[x] /\ spc'[x] = spc[x] /\ at'[x] = at[x] /\ got'[x] = got[x]
      BY <1>2, EndFrame
    <2> QED BY <1>1, <2>1, SameBalance
  <1>3. CASE x \in S
    <2>1. mine'[x] = Fresh /\ spc'[x] \in {"idle", "queued"}
      BY <1>3, EndFrame
    <2>2. /\ \A i \in Items : ~InHand(x, i)'
          /\ \A i \in Items : mine'[x][i] = NoRecord
      BY <2>1 DEF InHand, Fresh
    <2>3. /\ Taken(x)' = {}
          /\ \A i \in Items : HashAt(x, i)' = rec[i].hash
      BY <1>1, <2>2 DEF Taken, HashAt, Now
    <2>4. Behind(x)' \subseteq Taken(x) \cup Behind(x)
      <3>1. \A i \in Items : i \notin Taken(x) => HashAt(x, i) = rec[i].hash
        BY DEF Taken, HashAt, Now
      <3> QED BY <1>1, <2>3, <3>1 DEF Behind
    <2>5. Cardinality(Behind(x)') <= Cardinality(Taken(x)) + Cardinality(Behind(x))
      <3>1. /\ IsFiniteSet(Taken(x)) /\ IsFiniteSet(Behind(x))
            /\ IsFiniteSet(Taken(x) \cup Behind(x))
            /\ Cardinality(Taken(x) \cup Behind(x)) \in Nat
            /\ Cardinality(Taken(x) \cap Behind(x)) \in Nat
        BY BalanceType, ItemSets
      <3>2. Cardinality(Taken(x) \cup Behind(x))
              = Cardinality(Taken(x)) + Cardinality(Behind(x))
                  - Cardinality(Taken(x) \cap Behind(x))
        BY <3>1, FS_Union
      <3>3. Cardinality(Behind(x)') <= Cardinality(Taken(x) \cup Behind(x))
        BY <2>4, <3>1, FS_Subset
      <3>4. Cardinality(Behind(x)') \in Nat
        BY ItemSets DEF Behind
      <3> QED BY <3>1, <3>2, <3>3, <3>4, BalanceType
    <2>6. Cardinality(Taken(x)') = 0 /\ Cardinality(Behind(x)') \in Nat
      BY <2>3, FS_EmptySet, ItemSets DEF Behind
    <2> QED
      BY <1>1, <2>5, <2>6, BalanceType DEF Balance
  <1> QED
    BY <1>2, <1>3

\* A commit counts what was written, and behind the source afterwards is what
\* the sync was going to leave behind.
LEMMA CommitTotals ==
    ASSUME SessionOK, RestOK, DocsInv, LoneInv, TotalInv, NEW s \in Syncs, Commit(s),
           Alone
    PROVE  /\ Cardinality({i \in Items : rec'[i] # NoRecord}) <= total'
           /\ total' <= NumItems + changes'
           /\ \A x \in Syncs : Balance(x)'
  <1>1. /\ s \in Active /\ spc[s] = "scanning" /\ Forget({s}, "idle")
        /\ UNCHANGED <<remote, changes>>
        /\ rec' = [i \in Items |-> IF i \in Written(s) THEN mine[s][i] ELSE rec[i]]
        /\ total' = NewTotal(s)
    BY CommitFrame DEF store
  <1>2. loaded[s].total = total /\ \A x \in Syncs \ {s} : x \notin Active
    BY <1>1 DEF LoneInv
  <1>3. Written(s) \in SUBSET Items /\ Cardinality(Written(s)) \in Nat
    BY ItemSets DEF Written
  <1>4. total' = total + Cardinality(Written(s))
    <2>1. CASE Written(s) = {}
      <3>1. total' = total /\ Cardinality(Written(s)) = 0 /\ total \in Nat
        BY <1>1, <2>1, FS_EmptySet DEF NewTotal, RestOK
      <3> QED BY <3>1
    <2>2. CASE Written(s) # {}
      BY <1>1, <1>2, <2>2 DEF NewTotal
    <2> QED BY <2>1, <2>2
  <1>5. Taken(s) = Written(s) /\ \A i \in Items : HashAt(s, i) = Now(s, i).hash
    BY <1>1 DEF Taken, InHand, Written, HashAt
  <1>6. \A i \in Items : rec'[i] = Now(s, i)
    BY <1>1 DEF Written, Now
  <1>7. ASSUME NEW x \in Syncs
        PROVE  Taken(x)' = {} /\ Behind(x)' = Behind(s)
    <2>1. /\ spc'[x] \in {"idle", "queued"}
          /\ \A i \in Items : mine'[x][i] = NoRecord
      <3>1. CASE x = s
        BY <1>1, <3>1 DEF Forget, Fresh
      <3>2. CASE x # s
        BY <1>1, <1>2, <3>2 DEF Forget, Active, DocsInv, PlaceInv
      <3> QED BY <3>1, <3>2
    <2>2. \A i \in Items : ~InHand(x, i)'
      BY <2>1 DEF InHand
    <2>3. \A i \in Items : HashAt(x, i)' = HashAt(s, i)
      BY <1>5, <1>6, <2>1, <2>2 DEF HashAt, Now
    <2> QED
      BY <1>1, <2>1, <2>2, <2>3 DEF Taken, Behind
  <1>8. ASSUME NEW x \in Syncs
        PROVE  Balance(x)'
    <2>1. Cardinality(Taken(x)') = 0 /\ Behind(x)' = Behind(s) /\ Balance(s)
      BY <1>7, FS_EmptySet DEF TotalInv
    <2> QED
      BY <1>1, <1>3, <1>4, <1>5, <2>1, BalanceType DEF Balance
  <1>9. total' <= NumItems + changes'
    <2>1. Balance(s)
      BY DEF TotalInv
    <2> QED
      BY <1>1, <1>3, <1>4, <1>5, <2>1, BalanceType DEF Balance
  <1>10. Cardinality({i \in Items : rec'[i] # NoRecord}) <= total'
    <2> DEFINE Old == {i \in Items : rec[i] # NoRecord}
               New == {i \in Items : rec'[i] # NoRecord}
    <2>1. New \subseteq Old \cup Written(s)
      BY <1>1
    <2>2. /\ IsFiniteSet(Old) /\ IsFiniteSet(Written(s))
          /\ IsFiniteSet(Old \cup Written(s))
          /\ Cardinality(Old \cup Written(s)) \in Nat /\ Cardinality(New) \in Nat
          /\ Cardinality(Old \cap Written(s)) \in Nat /\ Cardinality(Old) \in Nat
      BY <1>3, ItemSets
    <2>3. Cardinality(Old) <= total
      BY DEF TotalInv
    <2> HIDE DEF Old, New
    <2>4. Cardinality(Old \cup Written(s)) =
            Cardinality(Old) + Cardinality(Written(s)) - Cardinality(Old \cap Written(s))
      BY <2>2, FS_Union
    <2>5. Cardinality(New) <= Cardinality(Old \cup Written(s))
      BY <2>1, <2>2, FS_Subset
    <2>6. Cardinality(New) <= total'
      BY <1>3, <1>4, <2>2, <2>3, <2>4, <2>5 DEF RestOK
    <2> QED BY <2>6 DEF New
  <1> QED
    BY <1>8, <1>9, <1>10

\* The other steps leave rec and total alone, so that balances are enough.
LEMMA OnlyBalances ==
    ASSUME RestOK, TotalInv, Alone, UNCHANGED <<rec, total>>,
           changes' \in {changes, changes + 1},
           \A x \in Syncs : Balance(x)'
    PROVE  TotalInv'
  <1>1. /\ Cardinality({i \in Items : rec[i] # NoRecord}) <= total
        /\ total <= NumItems + changes
    BY DEF TotalInv
  <1>2. {i \in Items : rec'[i] # NoRecord} = {i \in Items : rec[i] # NoRecord}
    OBVIOUS
  <1>3. total' <= NumItems + changes'
    <2>1. total \in Nat /\ changes \in Nat /\ NumItems \in Nat /\ total' = total
      BY SyncAssumption DEF RestOK
    <2>2. \A c \in {changes, changes + 1} : total <= NumItems + c
      BY <1>1, <2>1
    <2> QED BY <2>1, <2>2
  <1> QED
    BY <1>1, <1>2, <1>3 DEF TotalInv

LEMMA TotalStep ==
    ASSUME TypeInv, TypeInv', DocsInv, LoneInv, TotalInv, [Next]_vars
    PROVE  TotalInv'
  <1>0. SessionOK /\ RestOK /\ RestOK'
    BY TypeParts, TypePartsNext
  <1> SUFFICES ASSUME Alone'
               PROVE  TotalInv'
    BY DEF TotalInv
  <1>1. CASE \E i \in Items, v \in Versions : RemoteChange(i, v)
    <2>1. PICK i \in Items, v \in Versions : RemoteChange(i, v)
      BY <1>1
    <2>2. UNCHANGED <<rec, total, status, overlapped>> /\ changes' = changes + 1
      BY <2>1 DEF RemoteChange, database
    <2>3. Alone
      BY <2>2 DEF Alone
    <2>4. \A x \in Syncs : Balance(x)'
      BY <1>0, <2>1, <2>3, ChangeBalance DEF TotalInv
    <2> QED BY <1>0, <2>2, <2>3, <2>4, OnlyBalances
  <1>2. CASE \/ \E s \in Syncs : Beat(s) \/ TriggerSync(s)
             \/ \E new \in {"active", "paused"} : SetConnectorStatus(new)
             \/ \E t \in Tasks : TaskStep(t) \/ IngestFails(t)
             \/ UNCHANGED vars
    <2>1. Outside
      BY <1>0, <1>2, OutsideSteps
    <2>2. UNCHANGED <<remote, changes>>
      BY <1>2 DEF Beat, TriggerSync, Enqueue, SetConnectorStatus, TaskStep, Begin,
                  Complete, CompleteWith, MarkFailed, IngestFails, vars, store
    <2>3. /\ Alone /\ UNCHANGED <<rec, total, at, got, mine>>
          /\ \A x \in Syncs : spc'[x] = spc[x] \/ (spc[x] = "idle" /\ spc'[x] = "queued")
      BY <2>1 DEF Outside, Alone
    <2>4. ASSUME NEW x \in Syncs PROVE Balance(x)'
      <3>1. Balance(x) /\ mine'[x] = mine[x] /\ at'[x] = at[x] /\ got'[x] = got[x]
        BY <2>3 DEF TotalInv
      <3> QED BY <2>2, <2>3, <3>1, SameBalance
    <2> QED BY <1>0, <2>2, <2>3, <2>4, OnlyBalances
  <1>3. ASSUME NEW s \in Syncs, Walk(s)
        PROVE  TotalInv'
    <2>1. /\ s \in Active
          /\ UNCHANGED <<total, rec, status, remote, changes>>
          /\ ~overlapped' => ~overlapped
          /\ \A x \in Syncs \ {s} : /\ spc'[x] = spc[x] /\ at'[x] = at[x]
                                    /\ got'[x] = got[x] /\ mine'[x] = mine[x]
      BY <1>0, <1>3, WalkFrame
    <2>2. Alone
      BY <2>1 DEF Alone
    <2>3. \A x \in Syncs : Balance(x)
      BY <2>2 DEF TotalInv
    <2>4. ASSUME NEW x \in Syncs \ {s} PROVE Balance(x)'
      BY <2>1, <2>3, <2>4, SameBalance
    <2>5. CASE Fetch(s)
      <3>1. known[s] = rec
        BY <2>1, <2>2 DEF LoneInv
      <3> QED
        BY <1>0, <2>1, <2>2, <2>3, <2>4, <2>5, <3>1, FetchBalance, OnlyBalances
    <2>8. CASE SaveFails(s)
      <3>1. Balance(s)'
        BY <1>0, <2>3, <2>8, SaveFailsBalance
      <3> QED BY <1>0, <2>1, <2>2, <2>4, <3>1, OnlyBalances
    <2>6. CASE \E t \in Tasks : Save(s, t)
      BY <1>0, <2>1, <2>2, <2>3, <2>4, <2>6, SaveBalance, OnlyBalances
    <2>7. CASE \/ List(s) \/ Examine(s) \/ Flush(s) \/ CommitFails(s)
               \/ ListFails(s) \/ FetchFails(s)
      <3>1. spc[s] # "saving" /\ spc'[s] # "saving" /\ mine'[s] = mine[s]
        BY <1>0, <2>7 DEF List, Examine, SkipOrFetch, Flush, FlushUnless, CommitFails,
                          ListFails, FetchFails, SessionOK
      <3>2. Balance(s)'
        BY <2>1, <2>3, <3>1, SameBalance
      <3> QED BY <1>0, <2>1, <2>2, <2>4, <3>2, OnlyBalances
    <2> QED BY <1>3, <2>5, <2>6, <2>7, <2>8 DEF Walk
  <1>4. CASE \E S \in SUBSET Syncs : Ends(S)
    <2>1. PICK S \in SUBSET Syncs : Ends(S)
      BY <1>4
    <2>2. Alone /\ UNCHANGED <<total, rec, changes>>
      BY <2>1 DEF Ends, Alone
    <2>3. \A x \in Syncs : Balance(x)'
      BY <1>0, <2>1, <2>2, EndBalance DEF TotalInv
    <2> QED BY <1>0, <2>2, <2>3, OnlyBalances
  <1>5. ASSUME NEW s \in Syncs, Load(s), status \notin {"deleted", "paused"}
        PROVE  TotalInv'
    <2>1. /\ UNCHANGED <<store, database, changes, at, got, mine>>
          /\ ~overlapped' => ~overlapped
          /\ spc' = [spc EXCEPT ![s] = "listing"] /\ spc[s] = "queued"
      BY <1>0, <1>5, Loads
    <2>2. Alone /\ UNCHANGED <<rec, total, remote, status>>
      BY <2>1 DEF Alone, store, database
    <2>3. ASSUME NEW x \in Syncs PROVE Balance(x)'
      <3>1. /\ Balance(x) /\ mine'[x] = mine[x]
            /\ \/ spc[x] # "saving" /\ spc'[x] # "saving"
               \/ spc'[x] = spc[x] /\ at'[x] = at[x] /\ got'[x] = got[x]
        BY <1>0, <2>1, <2>2 DEF TotalInv, SessionOK
      <3> QED BY <2>1, <2>2, <3>1, SameBalance
    <2> QED BY <1>0, <2>1, <2>2, <2>3, OnlyBalances
  <1>6. ASSUME NEW s \in Syncs, Commit(s)
        PROVE  TotalInv'
    <2>1. Alone
      BY <1>6, CommitFrame DEF Alone
    <2> QED BY <1>0, <1>6, <2>1, CommitTotals DEF TotalInv
  <1>7. CASE DeleteConnector
    BY <1>7 DEF DeleteConnector, Alone
  <1> QED
    BY <1>1, <1>2, <1>3, <1>4, <1>5, <1>6, <1>7, EndSteps
    DEF Next, SyncStep, Failure, Walk

LEMMA InitTotals == Init => LoneInv /\ TotalInv
  <1> SUFFICES ASSUME Init PROVE LoneInv /\ TotalInv
    OBVIOUS
  <1>1. LoneInv
    BY DEF Init, LoneInv, Active
  <1>2. \A i \in Items : rec[i] = NoRecord
    BY DEF Init, Fresh
  <1>3. {i \in Items : rec[i] # NoRecord} = {}
    BY <1>2
  <1>4. total = 0 /\ changes = 0 /\ NumItems \in Nat
    BY SyncAssumption DEF Init
  <1>5. ASSUME NEW s \in Syncs PROVE Balance(s)
    <2>1. Taken(s) = {}
      BY DEF Init, Taken, InHand, Fresh
    <2>2. Behind(s) \in SUBSET Items
      BY DEF Behind
    <2>3. /\ Cardinality(Behind(s)) \in Nat /\ Cardinality(Behind(s)) <= NumItems
      BY <2>2, ItemSets
    <2> QED BY <1>4, <2>1, <2>3, FS_EmptySet DEF Balance
  <1>6. TotalInv
    BY <1>3, <1>4, <1>5, FS_EmptySet DEF TotalInv
  <1> QED
    BY <1>1, <1>6

\* While no two syncs overlapped and none lost what it had dispatched, the
\* connector's counter is at least the number of its records and at most what
\* the source held or changed (total_docs_synced in _run_sync).
THEOREM TotalsAreBounded == Spec => []TotalCounts
  <1> DEFINE IInv == TypeInv /\ DocsInv /\ LoneInv /\ TotalInv
  <1>1. Init => IInv
    BY InitTyped, InitDocs, InitTotals
  <1>2. IInv /\ [Next]_vars => IInv'
    BY StepTyped, StepKeeps, LoneStep, TotalStep
  <1>3. IInv => TotalCounts
    <2> SUFFICES ASSUME TypeInv, TotalInv PROVE TotalCounts
      OBVIOUS
    <2>1. /\ Cardinality({i \in Items : rec[i] # NoRecord}) \in Nat /\ total \in Nat
      BY ItemSets, TypeParts DEF RestOK
    <2> QED BY <2>1 DEF TotalInv, TotalCounts, Alone
  <1> QED
    BY <1>1, <1>2, <1>3, PTL DEF Spec

-----------------------------------------------------------------------------
(* What a sync skips is indexed *)

Busy(t) == task[t].pc # "free"

\* The document of record e is being ingested, or shows that it is not, or
\* has the recorded content in the index.
Settled(e) ==
    \/ Live(e.ref) # {}
    \/ row[e.ref] \in {"none", "pending", "failed"}
    \/ \A k \in 1..Size[e.hash] : index[e.ref][k] = e.hash

\* As sync s sees the records: each has its file on disk, a document of its
\* own and that document settled; each task works on the document of its item.
FilesInv(s) == \A i \in Items : Now(s, i) # NoRecord =>
    /\ disk[i] = Now(s, i).hash
    /\ \A j \in Items : Now(s, j).ref = Now(s, i).ref => j = i
    /\ Settled(Now(s, i))

TasksInv(s) == \A t \in Tasks : Busy(t) =>
    /\ task[t].doc \in DocIds /\ Now(s, task[t].item).ref = task[t].doc
    /\ task[t].pc = "running" => task[t].read = disk[task[t].item]

\* A document has one task, and the only sync there is sees all of it.
IngestInv ==
    /\ Syncs # {}
    /\ Alone =>
         /\ \A t, u \in Tasks :
              Busy(t) /\ Busy(u) /\ task[t].doc = task[u].doc => t = u
         /\ \A s \in Syncs : Active \subseteq {s} => FilesInv(s) /\ TasksInv(s)

LEMMA NowType ==
    ASSUME SessionOK, RestOK, NEW s \in Syncs, NEW i \in Items
    PROVE  /\ Now(s, i) \in RecordType
           /\ Now(s, i) # NoRecord =>
                Now(s, i).ref \in DocIds /\ Now(s, i).hash \in Versions
           /\ Now(s, i) = NoRecord => Now(s, i).ref = NoDoc
           /\ NoDoc \notin DocIds
  <1>1. Now(s, i) \in RecordType
    BY DEF Now, SessionOK, RestOK
  <1>2. \A e \in RecordType : e # NoRecord => e.ref \in DocIds /\ e.hash \in Versions
    BY DEF RecordType, Record
  <1> QED
    BY <1>1, <1>2 DEF NoRecord, NoDoc, DocIds

\* What leaves files, indexes and tasks alone, and the records as somebody
\* sees them, leaves the view of them as it is.
LEMMA SameFiles ==
    ASSUME NEW s \in Syncs, NEW x \in Syncs, FilesInv(s), TasksInv(s),
           \A i \in Items : Now(x, i)' = Now(s, i),
           UNCHANGED <<disk, index, task>>, SessionOK, RestOK,
           \A d \in DocIds : row'[d] \in {row[d], "pending"}
    PROVE  FilesInv(x)' /\ TasksInv(x)'
  <1>1. \A d : Live(d)' = Live(d)
    BY DEF Live
  <1>2. ASSUME NEW i \in Items, Now(s, i) # NoRecord
        PROVE  Settled(Now(s, i)) => Settled(Now(x, i))'
    <2>1. PICK e \in RecordType : e = Now(s, i)
      BY NowType
    <2>2. e.ref \in DocIds /\ Now(x, i)' = e
      BY <1>2, <2>1, NowType
    <2>3. row'[e.ref] \in {row[e.ref], "pending"} /\ Live(e.ref)' = Live(e.ref)
      BY <1>1, <2>2
    <2> QED BY <2>1, <2>2, <2>3 DEF Settled
  <1>3. FilesInv(x)'
    BY <1>2 DEF FilesInv
  <1>4. TasksInv(x)'
    <2>1. \A t \in Tasks : task[t].item \in Items
      BY DEF RestOK
    <2> QED BY <2>1 DEF TasksInv, Busy
  <1> QED
    BY <1>3, <1>4

\* A step of one task on its document.
TaskMoves(t, next) ==
    /\ task' = [task EXCEPT ![t] = next]
    /\ next.pc # "free" =>
         /\ next.doc = task[t].doc /\ next.item = task[t].item
         /\ next.pc = "running" => next.read = disk[task[t].item]
    /\ UNCHANGED <<disk, mine, rec>>
    /\ \A d \in DocIds \ {task[t].doc} : row'[d] = row[d] /\ index'[d] = index[d]

LEMMA TaskFiles ==
    ASSUME SessionOK, RestOK, NEW s \in Syncs, FilesInv(s), TasksInv(s),
           NEW t \in Tasks, Busy(t), NEW next, TaskMoves(t, next),
           \/ next.pc # "free"
           \/ row'[task[t].doc] \in {"none", "pending", "failed"}
           \/ \A k \in 1..Size[disk[task[t].item]] :
                index'[task[t].doc][k] = disk[task[t].item]
    PROVE  FilesInv(s)' /\ TasksInv(s)'
  <1>1. PICK d \in DocIds, i \in Items : d = task[t].doc /\ i = task[t].item
    BY DEF TasksInv, RestOK
  <1>2. /\ \A u \in Tasks \ {t} : task'[u] = task[u]
        /\ task'[t] = next
    BY DEF TaskMoves, RestOK
  <1>3. \A j \in Items : Now(s, j)' = Now(s, j)
    BY DEF TaskMoves, Now
  <1>4. /\ Now(s, i).ref = d /\ Now(s, i) # NoRecord /\ disk[i] = Now(s, i).hash
        /\ \A j \in Items : Now(s, j).ref = d => j = i
    BY <1>1, NowType DEF TasksInv, FilesInv
  <1>5. ASSUME NEW j \in Items, Now(s, j) # NoRecord
        PROVE  Settled(Now(s, j))'
    <2> DEFINE e == Now(s, j)
    <2>1. Settled(e) /\ e.ref \in DocIds
      BY <1>5, NowType DEF FilesInv
    <2>2. CASE e.ref # d
      <3>1. Live(e.ref) # {} => Live(e.ref)' # {}
        BY <1>1, <1>2, <2>2, <1>3 DEF Live
      <3>2. row'[e.ref] = row[e.ref] /\ index'[e.ref] = index[e.ref]
        BY <1>1, <2>1, <2>2 DEF TaskMoves
      <3> QED BY <1>3, <2>1, <3>1, <3>2 DEF Settled
    <2>3. CASE e.ref = d
      <3>1. j = i /\ e.hash = disk[i]
        BY <1>4, <2>3
      <3>2. CASE next.pc # "free"
        <4>1. t \in Live(d)'
          BY <1>1, <1>2, <3>2 DEF TaskMoves, Live
        <4> QED BY <1>3, <2>3, <4>1 DEF Settled
      <3>3. CASE row'[d] \in {"none", "pending", "failed"}
        BY <1>3, <2>3, <3>3 DEF Settled
      <3>4. CASE \A k \in 1..Size[disk[i]] : index'[d][k] = disk[i]
        BY <1>3, <2>3, <3>1, <3>4 DEF Settled
      <3> QED BY <1>1, <3>2, <3>3, <3>4
    <2> QED BY <2>2, <2>3
  <1>6. FilesInv(s)'
    BY <1>3, <1>5 DEF FilesInv, TaskMoves
  <1>7. TasksInv(s)'
    <2> SUFFICES ASSUME NEW u \in Tasks, Busy(u)'
                 PROVE  /\ task'[u].doc \in DocIds
                        /\ Now(s, task[u].item)'.ref = task'[u].doc
                        /\ task'[u].pc = "running" => task'[u].read = disk'[task'[u].item]
      BY DEF TasksInv
    <2>1. CASE u = t
      BY <1>1, <1>2, <1>3, <1>4, <2>1 DEF TaskMoves, Busy
    <2>2. CASE u # t
      <3>1. task'[u] = task[u] /\ Busy(u) /\ task[u].item \in Items
        BY <1>2, <2>2 DEF Busy, RestOK
      <3> QED BY <1>3, <3>1 DEF TasksInv, TaskMoves
    <2> QED BY <2>1, <2>2
  <1> QED
    BY <1>6, <1>7

LEMMA TaskSteps ==
    ASSUME RestOK, NEW t \in Tasks, TaskStep(t) \/ IngestFails(t),
           task[t].doc \in DocIds,
           task[t].pc = "running" => task[t].read = disk[task[t].item] /\
                                     disk[task[t].item] \in Versions
    PROVE  /\ Busy(t)
           /\ \E next :
                /\ TaskMoves(t, next)
                /\ \/ next.pc # "free"
                   \/ row'[task[t].doc] \in {"none", "pending", "failed"}
                   \/ \A k \in 1..Size[disk[task[t].item]] :
                        index'[task[t].doc][k] = disk[task[t].item]
  <1>0. /\ task \in [Tasks -> [pc : {"free", "queued", "running", "marking"},
                               doc : DocIds \cup {NoDoc}, item : Items,
                               read : Versions \cup {NoVersion}]]
        /\ row \in [DocIds -> {"none", "pending", "processing", "ready", "failed"}]
        /\ index \in [DocIds -> [Idx -> Versions \cup {NoVersion}]]
    BY DEF RestOK
  <1>1. ASSUME NEW st, SetRow(task[t].doc, st)
        PROVE  /\ \A d \in DocIds \ {task[t].doc} : row'[d] = row[d]
               /\ row[task[t].doc] = "none" => row'[task[t].doc] = "none"
               /\ row[task[t].doc] # "none" => row'[task[t].doc] = st
    BY <1>0, <1>1 DEF SetRow
  <1>2. CASE Begin(t)
    <2> DEFINE next == [task[t] EXCEPT !.pc = "running", !.read = disk[task[t].item]]
    <2>1. /\ Busy(t) /\ task' = [task EXCEPT ![t] = next]
          /\ UNCHANGED <<disk, mine, rec, index>> /\ SetRow(task[t].doc, "processing")
      BY <1>0, <1>2 DEF Begin, Busy, store, syncVars
    <2>2. next.pc # "free" /\ next.doc = task[t].doc /\ next.item = task[t].item
          /\ next.read = disk[task[t].item]
      BY <1>0
    <2> QED BY <1>1, <2>1, <2>2 DEF TaskMoves
  <1>3. CASE IngestFails(t)
    <2> DEFINE next == [task[t] EXCEPT !.pc = "marking"]
    <2>1. /\ Busy(t) /\ task' = [task EXCEPT ![t] = next]
          /\ UNCHANGED <<disk, mine, rec, index, row>>
      BY <1>0, <1>3 DEF IngestFails, Busy, store, database, syncVars
    <2>2. next.pc = "marking" /\ next.doc = task[t].doc /\ next.item = task[t].item
      BY <1>0
    <2> QED BY <2>1, <2>2 DEF TaskMoves
  <1>4. CASE MarkFailed(t)
    <2>1. /\ Busy(t) /\ task' = [task EXCEPT ![t] = Free]
          /\ UNCHANGED <<disk, mine, rec, index>> /\ SetRow(task[t].doc, "failed")
      BY <1>4 DEF MarkFailed, Busy, store, syncVars
    <2>2. row'[task[t].doc] \in {"none", "failed"}
      BY <1>1, <2>1
    <2> QED BY <1>1, <2>1, <2>2 DEF TaskMoves, Free
  <1>5. CASE Complete(t)
    <2> DEFINE d == task[t].doc
               v == task[t].read
               chunks == [k \in Idx |-> IF k <= Size[v] THEN v ELSE index[d][k]]
    <2>1. /\ task[t].pc = "running" /\ Busy(t)
          /\ index' = [index EXCEPT ![d] = chunks] /\ SetRow(d, "ready")
          /\ task' = IF row[d] = "none" THEN [task EXCEPT ![t].pc = "marking"]
                                        ELSE [task EXCEPT ![t] = Free]
          /\ UNCHANGED <<disk, mine, rec>>
      BY <1>5 DEF Complete, CompleteWith, Busy, syncVars
    <2>2. \A e \in DocIds \ {d} : row'[e] = row[e] /\ index'[e] = index[e]
      BY <1>0, <1>1, <2>1
    <2>3. CASE row[d] = "none"
      <3> DEFINE next == [task[t] EXCEPT !.pc = "marking"]
      <3>1. task' = [task EXCEPT ![t] = next]
        BY <1>0, <2>1, <2>3
      <3>2. next.pc = "marking" /\ next.doc = task[t].doc /\ next.item = task[t].item
        BY <1>0
      <3> QED BY <2>1, <2>2, <3>1, <3>2 DEF TaskMoves
    <2>4. CASE row[d] # "none"
      <3>1. v = disk[task[t].item] /\ v \in Versions
        BY <2>1
      <3>2. \A k \in 1..Size[v] : k \in Idx /\ k <= Size[v]
        BY <3>1, SyncAssumption DEF Idx
      <3>3. index'[d] = chunks
        BY <1>0, <2>1
      <3>4. \A k \in 1..Size[v] : index'[d][k] = v
        BY <3>2, <3>3
      <3>5. TaskMoves(t, Free)
        BY <2>1, <2>2, <2>4 DEF TaskMoves, Free
      <3> QED BY <2>1, <3>1, <3>4, <3>5
    <2> QED BY <2>3, <2>4
  <1> QED
    BY <1>2, <1>3, <1>4, <1>5 DEF TaskStep

\* Saving an item: a new file, record and task for a document no task is on.
LEMMA SaveFiles ==
    ASSUME SessionOK, RestOK, DocsInv, LoneInv, Alone, IngestInv,
           NEW s \in Syncs, NEW t \in Tasks, Save(s, t), ~overlapped'
    PROVE  /\ \A u, w \in Tasks :
                Busy(u)' /\ Busy(w)' /\ task'[u].doc = task'[w].doc => u = w
           /\ FilesInv(s)' /\ TasksInv(s)'
  <1>0. PICK i \in Items : i = at[s]
    BY DEF Save, SessionOK, AtInv
  <1>1. PICK d : d = IF known[s][i] = NoRecord THEN lastDoc + 1 ELSE known[s][i].ref
    OBVIOUS
  <1>2. PICK new : new = [pc |-> "queued", doc |-> d, item |-> i, read |-> NoVersion]
    OBVIOUS
  <1>3. /\ spc[s] = "saving" /\ task[t].pc = "free" /\ d \in DocIds
        /\ disk' = [disk EXCEPT ![i] = got[s]]
        /\ mine' = [mine EXCEPT ![s][i] = [hash |-> got[s], ref |-> d]]
        /\ task' = [task EXCEPT ![t] = new]
        /\ Live(d) = {} /\ UNCHANGED <<row, rec, index>>
    BY <1>0, <1>1, <1>2 DEF Save, database
  <1>4. s \in Active /\ Active = {s} /\ got[s] \in Versions
    <2>1. s \in Active /\ Active \subseteq Syncs
      BY <1>3 DEF Active
    <2>2. \A x, y \in Active : x = y
      BY DEF LoneInv
    <2>3. got[s] \in Versions
      BY <1>3 DEF SessionOK, AtInv
    <2> QED BY <2>1, <2>2, <2>3
  <1>5. /\ known[s] = rec /\ FilesInv(s) /\ TasksInv(s)
        /\ \A u, w \in Tasks :
             Busy(u) /\ Busy(w) /\ task[u].doc = task[w].doc => u = w
    BY <1>4 DEF LoneInv, IngestInv
  <1>6. mine[s][i] = NoRecord
    <2>1. ~(i < i)
      BY <1>0, AtItems
    <2> QED BY <1>0, <1>3, <2>1 DEF DocsInv, PlaceInv
  <1>7. Now(s, i) = known[s][i]
    BY <1>5, <1>6 DEF Now
  <1>8. /\ Now(s, i)' = [hash |-> got[s], ref |-> d]
        /\ \A j \in Items \ {i} : Now(s, j)' = Now(s, j)
    <2>1. /\ mine'[s][i] = [hash |-> got[s], ref |-> d]
          /\ \A j \in Items \ {i} : mine'[s][j] = mine[s][j]
      BY <1>3 DEF SessionOK
    <2>2. [hash |-> got[s], ref |-> d] # NoRecord
      BY <1>4, SyncAssumption DEF NoRecord
    <2> QED BY <1>3, <2>1, <2>2 DEF Now
  <1>9. \A j \in Items \ {i} : Now(s, j).ref # d
    <2> SUFFICES ASSUME NEW j \in Items \ {i}, Now(s, j).ref = d
                 PROVE  FALSE
      OBVIOUS
    <2>1. Now(s, j) # NoRecord
      BY <1>3, NowType
    <2>2. CASE known[s][i] # NoRecord
      BY <1>1, <1>5, <1>7, <2>1, <2>2 DEF FilesInv
    <2>3. CASE known[s][i] = NoRecord
      <3>1. Now(s, j).ref <= lastDoc
        BY <2>1, RecRef DEF Now, DocsInv, NewInv, RowsInv, Alone
      <3>2. ~(lastDoc + 1 <= lastDoc)
        BY DEF RestOK
      <3> QED BY <1>1, <2>3, <3>1, <3>2
    <2> QED BY <2>2, <2>3
  <1>10. /\ \A u \in Tasks \ {t} : task'[u] = task[u]
         /\ task'[t] = new
    BY <1>3 DEF RestOK
  <1>11. ASSUME NEW u \in Tasks, Busy(u)
         PROVE  /\ u # t /\ task[u].doc # d /\ task[u].item \in Items \ {i}
                /\ task'[u] = task[u]
    <2>1. u # t /\ task[u].doc # d
      BY <1>3, <1>11 DEF Busy, Live
    <2>2. task[u].item \in Items
      BY DEF RestOK
    <2>3. ASSUME task[u].item = i
          PROVE  FALSE
      <3>1. Now(s, i).ref = task[u].doc /\ task[u].doc \in DocIds
        BY <1>5, <1>11, <2>3 DEF TasksInv
      <3>2. known[s][i] # NoRecord
        BY <1>7, <3>1, NowType
      <3> QED BY <1>1, <1>7, <2>1, <3>1, <3>2
    <2> QED BY <1>10, <2>1, <2>2, <2>3
  <1>12. \A u \in Tasks : Busy(u)' => u = t \/ Busy(u)
    BY <1>10 DEF Busy
  <1>13. \A u, w \in Tasks :
           Busy(u)' /\ Busy(w)' /\ task'[u].doc = task'[w].doc => u = w
    BY <1>2, <1>5, <1>10, <1>11, <1>12
  <1>14. ASSUME NEW j \in Items, Now(s, j)' # NoRecord
         PROVE  /\ disk'[j] = Now(s, j)'.hash
                /\ \A k \in Items : Now(s, k)'.ref = Now(s, j)'.ref => k = j
                /\ Settled(Now(s, j))'
    <2>1. CASE j = i
      <3>1. t \in Live(d)'
        BY <1>2, <1>10 DEF Live
      <3>2. disk'[i] = got[s]
        BY <1>3 DEF RestOK
      <3> QED BY <1>8, <1>9, <2>1, <3>1, <3>2 DEF Settled
    <2>2. CASE j # i
      <3>1. PICK e \in RecordType : e = Now(s, j)
        BY NowType
      <3>2. Now(s, j)' = e /\ e # NoRecord /\ e.ref \in DocIds
        BY <1>8, <1>14, <2>2, <3>1, NowType
      <3>3. Live(e.ref) # {} => Live(e.ref)' # {}
        BY <1>11 DEF Live, Busy
      <3>4. Settled(e) => Settled(Now(s, j))'
        BY <1>3, <3>2, <3>3 DEF Settled
      <3>5. disk'[j] = disk[j]
        BY <1>3, <2>2 DEF RestOK
      <3>6. Settled(e) /\ disk[j] = e.hash /\ \A k \in Items : Now(s, k).ref = e.ref => k = j
        BY <1>5, <3>1, <3>2 DEF FilesInv
      <3>7. e.ref # d
        BY <1>9, <2>2, <3>1
      <3>8. \A k \in Items : Now(s, k)'.ref = e.ref => k = j
        BY <1>8, <3>6, <3>7
      <3> QED BY <3>2, <3>4, <3>5, <3>6, <3>8
    <2> QED BY <2>1, <2>2
  <1>15. FilesInv(s)'
    BY <1>14 DEF FilesInv
  <1>16. TasksInv(s)'
    <2> SUFFICES ASSUME NEW u \in Tasks, Busy(u)'
                 PROVE  /\ task'[u].doc \in DocIds
                        /\ Now(s, task[u].item)'.ref = task'[u].doc
                        /\ task'[u].pc = "running" => task'[u].read = disk'[task'[u].item]
      BY DEF TasksInv
    <2>1. CASE u = t
      BY <1>2, <1>3, <1>8, <1>10, <2>1
    <2>2. CASE u # t
      <3>1. /\ Busy(u) /\ task'[u] = task[u] /\ task[u].item \in Items \ {i}
        BY <1>11, <1>12, <2>2
      <3>2. disk'[task[u].item] = disk[task[u].item]
        BY <1>3, <3>1 DEF RestOK
      <3> QED BY <1>5, <1>8, <3>1, <3>2 DEF TasksInv
    <2> QED BY <2>1, <2>2
  <1> QED
    BY <1>13, <1>15, <1>16

\* The worker restarts with nothing written: the tasks begin again.
LEMMA CrashFiles ==
    ASSUME SessionOK, RestOK, WorkerCrash, NEW s \in Syncs, FilesInv(s), TasksInv(s),
           NEW x \in Syncs, \A i \in Items : Now(x, i)' = Now(s, i)
    PROVE  FilesInv(x)' /\ TasksInv(x)'
  <1>1. /\ UNCHANGED <<disk, index, row>>
        /\ \A t \in Tasks :
             /\ Busy(t)' <=> Busy(t)
             /\ Busy(t) => /\ task'[t].doc = task[t].doc /\ task'[t].item = task[t].item
                           /\ task'[t].pc = "queued"
    BY DEF WorkerCrash, store, database, Busy, Free, RestOK
  <1>2. ASSUME NEW i \in Items, Now(s, i) # NoRecord
        PROVE  Settled(Now(s, i)) => Settled(Now(x, i))'
    <2>1. PICK e \in RecordType : e = Now(s, i)
      BY NowType
    <2>2. Live(e.ref)' = Live(e.ref)
      BY <1>1 DEF Live, Busy
    <2> QED BY <1>1, <2>1, <2>2 DEF Settled
  <1>3. FilesInv(x)'
    BY <1>1, <1>2 DEF FilesInv
  <1>4. TasksInv(x)'
    BY <1>1 DEF TasksInv, RestOK
  <1> QED
    BY <1>3, <1>4

\* Every sync that is not active sees the committed records.
LEMMA NowRec ==
    ASSUME DocsInv, NEW s \in Syncs, s \notin Active
    PROVE  \A i \in Items : Now(s, i) = rec[i]
  BY DEF DocsInv, PlaceInv, Active, Now

\* What leaves files, indexes and tasks alone, when whoever may see the whole
\* afterwards sees what somebody saw before.
LEMMA SameIngest ==
    ASSUME SessionOK, RestOK, IngestInv, Alone,
           UNCHANGED <<disk, index, task>>,
           \A d \in DocIds : row'[d] \in {row[d], "pending"},
           \A x \in Syncs : Active' \subseteq {x} =>
             \E s \in Syncs : /\ Active \subseteq {s}
                              /\ \A i \in Items : Now(x, i)' = Now(s, i)
    PROVE  IngestInv'
  <1>1. \A t, u \in Tasks :
          Busy(t)' /\ Busy(u)' /\ task'[t].doc = task'[u].doc => t = u
    BY DEF IngestInv, Busy
  <1>2. ASSUME NEW x \in Syncs, Active' \subseteq {x}
        PROVE  FilesInv(x)' /\ TasksInv(x)'
    <2>1. PICK s \in Syncs : /\ Active \subseteq {s}
                             /\ \A i \in Items : Now(x, i)' = Now(s, i)
      BY <1>2
    <2>2. FilesInv(s) /\ TasksInv(s)
      BY <2>1 DEF IngestInv
    <2> QED BY <2>1, <2>2, SameFiles
  <1> QED
    BY <1>1, <1>2 DEF IngestInv

\* Requests, beat and the source touch none of it.
LEMMA RequestsIngest ==
    ASSUME SessionOK, RestOK, IngestInv, Alone',
           \/ \E i \in Items, v \in Versions : RemoteChange(i, v)
           \/ \E s \in Syncs : Beat(s) \/ TriggerSync(s)
           \/ \E new \in {"active", "paused"} : SetConnectorStatus(new)
           \/ UNCHANGED vars
    PROVE  IngestInv'
  <1>1. Outside
    BY OutsideSteps
  <1>2. Alone /\ Active' = Active /\ \A s \in Syncs, i \in Items : Now(s, i)' = Now(s, i)
    BY <1>1, OutsideActive DEF Outside, Alone, Now
  <1>3. UNCHANGED <<disk, index, task, row>>
    BY DEF RemoteChange, Beat, TriggerSync, Enqueue, SetConnectorStatus, vars, store,
           database
  <1> QED
    BY <1>2, <1>3, SameIngest

LEMMA WalkIngest ==
    ASSUME SessionOK, RestOK, DocsInv, LoneInv, IngestInv, Alone',
           NEW s \in Syncs, Walk(s)
    PROVE  IngestInv'
  <1>1. /\ s \in Active /\ Active' = Active
        /\ UNCHANGED <<rec, row, status>>
        /\ ~overlapped' => ~overlapped
    BY WalkFrame
  <1>2. Alone
    BY <1>1 DEF Alone
  <1>3. CASE \E t \in Tasks : Save(s, t)
    <2>1. ~overlapped'
      BY DEF Alone
    <2>2. PICK t \in Tasks : Save(s, t)
      BY <1>3
    <2>3. /\ \A u, w \in Tasks :
               Busy(u)' /\ Busy(w)' /\ task'[u].doc = task'[w].doc => u = w
          /\ FilesInv(s)' /\ TasksInv(s)'
      BY <1>2, <2>1, <2>2, SaveFiles
    <2>4. ASSUME NEW x \in Syncs, Active' \subseteq {x}
          PROVE  x = s
      BY <1>1, <2>4
    <2> QED BY <2>3, <2>4 DEF IngestInv
  <1>4. CASE \/ List(s) \/ Examine(s) \/ Fetch(s) \/ Flush(s) \/ CommitFails(s)
             \/ ListFails(s) \/ FetchFails(s) \/ SaveFails(s)
    <2>1. UNCHANGED disk /\ UNCHANGED index /\ UNCHANGED task /\ UNCHANGED mine
      BY <1>4 DEF List, Examine, SkipOrFetch, Fetch, Flush, FlushUnless, CommitFails,
                  ListFails, FetchFails, SaveFails, Alone, store
    <2>2. \A x \in Syncs, i \in Items : Now(x, i)' = Now(x, i)
      BY <1>1, <2>1 DEF Now
    <2> QED BY <1>1, <1>2, <2>1, <2>2, SameIngest
  <1> QED
    BY <1>3, <1>4 DEF Walk

LEMMA LoadIngest ==
    ASSUME SessionOK, RestOK, DocsInv, IngestInv, Alone', NEW s \in Syncs, Load(s)
    PROVE  IngestInv'
  <1>1. CASE status \in {"deleted", "paused"}
    <2>1. /\ UNCHANGED <<disk, index, task, row, rec, status, overlapped>>
          /\ Forget({s}, "idle") /\ spc[s] = "queued"
      BY <1>1 DEF Load, store, database
    <2>2. Alone /\ Active' = Active
      <3>1. Alone
        BY <2>1 DEF Alone
      <3>2. \A x \in Syncs \ {s} : spc'[x] = spc[x]
        BY <2>1 DEF Forget
      <3>3. spc'[s] = "idle"
        BY <2>1 DEF Forget
      <3> QED BY <2>1, <3>1, <3>2, <3>3 DEF Active
    <2>3. \A i \in Items : mine[s][i] = NoRecord
      BY <2>1 DEF DocsInv, PlaceInv
    <2>4. \A x \in Syncs, i \in Items : mine'[x][i] = mine[x][i]
      BY <2>1, <2>3 DEF Forget, Fresh
    <2>5. \A x \in Syncs, i \in Items : Now(x, i)' = Now(x, i)
      BY <2>1, <2>4 DEF Now
    <2> QED BY <2>1, <2>2, <2>5, SameIngest
  <1>2. CASE status \notin {"deleted", "paused"}
    <2>1. /\ UNCHANGED <<store, database, task, mine>>
          /\ ~overlapped' => ~overlapped /\ Active = {}
      BY <1>2, Loads
    <2>2. Alone /\ Active = {}
      BY <2>1 DEF Alone, database
    <2>3. UNCHANGED <<disk, index, task, row, rec, mine>>
      BY <2>1 DEF store, database
    <2>4. \A x \in Syncs, i \in Items : Now(x, i)' = Now(x, i)
      BY <2>3 DEF Now
    <2>5. \A x \in Syncs : Active \subseteq {x}
      BY <2>2
    <2> QED BY <2>2, <2>3, <2>4, <2>5, SameIngest
  <1> QED
    BY <1>1, <1>2

\* A sync that ends with nothing written leaves the committed records.
LEMMA EndIngest ==
    ASSUME SessionOK, RestOK, DocsInv, LoneInv, IngestInv, Alone',
           (\E s \in Syncs : Fail(s)) \/ WorkerCrash
    PROVE  IngestInv'
  <1>1. PICK S \in SUBSET Syncs : Ends(S) /\ Active \subseteq S
    <2>1. ASSUME NEW s \in Syncs, Fail(s)
          PROVE  Ends({s})
      BY <2>1 DEF Fail, Ends, store
    <2>2. ASSUME NEW s \in Syncs, Fail(s)
          PROVE  Active \subseteq {s}
      <3>1. Alone
        BY <2>1, <2>2 DEF Ends, Alone
      <3>2. s \in Active
        BY <2>2 DEF Fail, Active
      <3> QED BY <3>1, <3>2 DEF LoneInv
    <2>3. CASE WorkerCrash
      <3>1. Ends(Active) /\ Active \in SUBSET Syncs
        BY <2>3 DEF WorkerCrash, Ends, store, database, Active
      <3> QED BY <3>1
    <2> QED BY <2>1, <2>2, <2>3
  <1>2. Alone /\ UNCHANGED rec /\ \A s \in S : Written(s) = {}
    BY <1>1 DEF Ends, Alone
  <1>3. \A s \in Syncs, i \in Items : Now(s, i) = rec[i]
    <2>1. ASSUME NEW s \in Syncs, s \in S, NEW i \in Items
          PROVE  Now(s, i) = rec[i]
      BY <1>2, <2>1 DEF Written, Now
    <2>2. ASSUME NEW s \in Syncs, s \notin S
          PROVE  \A i \in Items : Now(s, i) = rec[i]
      BY <1>1, <2>2, NowRec
    <2> QED BY <2>1, <2>2
  <1>4. \A s \in Syncs, i \in Items : Now(s, i)' = rec[i]
    <2>1. ASSUME NEW s \in Syncs, s \in S, NEW i \in Items
          PROVE  Now(s, i)' = rec[i]
      BY <1>1, <1>2, <2>1, EndFrame DEF Now, Fresh
    <2>2. ASSUME NEW s \in Syncs, s \notin S, NEW i \in Items
          PROVE  Now(s, i)' = rec[i]
      <3>1. mine'[s] = mine[s]
        BY <1>1, <2>2, EndFrame
      <3> QED BY <1>2, <1>3, <3>1 DEF Now
    <2> QED BY <2>1, <2>2
  <1>5. PICK z \in Syncs : Active \subseteq {z}
    BY <1>2 DEF LoneInv, IngestInv, Active
  <1>6. FilesInv(z) /\ TasksInv(z)
    BY <1>2, <1>5 DEF IngestInv
  <1>7. CASE \E s \in Syncs : Fail(s)
    <2>1. UNCHANGED <<disk, index, task, row>>
      BY <1>7 DEF Fail, store
    <2> QED BY <1>2, <1>3, <1>4, <1>5, <2>1, SameIngest
  <1>8. CASE WorkerCrash
    <2>1. \A x \in Syncs : FilesInv(x)' /\ TasksInv(x)'
      BY <1>3, <1>4, <1>6, <1>8, CrashFiles
    <2>2. \A t \in Tasks : (Busy(t)' <=> Busy(t)) /\ (Busy(t) => task'[t].doc = task[t].doc)
      BY <1>8 DEF WorkerCrash, Busy, Free, RestOK
    <2> QED BY <1>2, <2>1, <2>2 DEF IngestInv
  <1> QED
    BY <1>7, <1>8

\* A commit makes everybody see what the sync saw.
LEMMA CommitIngest ==
    ASSUME SessionOK, RestOK, DocsInv, LoneInv, IngestInv, Alone',
           NEW s \in Syncs, Commit(s)
    PROVE  IngestInv'
  <1>1. /\ s \in Active /\ UNCHANGED <<store, task, overlapped>> /\ status # "deleted"
        /\ Forget({s}, "idle") /\ row' = NewRows(s)
        /\ rec' = [i \in Items |-> IF i \in Written(s) THEN mine[s][i] ELSE rec[i]]
    BY CommitFrame
  <1>2. Alone /\ Active = {s}
    <2>1. Alone
      BY <1>1 DEF Alone
    <2>2. \A x, y \in Active : x = y
      BY <2>1 DEF LoneInv
    <2> QED BY <1>1, <2>1, <2>2
  <1>3. \A i \in Items : rec'[i] = Now(s, i)
    BY <1>1 DEF Now, Written
  <1>4. \A x \in Syncs, i \in Items : mine'[x][i] = NoRecord
    <2>1. \A i \in Items : mine'[s][i] = NoRecord
      BY <1>1 DEF Forget, Fresh
    <2>2. \A x \in Syncs \ {s} : mine'[x] = mine[x] /\ spc[x] \in {"idle", "queued"}
      BY <1>1, <1>2 DEF Forget, Active
    <2>3. \A x \in Syncs \ {s}, i \in Items : mine[x][i] = NoRecord
      BY <2>2 DEF DocsInv, PlaceInv
    <2> QED BY <2>1, <2>2, <2>3
  <1>5. \A x \in Syncs, i \in Items : Now(x, i)' = Now(s, i)
    BY <1>3, <1>4 DEF Now
  <1>6. \A d \in DocIds : row'[d] \in {row[d], "pending"}
    BY <1>1 DEF NewRows
  <1> QED
    BY <1>1, <1>2, <1>5, <1>6, SameIngest DEF store

LEMMA TasksIngest ==
    ASSUME SessionOK, RestOK, LoneInv, IngestInv, Alone',
           NEW t \in Tasks, TaskStep(t) \/ IngestFails(t)
    PROVE  IngestInv'
  <1>1. Outside
    BY OutsideSteps
  <1>2. Alone /\ Active' = Active
    BY <1>1, OutsideActive DEF Outside, Alone
  <1>3. PICK z \in Syncs : Active \subseteq {z}
    BY <1>2 DEF LoneInv, IngestInv, Active
  <1>4. FilesInv(z) /\ TasksInv(z)
    BY <1>2, <1>3 DEF IngestInv
  <1>5. Busy(t)
    BY DEF TaskStep, Begin, Complete, CompleteWith, MarkFailed, IngestFails, Busy
  <1>6. /\ task[t].doc \in DocIds
        /\ task[t].pc = "running" => task[t].read = disk[task[t].item]
        /\ disk[task[t].item] \in Versions
    <2>1. task[t].item \in Items
      BY DEF RestOK
    <2>2. /\ task[t].doc \in DocIds /\ Now(z, task[t].item).ref = task[t].doc
          /\ task[t].pc = "running" => task[t].read = disk[task[t].item]
      BY <1>4, <1>5 DEF TasksInv
    <2>3. Now(z, task[t].item) # NoRecord /\ Now(z, task[t].item).hash \in Versions
      BY <2>1, <2>2, NowType
    <2> QED BY <1>4, <2>1, <2>2, <2>3 DEF FilesInv
  <1>7. PICK next :
          /\ TaskMoves(t, next)
          /\ \/ next.pc # "free"
             \/ row'[task[t].doc] \in {"none", "pending", "failed"}
             \/ \A k \in 1..Size[disk[task[t].item]] :
                  index'[task[t].doc][k] = disk[task[t].item]
    BY <1>6, TaskSteps
  <1>8. ASSUME NEW x \in Syncs, Active' \subseteq {x}
        PROVE  FilesInv(x)' /\ TasksInv(x)'
    <2>1. FilesInv(x) /\ TasksInv(x)
      BY <1>2, <1>8 DEF IngestInv
    <2> QED BY <1>5, <1>7, <2>1, TaskFiles
  <1>9. \A u \in Tasks : Busy(u)' => Busy(u) /\ task'[u].doc = task[u].doc
    <2>1. \A u \in Tasks \ {t} : task'[u] = task[u]
      BY <1>7 DEF TaskMoves, RestOK
    <2>2. task'[t] = next
      BY <1>7 DEF TaskMoves, RestOK
    <2>3. next.pc # "free" => next.doc = task[t].doc
      BY <1>7 DEF TaskMoves
    <2> QED BY <1>5, <2>1, <2>2, <2>3 DEF Busy
  <1> QED
    BY <1>2, <1>8, <1>9 DEF IngestInv

LEMMA IngestStep ==
    ASSUME TypeInv, DocsInv, LoneInv, IngestInv, [Next]_vars
    PROVE  IngestInv'
  <1>0. SessionOK /\ RestOK
    BY TypeParts
  <1>1. CASE ~Alone'
    BY <1>1 DEF IngestInv
  <1>2. CASE Alone'
    <2>1. ~DeleteConnector
      BY <1>2 DEF DeleteConnector, Alone
    <2> QED
      BY <1>0, <1>2, <2>1, RequestsIngest, WalkIngest, LoadIngest, EndIngest,
         CommitIngest, TasksIngest
      DEF Next, SyncStep, Failure, Walk
  <1> QED
    BY <1>1, <1>2

LEMMA InitIngest == Init => IngestInv
  <1> SUFFICES ASSUME Init PROVE IngestInv
    OBVIOUS
  <1>1. Syncs # {} /\ \A t \in Tasks : ~Busy(t)
    BY DEF Init, Busy, Free
  <1>2. \A s \in Syncs, i \in Items : Now(s, i) = NoRecord
    BY DEF Init, Now, Fresh
  <1> QED
    BY <1>1, <1>2 DEF IngestInv, FilesInv, TasksInv

\* While syncs neither overlap nor lose work, an item the next one would skip
\* is indexed as recorded, is being ingested, or shows that it is not: the
\* hash is recorded before the ingestion has run (_run_sync, "document.
\* content_hash" and ingest_document_task.delay).
THEOREM SkippedItemsAreIndexed == Spec => []SkippedIsIndexed
  <1> DEFINE IInv == TypeInv /\ DocsInv /\ LoneInv /\ IngestInv
  <1>1. Init => IInv
    BY InitTyped, InitDocs, InitTotals, InitIngest
  <1>2. IInv /\ [Next]_vars => IInv'
    BY StepTyped, StepKeeps, LoneStep, IngestStep
  <1>3. IInv => SkippedIsIndexed
    <2> SUFFICES ASSUME IInv, NEW i \in Items, status # "deleted", ~overlapped,
                        Active = {}, rec[i].hash = remote[i]
                 PROVE  \/ Live(rec[i].ref) # {}
                        \/ row[rec[i].ref] \in {"pending", "failed"}
                        \/ \A k \in 1..Size[remote[i]] : index[rec[i].ref][k] = remote[i]
      BY DEF SkippedIsIndexed
    <2>1. SessionOK /\ RestOK
      BY TypeParts
    <2>2. PICK s \in Syncs : TRUE
      BY DEF IngestInv
    <2>3. Now(s, i) = rec[i] /\ FilesInv(s)
      BY NowRec DEF IngestInv, Alone
    <2>4. rec[i] # NoRecord
      BY <2>1, SyncAssumption DEF RestOK, NoRecord
    <2>5. row[rec[i].ref] # "none"
      BY <2>4 DEF DocsInv, RowsInv
    <2> QED BY <2>3, <2>4, <2>5 DEF FilesInv, Settled
  <1> QED
    BY <1>1, <1>2, <1>3, PTL DEF Spec
================================================================================
