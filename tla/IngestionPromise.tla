--------------------------- MODULE IngestionPromise ---------------------------
(***************************************************************************)
(* What the ingestion of documents promises to whoever watches their       *)
(* status: a document that waits is owed an end by some job, unless its    *)
(* jobs were lost half-way; a status changes by a request or by a job that *)
(* owes one; a removed document is gone for good.                          *)
(***************************************************************************)
CONSTANT Docs

VARIABLES
    shown,   \* "absent", "waiting", "settled" or "removed"
    owed,    \* documents that a job will give a status
    lost     \* documents whose last job died half-way

vars == <<shown, owed, lost>>

Init == shown = [d \in Docs |-> "absent"] /\ owed = {} /\ lost = {}

Exists(d) == shown[d] \in {"waiting", "settled"}

\* A request: a new document, or another ingestion of one.
Submit(d) ==
    /\ shown[d] = "absent" \/ Exists(d)
    /\ shown' = [shown EXCEPT ![d] = "waiting"]
    /\ owed' = owed \cup {d} /\ lost' = lost \ {d}

\* A job begins: its document waits, even if another job has settled it.
Begin(d) ==
    /\ Exists(d) /\ d \in owed
    /\ shown' = [shown EXCEPT ![d] = "waiting"]
    /\ UNCHANGED <<owed, lost>>

\* A job ends: its document is settled, and owed no more unless by another.
Settle(d) ==
    /\ Exists(d) /\ d \in owed
    /\ shown' = [shown EXCEPT ![d] = "settled"]
    /\ owed' \in {owed, owed \ {d}} /\ UNCHANGED lost

\* The last jobs of these documents die.
Lose(S) ==
    /\ S \subseteq owed
    /\ owed' = owed \ S /\ lost' = lost \cup S /\ UNCHANGED shown

\* The broker delivers again what was not acknowledged.
Return(S) ==
    /\ \A d \in S : shown[d] = "settled" \/ d \in lost
    /\ owed' = owed \cup S /\ UNCHANGED <<shown, lost>>

Remove(S) ==
    /\ \A d \in S : Exists(d)
    /\ shown' = [d \in Docs |-> IF d \in S THEN "removed" ELSE shown[d]]
    /\ owed' = owed \ S /\ lost' = lost \ S

Next ==
    \/ \E d \in Docs : Submit(d) \/ Begin(d) \/ Settle(d)
    \/ \E S \in SUBSET Docs : Lose(S) \/ Return(S) \/ Remove(S)

Spec == Init /\ [][Next]_vars
=============================================================================
