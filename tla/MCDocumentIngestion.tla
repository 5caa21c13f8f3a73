------------------------- MODULE MCDocumentIngestion -------------------------
(* Instances of DocumentIngestion for TLC. *)
EXTENDS DocumentIngestion, TLC

CONSTANTS d1, d2, short, long, j1, j2, w1

\* One file of one batch and one of two: a re-ingest can shrink or grow.
MCBatches == short :> 1 @@ long :> 2
MCOne == long :> 1

NoFaults == [k \in FaultKinds |-> 0]
OneOfEach == [k \in FaultKinds |-> 1]
OneButIndex == [OneOfEach EXCEPT !["index_error"] = 0]
IndexFaults == [NoFaults EXCEPT !["index_error"] = 1, !["api_crash"] = 1,
                                !["worker_crash"] = 1]

DocSymmetry == Permutations(Docs)
=============================================================================
