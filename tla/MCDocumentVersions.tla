--------------------------- MODULE MCDocumentVersions ---------------------------
(* DocumentVersions for TLC. *)
EXTENDS DocumentVersions, TLC

Symmetry == Permutations(Requests) \cup Permutations(Docs)
=============================================================================
