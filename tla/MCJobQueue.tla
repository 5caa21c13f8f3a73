------------------------------ MODULE MCJobQueue ------------------------------
(* Instances of JobQueue for TLC. *)
EXTENDS JobQueue

CONSTANTS j1, j2, m1, m2, m3, m4, m5, c1, c2, c3
=============================================================================
