--------------------------- MODULE MCConnectorSync ---------------------------
(* Instances of ConnectorSync for TLC. *)
EXTENDS ConnectorSync, TLC

CONSTANTS v1, v2, s1, s2, t1, t2

\* A change can grow or shrink the document.
MCSize == v1 :> 2 @@ v2 :> 1
=============================================================================
