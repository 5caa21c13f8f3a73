------------------------------ MODULE JobPromise ------------------------------
(***************************************************************************)
(* What a queue of jobs promises, whatever becomes of its messages: a job  *)
(* it has accepted stays owed until a handler has completed it or it is in *)
(* the dead-letter queue.  It may be worked on again after that: delivery  *)
(* is at least once.                                                       *)
(***************************************************************************)
CONSTANT Jobs

VARIABLES accepted, owed, handled, dead

vars == <<accepted, owed, handled, dead>>

Init == accepted = {} /\ owed = {} /\ handled = {} /\ dead = {}

Accept(j) ==
    /\ j \notin accepted
    /\ accepted' = accepted \cup {j}
    /\ owed' = owed \cup {j}
    /\ UNCHANGED <<handled, dead>>

\* A step of the work on job j: it may complete it, bury it, or do neither,
\* but it lets go of the job only when one of the two has happened.
Work(j) ==
    /\ j \in accepted
    /\ handled' \in {handled, handled \cup {j}}
    /\ dead' \in {dead, dead \cup {j}}
    /\ owed' \in {owed \cup {j}, owed \ {j}}
    /\ j \notin owed' => j \in handled' \cup dead'
    /\ UNCHANGED accepted

Next == \E j \in Jobs : Accept(j) \/ Work(j)

Spec == Init /\ [][Next]_vars
=============================================================================
