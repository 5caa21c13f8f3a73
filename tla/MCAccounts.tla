------------------------------ MODULE MCAccounts ------------------------------
(* Two sessions, and two requests at once.                                   *)
EXTENDS Accounts, TLC

Symmetry == Permutations(Sessions) \cup Permutations(Requests)
              \cup Permutations(Slots)
=============================================================================
