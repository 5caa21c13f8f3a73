----------------------------- MODULE MCReminders -----------------------------
(* One event, four sweeps.                                                   *)
EXTENDS Reminders
=============================================================================
