------------------------------ MODULE Reminders ------------------------------
(***************************************************************************)
(* check_event_reminders, the background task of the API process that      *)
(* wakes every five minutes and reminds of the events whose time to be     *)
(* reminded is at most two minutes away, among the creations, changes and  *)
(* deletions of calendar.py.                                               *)
(*                                                                         *)
(* Time goes in steps of half a minute. An event is told by the time to be *)
(* reminded of it, start_time less reminder_minutes.                       *)
(***************************************************************************)
EXTENDS Integers

CONSTANTS
    Events,
    Period,       \* 10: asyncio.sleep(300)
    Reach,        \* 4: the 120 seconds around now
    MaxClock,     \* bound on the time
    None

VARIABLES
    clock,
    wake,      \* when the task's sleep is over, or None while it sweeps
    sweep,     \* the events the running sweep has picked
    row,       \* calendar_events
    reminded,  \* how often the attendees got a reminder of the event
    mended     \* a sweep has failed, or the process has restarted

vars == <<clock, wake, sweep, row, reminded, mended>>

Times == 0..MaxClock
Row == [due : Times, set : Times, sent : BOOLEAN, cancelled : BOOLEAN]

TypeOK ==
    /\ clock \in Times
    /\ wake \in Nat \cup {None}
    /\ sweep \subseteq Events
    /\ row \in [Events -> Row \cup {None}]
    /\ reminded \in [Events -> Nat]
    /\ mended \in BOOLEAN

Init ==
    /\ clock = 0 /\ wake = Period
    /\ sweep = {}
    /\ row = [e \in Events |-> None]
    /\ reminded = [e \in Events |-> 0]
    /\ mended = FALSE

Asleep == wake # None

\* The sleep ends when it is over; a sweep takes less than a step of time.
Tick ==
    /\ clock < MaxClock
    /\ Asleep /\ clock < wake
    /\ clock' = clock + 1
    /\ UNCHANGED <<wake, sweep, row, reminded, mended>>

-----------------------------------------------------------------------------
(* check_event_reminders *)

Near(e) == row[e].due - clock \in -Reach..Reach

\* One query for what is neither sent nor cancelled, and the choice by time.
Load ==
    /\ Asleep /\ clock >= wake
    /\ wake' = None
    /\ sweep' = {e \in Events : /\ row[e] # None
                                /\ ~row[e].sent /\ ~row[e].cancelled
                                /\ Near(e)}
    /\ UNCHANGED <<clock, row, reminded, mended>>

\* One transaction for the notifications and the flags of all of them.
Commit ==
    /\ ~Asleep /\ \A e \in sweep : row[e] # None
    /\ row' = [e \in Events |->
                 IF e \in sweep THEN [row[e] EXCEPT !.sent = TRUE] ELSE row[e]]
    /\ reminded' = [e \in Events |-> IF e \in sweep THEN reminded[e] + 1
                                     ELSE reminded[e]]
    /\ wake' = clock + Period /\ sweep' = {}
    /\ UNCHANGED <<clock, mended>>

\* The database is away, or the flag of a deleted event matches no row: the
\* exception is logged, and nobody is reminded of any event of the sweep.
CommitFails ==
    /\ ~Asleep
    /\ wake' = clock + Period /\ sweep' = {} /\ mended' = TRUE
    /\ UNCHANGED <<clock, row, reminded>>

\* A restart begins with a whole sleep.
Restart ==
    /\ wake' = clock + Period /\ sweep' = {} /\ mended' = TRUE
    /\ UNCHANGED <<clock, row, reminded>>

-----------------------------------------------------------------------------
(* calendar.py *)

Create(e, due) ==
    /\ row[e] = None /\ reminded[e] = 0 /\ e \notin sweep
    /\ row' = [row EXCEPT ![e] = [due |-> due, set |-> clock, sent |-> FALSE,
                                  cancelled |-> FALSE]]
    /\ UNCHANGED <<clock, wake, sweep, reminded, mended>>

\* The flag of a reminder stays when the event is moved.
Move(e, due) ==
    /\ row[e] # None
    /\ row' = [row EXCEPT ![e].due = due, ![e].set = clock]
    /\ UNCHANGED <<clock, wake, sweep, reminded, mended>>

\* An occurrence of a series is cancelled, any other event deleted.
Delete(e) ==
    /\ row[e] # None
    /\ \/ row' = [row EXCEPT ![e].cancelled = TRUE]
       \/ row' = [row EXCEPT ![e] = None]
    /\ UNCHANGED <<clock, wake, sweep, reminded, mended>>

-----------------------------------------------------------------------------

Next ==
    \/ Tick \/ Load \/ Commit \/ CommitFails \/ Restart
    \/ \E e \in Events :
         \/ Delete(e)
         \/ \E due \in Times : Create(e, due) \/ Move(e, due)

Spec == Init /\ [][Next]_vars

-----------------------------------------------------------------------------
(* Properties *)

\* The attendees get one reminder of an event that was planned a whole period
\* ahead, once its time has come and a period has passed, if it was neither
\* cancelled nor moved, no sweep failed and the process ran on: every five
\* minutes, the task reminds of the upcoming events.
EveryEventIsReminded ==
    \A e \in Events :
      /\ row[e] # None /\ ~row[e].cancelled /\ ~mended
      /\ row[e].due >= row[e].set + Period
      /\ clock > row[e].due + Period
      => reminded[e] = 1

\* Nobody is reminded twice, and a reminder that was given is recorded: an
\* event without the flag has had none.
RemindedOnce ==
    \A e \in Events :
      /\ reminded[e] \in {0, 1}
      /\ row[e] # None => row[e].sent = (reminded[e] = 1)
=============================================================================
