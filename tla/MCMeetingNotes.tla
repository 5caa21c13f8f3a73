---------------------------- MODULE MCMeetingNotes ----------------------------
(* Two recordings of one event, whose title may change.                    *)
EXTENDS MeetingNotes
=============================================================================
