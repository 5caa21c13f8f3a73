----------------------------- MODULE MCPresence -----------------------------
(* ann in one chat tab; bob in two, of two channels, and on the notification *)
(* socket. The first channel is the direct channel of both.                 *)
EXTENDS Presence

CONSTANTS ann, bob, room, hall, a1, b1, b2, bell, q

AllOf == (a1 :> ann @@ b1 :> bob @@ b2 :> bob @@ bell :> bob)
InList == (a1 :> room @@ b1 :> room @@ b2 :> hall @@ bell :> bob)
MCUserOf == [s \in Sockets |-> AllOf[s]]
MCListOf == [s \in Sockets |-> InList[s]]
MCPartners == [ch \in Channels |-> IF ch = room THEN {ann, bob} ELSE {}]
=============================================================================
