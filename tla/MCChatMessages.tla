---------------------------- MODULE MCChatMessages ----------------------------
(* The channel's creator, and an admin; two requests at once, and room for   *)
(* one pin.                                                                  *)
EXTENDS ChatMessages, TLC

CONSTANTS ann, bob

Symmetry == Permutations(Messages) \cup Permutations(Requests)
=============================================================================
