---------------------------- MODULE MCOrganizer ----------------------------
(* Two organizers that may start from clones of an IR with one id,
   and two edits that add up to two ids more and can be handed to the wrong
   organizer. *)
EXTENDS Organizer
=============================================================================
