---------------------------- MODULE MCTranspile ----------------------------
(* Three tools, each with up to one helper thread at a time, and one id, which
   any of them may make and the others contend for.  Safety: two values, and
   two tools that take their edits out, keep them, exchange them or put one of
   a foreign organizer in.  Liveness: a single value, which no branch of the
   control looks at, and one tool that replaces its edit. *)
EXTENDS Transpile
=============================================================================
