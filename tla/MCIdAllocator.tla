-------------------------- MODULE MCIdAllocator --------------------------
(* Three racing threads, a u64::MAX of 6, calls that allocate none, one or two
   ids: blocks interleave, and the counter wraps both exactly to 0 and past it.
   No bound is needed: the counter is modular, and a wrap ends the process. *)
EXTENDS IdAllocator
=============================================================================
