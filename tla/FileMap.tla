------------------------------ MODULE FileMap ------------------------------
(***************************************************************************)
(* What a RawDir promises its users (ir/src/fs.rs): a map from file paths  *)
(* to contents in which no file lies under another one, and to which       *)
(* set_file adds one file at a time, never replacing or losing one.        *)
(* Directories are not part of the promise.                                *)
(***************************************************************************)
EXTENDS SequencesExt

CONSTANTS Paths, Contents

VARIABLE files

(* Neither of two files is the other or lies under the other. *)
Compatible(p, q) == ~IsPrefix(p, q) /\ ~IsPrefix(q, p)

PrefixFree(S) == \A p, q \in S : p = q \/ Compatible(p, q)

Init == PrefixFree(DOMAIN files)

SetFile(p, c) ==
    /\ \A q \in DOMAIN files : Compatible(p, q)
    /\ files' = [q \in DOMAIN files \cup {p} |-> IF q = p THEN c ELSE files[q]]

Next == \E p \in Paths, c \in Contents : SetFile(p, c)

Spec == Init /\ [][Next]_files
=============================================================================
