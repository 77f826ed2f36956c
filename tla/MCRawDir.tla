------------------------------ MODULE MCRawDir ------------------------------
EXTENDS RawDir

CONSTANTS a

Entry == {a, Dir}

(* Directories of depth at most 2 as they may stand on disk, empty ones
   included. *)
MCLoaded ==
    {t \in UNION {[S -> Entry] : S \in SUBSET UNION {[1 .. n -> Names] : n \in 1 .. 2}} :
        IsTree(t) /\ Cardinality(Files(t)) < 2}
=============================================================================
