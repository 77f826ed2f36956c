----------------------------- MODULE HarvestIR -----------------------------
(***************************************************************************)
(* The data that the organizer, the scheduler and the tools share:         *)
(* HarvestIR of ir/src/lib.rs, a map from ids to representations, and the  *)
(* two pure decisions of ir/src/edit.rs, which edit requests are granted   *)
(* and what applying an edit does to the map.  A representation is a       *)
(* member of the set Reprs; the map is a total function in which None says *)
(* that the key is absent.                                                 *)
(***************************************************************************)
EXTENDS Integers

CONSTANTS
    MaxId,      \* bound: how many ids are ever allocated
    Reprs,      \* values of type Box<dyn Representation>
    None        \* no representation / Option::None

ASSUME HarvestIRAssumption ==
    /\ MaxId \in Nat
    /\ None \notin Reprs

Ids == 1 .. MaxId

(* HarvestIR, and likewise the Option<Box<dyn Representation>> values of an
   edit's writable map. *)
IRs == [Ids -> Reprs \cup {None}]

Empty == [i \in Ids |-> None]

ContainsId(ir, i) == ir[i] # None

Contents(ir) == {i \in Ids : ContainsId(ir, i)}

(* The loop of apply_edit: Some(representation) is inserted, None leaves
   the id as it is. *)
Overlay(ir, written) ==
    [i \in Ids |-> IF written[i] = None THEN ir[i] ELSE written[i]]

(* Mutants, as everywhere in this project: an operator named Bad... stands
   right before the definition it is a broken variant of, and no
   specification uses it. *)
BadNewEditOutcome(ir, inUse, mightWrite) ==
    IF \E i \in mightWrite : ~ContainsId(ir, i) THEN "UnknownId" ELSE "Ok"

(* Organizer::new_edit: an unknown id outranks one that is in use. *)
NewEditOutcome(ir, inUse, mightWrite) ==
    IF \E i \in mightWrite : ~ContainsId(ir, i) THEN "UnknownId"
    ELSE IF mightWrite \cap inUse # {} THEN "IdInUse"
    ELSE "Ok"
=============================================================================
