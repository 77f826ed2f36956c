----------------------------- MODULE Organizer -----------------------------
(***************************************************************************)
(* The edit organizer, ir/src/edit.rs.  An Organizer owns an IR and shares *)
(* a table of ids in use with the edits it created.  Its own methods take  *)
(* &mut self, so they never overlap each other; an Edit belongs to         *)
(* whoever it was handed to and is filled in and dropped on other threads, *)
(* in any interleaving with the organizer's methods.  Each method here is  *)
(* one step: new_edit's checks and its insertions run under the table's    *)
(* mutex, the IR it checks first changes only in apply_edit (&mut self),   *)
(* and what apply_edit does before it drops the edit is seen by no thread. *)
(***************************************************************************)
EXTENDS HarvestIR

CONSTANTS
    Organizers,     \* organizers alive in the process
    Edits,          \* handles: at most this many edits are alive at a time
    NSeed           \* bound: ids allocated before the organizers are built

ASSUME OrganizerAssumption ==
    /\ NSeed \in 0 .. MaxId
    /\ None \notin Organizers

VARIABLES
    ir,         \* ir[o]: Organizer.ir
    in_use,     \* in_use[o]: Organizer.shared.in_use
    owner,      \* owner[e]: the organizer whose Shared edit e points to,
                \* None when no edit lives under handle e
    writable,   \* writable[e]: the keys of Edit.writable
    written,    \* written[e]: the Some entries of Edit.writable
    next_id     \* the next id Id::new returns (IdAllocator, before a wrap)

vars == <<ir, in_use, owner, writable, written, next_id>>

TypeOK ==
    /\ ir \in [Organizers -> IRs]
    /\ in_use \in [Organizers -> SUBSET Ids]
    /\ owner \in [Edits -> Organizers \cup {None}]
    /\ writable \in [Edits -> SUBSET Ids]
    /\ written \in [Edits -> IRs]
    /\ next_id \in 1 .. MaxId + 1

Live(e) == owner[e] # None

(* Organizer::with_harvest_ir: each organizer starts from some IR over ids
   allocated earlier; clones of one IR may be given to several of them. *)
Init ==
    /\ next_id = NSeed + 1
    /\ ir \in [Organizers -> {m \in IRs : Contents(m) \subseteq 1 .. NSeed}]
    /\ in_use = [o \in Organizers |-> {}]
    /\ owner = [e \in Edits |-> None]
    /\ writable = [e \in Edits |-> {}]
    /\ written = [e \in Edits |-> Empty]

(* Organizer::new_edit that returns Ok; a request that is refused changes
   nothing.  Callers know allocated ids only. *)
NewEdit(o, e, mightWrite) ==
    /\ ~Live(e)
    /\ mightWrite \subseteq 1 .. next_id - 1
    /\ NewEditOutcome(ir[o], in_use[o], mightWrite) = "Ok"
    /\ in_use' = [in_use EXCEPT ![o] = @ \cup mightWrite]
    /\ owner' = [owner EXCEPT ![e] = o]
    /\ writable' = [writable EXCEPT ![e] = mightWrite]
    /\ UNCHANGED <<ir, written, next_id>>

BadFresh == next_id - NSeed - 1     \* counted anew, and from 0

(* Id::new. *)
Fresh == next_id

(* Edit::add_representation *)
AddRepresentation(e, r) ==
    /\ Live(e)
    /\ next_id <= MaxId
    /\ writable' = [writable EXCEPT ![e] = @ \cup {Fresh}]
    /\ written' = [written EXCEPT ![e][Fresh] = r]
    /\ next_id' = next_id + 1
    /\ UNCHANGED <<ir, in_use, owner>>

(* Edit::new_id *)
NewId(e) ==
    /\ Live(e)
    /\ next_id <= MaxId
    /\ writable' = [writable EXCEPT ![e] = @ \cup {Fresh}]
    /\ next_id' = next_id + 1
    /\ UNCHANGED <<ir, in_use, owner, written>>

BadMayWrite(e, i) == i < next_id

MayWrite(e, i) == i \in writable[e]

(* Edit::try_write_id that returns Ok; NotWritable changes nothing, and
   write_id turns it into a panic of the tool. *)
WriteId(e, i, r) ==
    /\ Live(e)
    /\ MayWrite(e, i)
    /\ written' = [written EXCEPT ![e][i] = r]
    /\ UNCHANGED <<ir, in_use, owner, writable, next_id>>

BadReleased(e) == {}

(* Drop for Edit: the ids that leave the in_use table of the edit's own
   organizer.  Ids the edit allocated are not in it and leave no trace. *)
Released(e) == writable[e]

(* Edit::drop *)
Drop(e) ==
    /\ in_use' = [in_use EXCEPT ![owner[e]] = @ \ Released(e)]
    /\ owner' = [owner EXCEPT ![e] = None]
    /\ writable' = [writable EXCEPT ![e] = {}]
    /\ written' = [written EXCEPT ![e] = Empty]

BadIsOwn(o, e) == TRUE

(* Arc::ptr_eq(&self.shared, &edit.shared) *)
IsOwn(o, e) == owner[e] = o

(* Organizer::apply_edit.  It consumes the edit in either case, so a
   WrongOrganizer error drops it, on the organizer it came from. *)
ApplyEdit(o, e) ==
    /\ Live(e)
    /\ ir' = IF IsOwn(o, e) THEN [ir EXCEPT ![o] = Overlay(@, written[e])]
                            ELSE ir
    /\ Drop(e)
    /\ UNCHANGED next_id

(* An edit is dropped unapplied: its tool failed or panicked. *)
DropEdit(e) ==
    /\ Live(e)
    /\ Drop(e)
    /\ UNCHANGED <<ir, next_id>>

Next ==
    \E e \in Edits :
        \/ \E o \in Organizers, S \in SUBSET Ids : NewEdit(o, e, S)
        \/ \E r \in Reprs : AddRepresentation(e, r)
        \/ NewId(e)
        \/ \E i \in Ids, r \in Reprs : WriteId(e, i, r)
        \/ \E o \in Organizers : ApplyEdit(o, e)
        \/ DropEdit(e)

Spec == Init /\ [][Next]_vars
----------------------------------------------------------------------------
(* No two live edits of an organizer may write the same id, the promise of
   edit.rs:10; ids that edits allocate for themselves are included. *)
ExclusiveEdits ==
    \A e, f \in Edits :
        (e # f /\ Live(e) /\ owner[e] = owner[f]) => writable[e] \cap writable[f] = {}

(* The in_use table neither leaks nor forgets: it holds exactly the stored
   ids that some live edit of this organizer may write. *)
LeaseTableExact ==
    \A o \in Organizers :
        in_use[o] = {i \in Contents(ir[o]) :
                        \E e \in Edits : owner[e] = o /\ i \in writable[e]}

(* The recipe of edit.rs:93-98 (read the snapshot, clone, change, write back)
   loses no update: the value of an id an edit may write does not change
   under it as long as the edit is alive. *)
NoLostUpdate ==
    [][\A e \in Edits :
          (Live(e) /\ owner'[e] = owner[e]) =>
              \A i \in writable[e] : ir'[owner[e]][i] = ir[owner[e]][i]]_vars

Holders ==
    [o \in Organizers |->
        [i \in Ids |-> {e \in Edits : owner[e] = o /\ i \in writable[e]}]]

Lease == INSTANCE LeaseStore WITH store <- ir, holders <- Holders

(* The organizer implements the abstract lease store: an edit is granted
   stored ids nobody holds, writes only ids it holds, on its own organizer,
   all at once or not at all, and gives every id back when it ends. *)
ImplementsLeaseStore == Lease!Spec
=============================================================================
