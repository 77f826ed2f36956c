-------------------------- MODULE OrganizerProofs --------------------------
(* The organizer keeps its promise for any number of organizers, edits and
   ids: edits exclude each other, the in_use table is exact, and every step is
   one of the abstract lease store. *)
EXTENDS Organizer, TLAPS

(* Everything that is stored or held was allocated before. *)
Allocated ==
    /\ \A o \in Organizers, i \in Ids : ContainsId(ir[o], i) => i < next_id
    /\ \A e \in Edits, i \in Ids : i \in writable[e] => i < next_id

(* A handle under which no edit lives has nothing to release. *)
Idle == \A e \in Edits : ~Live(e) => writable[e] = {} /\ written[e] = Empty

(* Edits write only what they may. *)
Confined == \A e \in Edits, i \in Ids : written[e][i] # None => i \in writable[e]

(* LeaseTableExact, id by id. *)
Exact ==
    \A o \in Organizers, i \in Ids :
        i \in in_use[o] <=>
            /\ ContainsId(ir[o], i)
            /\ \E e \in Edits : owner[e] = o /\ i \in writable[e]

(* The inductive invariant. *)
IInv ==
    /\ TypeOK
    /\ Allocated
    /\ Idle
    /\ Confined
    /\ ExclusiveEdits
    /\ Exact

(* What applying an edit stores. *)
LEMMA OverlayType ==
    ASSUME NEW m \in IRs, NEW w \in IRs
    PROVE  /\ Overlay(m, w) \in IRs
           /\ \A i \in Ids : Overlay(m, w)[i] = IF w[i] = None THEN m[i] ELSE w[i]
  BY DEF Overlay, IRs

(* What a granted request says of the ids it names. *)
LEMMA Granted ==
    ASSUME NEW m, NEW used, NEW S, NewEditOutcome(m, used, S) = "Ok"
    PROVE  \A i \in S : ContainsId(m, i) /\ i \notin used
<1>1. ~(\E i \in S : ~ContainsId(m, i))
  BY DEF NewEditOutcome
<1>2. S \cap used = {}
  BY <1>1 DEF NewEditOutcome
<1> QED
  BY <1>1, <1>2

(* No call of the API leaves the types. *)
LEMMA TypePreserved == TypeOK /\ [Next]_vars => TypeOK'
<1> USE HarvestIRAssumption, OrganizerAssumption
<1>1. Empty \in IRs
  BY DEF Empty, IRs
<1> SUFFICES ASSUME TypeOK, [Next]_vars PROVE TypeOK'
  OBVIOUS
<1> USE DEF TypeOK
<1>2. ASSUME NEW e \in Edits, NEW o \in Organizers, NEW S \in SUBSET Ids, NewEdit(o, e, S)
      PROVE TypeOK'
  BY <1>2 DEF NewEdit
<1>3. ASSUME NEW e \in Edits, NEW r \in Reprs, AddRepresentation(e, r) PROVE TypeOK'
  <2>1. next_id \in Ids /\ next_id + 1 \in 1 .. MaxId + 1
    BY <1>3 DEF AddRepresentation, Ids
  <2>2. [written[e] EXCEPT ![next_id] = r] \in IRs
    BY <2>1 DEF IRs
  <2> QED
    BY <1>3, <2>1, <2>2 DEF AddRepresentation, Fresh
<1>4. ASSUME NEW e \in Edits, NewId(e) PROVE TypeOK'
  <2>1. next_id \in Ids /\ next_id + 1 \in 1 .. MaxId + 1
    BY <1>4 DEF NewId, Ids
  <2> QED
    BY <1>4, <2>1 DEF NewId, Fresh
<1>5. ASSUME NEW e \in Edits, NEW i \in Ids, NEW r \in Reprs, WriteId(e, i, r) PROVE TypeOK'
  <2>1. [written[e] EXCEPT ![i] = r] \in IRs
    BY DEF IRs
  <2> QED
    BY <1>5, <2>1 DEF WriteId
<1>6. ASSUME NEW e \in Edits, NEW o \in Organizers, ApplyEdit(o, e) PROVE TypeOK'
  <2>1. ir' \in [Organizers -> IRs]
    BY <1>6, OverlayType DEF ApplyEdit
  <2> QED
    BY <1>6, <2>1, <1>1 DEF ApplyEdit, Drop
<1>7. ASSUME NEW e \in Edits, DropEdit(e) PROVE TypeOK'
  BY <1>7, <1>1 DEF DropEdit, Drop
<1>8. CASE UNCHANGED vars
  BY <1>8 DEF vars
<1> QED
  BY <1>2, <1>3, <1>4, <1>5, <1>6, <1>7, <1>8 DEF Next

(* Types are preserved by every call of the API, refused ones included. *)
THEOREM TypeCorrect == Spec => []TypeOK
<1>1. Init => TypeOK
  BY HarvestIRAssumption, OrganizerAssumption DEF Init, TypeOK, Empty, IRs
<1> QED
  BY <1>1, TypePreserved, PTL DEF Spec

(* What a drop changes, edit by edit and organizer by organizer. *)
LEMMA DropFacts ==
    ASSUME TypeOK, NEW e \in Edits, Live(e), Drop(e)
    PROVE  /\ owner[e] \in Organizers
           /\ in_use'[owner[e]] = in_use[owner[e]] \ writable[e]
           /\ \A o \in Organizers : o # owner[e] => in_use'[o] = in_use[o]
           /\ owner'[e] = None /\ writable'[e] = {} /\ written'[e] = Empty
           /\ \A f \in Edits \ {e} :
                owner'[f] = owner[f] /\ writable'[f] = writable[f] /\ written'[f] = written[f]
  BY OrganizerAssumption DEF TypeOK, Live, Drop, Released

(* The only ids an applied edit can add to an IR are its own. *)
LEMMA ApplyFacts ==
    ASSUME TypeOK, NEW e \in Edits, NEW o \in Organizers, ApplyEdit(o, e)
    PROVE  /\ owner[e] # o => ir' = ir
           /\ \A p \in Organizers : p # o => ir'[p] = ir[p]
           /\ owner[e] = o =>
                \A i \in Ids : ir'[o][i] = IF written[e][i] = None THEN ir[o][i] ELSE written[e][i]
<1>1. CASE owner[e] = o
  <2>1. ir' = [ir EXCEPT ![o] = Overlay(ir[o], written[e])]
    BY <1>1 DEF ApplyEdit, IsOwn
  <2>2. ir[o] \in IRs /\ written[e] \in IRs
    BY DEF TypeOK
  <2> QED
    BY <1>1, <2>1, <2>2, OverlayType DEF TypeOK
<1>2. CASE owner[e] # o
  BY <1>2 DEF ApplyEdit, IsOwn
<1> QED
  BY <1>1, <1>2

(* A step by which e only gains the new id next_id keeps the invariant: the
   id is in no IR, in no table and in no other edit. *)
LEMMA GainFacts ==
    ASSUME IInv, TypeOK', NEW e \in Edits, Live(e), next_id <= MaxId,
           writable' = [writable EXCEPT ![e] = @ \cup {next_id}],
           \A f \in Edits, i \in Ids :
              written'[f][i] # None => written[f][i] # None \/ (f = e /\ i = next_id),
           \A f \in Edits : f # e => written'[f] = written[f],
           next_id' = next_id + 1,
           UNCHANGED <<ir, in_use, owner>>
    PROVE  IInv'
<1> USE DEF IInv
<1>0. next_id \in Ids
  BY DEF TypeOK, Ids
<1>1. writable'[e] = writable[e] \cup {next_id}
      /\ \A f \in Edits \ {e} : writable'[f] = writable[f]
  BY DEF TypeOK
<1>2. Allocated'
  BY <1>0, <1>1 DEF Allocated, TypeOK, Ids
<1>3. Idle'
  BY <1>1 DEF Idle, Live
<1>4. Confined'
  BY <1>0, <1>1 DEF Confined
<1>5. ExclusiveEdits'
  <2>1. \A f \in Edits : next_id \notin writable[f]
    BY <1>0 DEF Allocated, TypeOK, Ids
  <2> QED
    BY <1>1, <2>1 DEF ExclusiveEdits, Live
<1>6. Exact'
  <2>1. \A o \in Organizers : ~ContainsId(ir[o], next_id)
    BY <1>0 DEF Allocated, TypeOK, Ids
  <2>2. \A o \in Organizers : next_id \notin in_use[o]
    BY <2>1, <1>0 DEF Exact
  <2> QED
    BY <2>1, <2>2, <1>0, <1>1 DEF Exact
<1> QED
  BY <1>2, <1>3, <1>4, <1>5, <1>6

(* An edit that ends, applied to its own organizer or not, leaves a table
   that is exact for the edits that remain. *)
LEMMA EndFacts ==
    ASSUME IInv, TypeOK', NEW e \in Edits, Live(e), Drop(e), next_id' = next_id,
           \A o \in Organizers, i \in Ids :
              ContainsId(ir'[o], i) <=>
                  ContainsId(ir[o], i) \/ (owner[e] = o /\ i \in writable[e] /\ ContainsId(ir'[o], i))
    PROVE  IInv'
<1> USE DEF IInv
<1>1. /\ owner[e] \in Organizers
      /\ in_use'[owner[e]] = in_use[owner[e]] \ writable[e]
      /\ \A o \in Organizers : o # owner[e] => in_use'[o] = in_use[o]
      /\ owner'[e] = None /\ writable'[e] = {} /\ written'[e] = Empty
      /\ \A f \in Edits \ {e} :
            owner'[f] = owner[f] /\ writable'[f] = writable[f] /\ written'[f] = written[f]
  BY DropFacts
<1>2. Allocated'
  BY <1>1 DEF Allocated
<1>3. Idle'
  BY <1>1 DEF Idle, Live
<1>4. Confined'
  BY <1>1 DEF Confined, Empty
<1>5. ExclusiveEdits'
  BY <1>1 DEF ExclusiveEdits, Live
<1>6. Exact'
  <2> SUFFICES ASSUME NEW o \in Organizers, NEW i \in Ids
               PROVE  i \in in_use'[o] <=>
                        /\ ContainsId(ir'[o], i)
                        /\ \E f \in Edits : owner'[f] = o /\ i \in writable'[f]
    BY DEF Exact
  <2>1. i \in in_use[o] <=>
            ContainsId(ir[o], i) /\ \E f \in Edits : owner[f] = o /\ i \in writable[f]
    BY DEF Exact
  <2>2. o # None
    BY OrganizerAssumption
  <2>3. CASE owner[e] = o /\ i \in writable[e]
    <3>1. i \notin in_use'[o]
      BY <2>3, <1>1
    <3>2. \A f \in Edits : owner'[f] = o => i \notin writable'[f]
      BY <2>2, <2>3, <1>1 DEF ExclusiveEdits, Live
    <3> QED
      BY <3>1, <3>2
  <2>4. CASE owner[e] = o /\ i \notin writable[e]
    BY <2>1, <2>2, <2>4, <1>1
  <2>5. CASE owner[e] # o
    BY <2>1, <2>2, <2>5, <1>1
  <2> QED
    BY <2>3, <2>4, <2>5
<1> QED
  BY <1>2, <1>3, <1>4, <1>5, <1>6

(* The inductive invariant. *)
THEOREM Inductive == Spec => []IInv
<1> USE HarvestIRAssumption, OrganizerAssumption
<1>1. Init => IInv
  <2> SUFFICES ASSUME Init PROVE IInv
    OBVIOUS
  <2>1. TypeOK
    BY DEF Init, TypeOK, Empty, IRs
  <2>2. Allocated
    BY DEF Init, Allocated, Contents, Ids
  <2>3. Idle /\ Confined /\ ExclusiveEdits /\ Exact
    BY DEF Init, Idle, Confined, ExclusiveEdits, Exact, Live, Empty
  <2> QED
    BY <2>1, <2>2, <2>3 DEF IInv
<1>2. IInv /\ TypeOK' /\ [Next]_vars => IInv'
  <2> SUFFICES ASSUME IInv, TypeOK', [Next]_vars PROVE IInv'
    OBVIOUS
  <2>1. ASSUME NEW e \in Edits, NEW o \in Organizers, NEW S \in SUBSET Ids, NewEdit(o, e, S)
        PROVE IInv'
    <3> USE DEF IInv
    <3>1. /\ owner[e] = None
          /\ in_use' = [in_use EXCEPT ![o] = in_use[o] \cup S]
          /\ owner' = [owner EXCEPT ![e] = o]
          /\ writable' = [writable EXCEPT ![e] = S]
          /\ UNCHANGED <<ir, written, next_id>>
      BY <2>1 DEF NewEdit, Live
    <3>2. /\ in_use'[o] = in_use[o] \cup S
          /\ \A p \in Organizers \ {o} : in_use'[p] = in_use[p]
          /\ owner'[e] = o /\ writable'[e] = S
          /\ \A f \in Edits \ {e} : owner'[f] = owner[f] /\ writable'[f] = writable[f]
      BY <3>1 DEF TypeOK
    <3>3. \A i \in S : ContainsId(ir[o], i) /\ i \notin in_use[o]
      BY <2>1, Granted DEF NewEdit
    <3>4. \A f \in Edits, i \in S : owner[f] = o => i \notin writable[f]
      BY <3>3 DEF Exact
    <3>5. writable[e] = {} /\ written[e] = Empty
      BY <3>1 DEF Idle, Live
    <3>6. Allocated'
      BY <3>1, <3>2, <3>3 DEF Allocated
    <3>7. Idle'
      BY <3>1, <3>2 DEF Idle, Live
    <3>8. Confined'
      BY <3>1, <3>2, <3>5 DEF Confined, Empty
    <3>9. ExclusiveEdits'
      BY <3>2, <3>4 DEF ExclusiveEdits, Live
    <3>10. Exact'
      BY <3>1, <3>2, <3>3, <3>5 DEF Exact
    <3> QED
      BY <3>6, <3>7, <3>8, <3>9, <3>10
  <2>2. ASSUME NEW e \in Edits, NEW r \in Reprs, AddRepresentation(e, r) PROVE IInv'
    <3>1. /\ Live(e) /\ next_id <= MaxId
          /\ writable' = [writable EXCEPT ![e] = @ \cup {next_id}]
          /\ written' = [written EXCEPT ![e][next_id] = r]
          /\ next_id' = next_id + 1
          /\ UNCHANGED <<ir, in_use, owner>>
      BY <2>2 DEF AddRepresentation, Fresh
    <3>2. \A f \in Edits : written[f] \in IRs
      BY DEF IInv, TypeOK
    <3>3. \A f \in Edits : f # e => written'[f] = written[f]
      BY <3>1 DEF IInv, TypeOK
    <3>4. \A f \in Edits, i \in Ids :
              written'[f][i] # None => written[f][i] # None \/ (f = e /\ i = next_id)
      BY <3>1, <3>2 DEF IInv, TypeOK, IRs
    <3> QED
      BY <3>1, <3>3, <3>4, GainFacts
  <2>3. ASSUME NEW e \in Edits, NewId(e) PROVE IInv'
    <3>1. /\ Live(e) /\ next_id <= MaxId
          /\ writable' = [writable EXCEPT ![e] = @ \cup {next_id}]
          /\ written' = written
          /\ next_id' = next_id + 1
          /\ UNCHANGED <<ir, in_use, owner>>
      BY <2>3 DEF NewId, Fresh
    <3> QED
      BY <3>1, GainFacts
  <2>4. ASSUME NEW e \in Edits, NEW i \in Ids, NEW r \in Reprs, WriteId(e, i, r) PROVE IInv'
    <3> USE DEF IInv
    <3>1. /\ i \in writable[e] /\ Live(e)
          /\ written' = [written EXCEPT ![e][i] = r]
          /\ UNCHANGED <<ir, in_use, owner, writable, next_id>>
      BY <2>4 DEF WriteId, MayWrite
    <3>2. \A f \in Edits, j \in Ids :
              written'[f][j] # None => written[f][j] # None \/ (f = e /\ j = i)
      BY <3>1 DEF TypeOK, IRs
    <3>3. Confined'
      BY <3>1, <3>2 DEF Confined
    <3>4. Idle'
      BY <3>1 DEF Idle, Live, TypeOK
    <3> QED
      BY <3>1, <3>3, <3>4 DEF Allocated, ExclusiveEdits, Exact, Live
  <2>5. ASSUME NEW e \in Edits, NEW o \in Organizers, ApplyEdit(o, e) PROVE IInv'
    <3>1. Live(e) /\ Drop(e) /\ next_id' = next_id
      BY <2>5 DEF ApplyEdit
    <3>2. TypeOK
      BY DEF IInv
    <3>3. \A p \in Organizers, i \in Ids :
              ContainsId(ir'[p], i) <=>
                  ContainsId(ir[p], i) \/ (owner[e] = p /\ i \in writable[e] /\ ContainsId(ir'[p], i))
      BY <2>5, <3>2, ApplyFacts DEF IInv, Confined, ContainsId
    <3> QED
      BY <3>1, <3>3, EndFacts
  <2>6. ASSUME NEW e \in Edits, DropEdit(e) PROVE IInv'
    BY <2>6, EndFacts DEF DropEdit
  <2>7. CASE UNCHANGED vars
    BY <2>7 DEF vars, IInv, TypeOK, Allocated, Idle, Confined, ExclusiveEdits, Exact, Live
  <2> QED
    BY <2>1, <2>2, <2>3, <2>4, <2>5, <2>6, <2>7 DEF Next
<1> QED
  BY <1>1, <1>2, TypeCorrect, PTL DEF Spec

(* No two live edits of an organizer may write the same id. *)
THEOREM Exclusion == Spec => []ExclusiveEdits
<1>1. IInv => ExclusiveEdits
  BY DEF IInv
<1> QED
  BY <1>1, Inductive, PTL

(* The in_use table holds exactly the stored ids that live edits may write. *)
THEOREM LeaseTable == Spec => []LeaseTableExact
<1>1. IInv => LeaseTableExact
  BY DEF IInv, TypeOK, Exact, LeaseTableExact, Contents
<1> QED
  BY <1>1, Inductive, PTL

(* The value of an id does not change under a live edit that may write it. *)
THEOREM LostUpdateFree == Spec => NoLostUpdate
<1> DEFINE Stable ==
      \A e \in Edits :
          (Live(e) /\ owner'[e] = owner[e]) =>
              \A i \in writable[e] : ir'[owner[e]][i] = ir[owner[e]][i]
<1>1. IInv /\ [Next]_vars => [Stable]_vars
  <2> SUFFICES ASSUME IInv, Next, NEW f \in Edits, Live(f), owner'[f] = owner[f],
                      NEW i \in writable[f]
               PROVE  ir'[owner[f]][i] = ir[owner[f]][i]
    BY DEF vars
  <2> USE DEF IInv
  <2>0. owner[f] \in Organizers /\ i \in Ids /\ owner[f] # None
    BY DEF TypeOK, Live
  <2>1. CASE ir' = ir
    BY <2>1
  <2>2. ASSUME NEW e \in Edits, NEW o \in Organizers, ApplyEdit(o, e)
        PROVE  ir'[owner[f]][i] = ir[owner[f]][i]
    <3>1. CASE owner[f] # o \/ owner[e] # o
      BY <2>0, <2>2, <3>1, ApplyFacts
    <3>2. CASE owner[f] = o /\ owner[e] = o
      <4>1. owner'[e] = None
        BY <2>2, DropFacts DEF ApplyEdit
      <4>2. e # f
        BY <4>1, <2>0
      <4>3. i \notin writable[e]
        BY <4>2, <3>2 DEF ExclusiveEdits
      <4>4. written[e][i] = None
        BY <4>3, <2>0 DEF Confined
      <4> QED
        BY <2>0, <2>2, <3>2, <4>4, ApplyFacts
    <3> QED
      BY <3>1, <3>2
  <2> QED
    BY <2>1, <2>2 DEF Next, NewEdit, AddRepresentation, NewId, WriteId, DropEdit
<1> QED
  BY <1>1, Inductive, PTL DEF Spec, NoLostUpdate

(* Two tables of holders are the same if they agree on every id. *)
LEMMA HoldersEqual ==
    ASSUME NEW H \in [Organizers -> [Ids -> SUBSET Edits]],
           NEW G \in [Organizers -> [Ids -> SUBSET Edits]],
           \A o \in Organizers, i \in Ids : H[o][i] = G[o][i]
    PROVE  H = G
<1>1. \A o \in Organizers : H[o] = G[o]
  OBVIOUS
<1> QED
  BY <1>1

(* The refinement mapping, id by id. *)
LEMMA HoldersValue ==
    /\ Holders \in [Organizers -> [Ids -> SUBSET Edits]]
    /\ \A o \in Organizers, i \in Ids :
          Holders[o][i] = {e \in Edits : owner[e] = o /\ i \in writable[e]}
  BY DEF Holders

(* When e ends, exactly e disappears from the table. *)
LEMMA ReturnedFacts ==
    ASSUME IInv, NEW e \in Edits, Live(e), Drop(e)
    PROVE  /\ owner[e] \in Organizers
           /\ Holders' = [Holders EXCEPT ![owner[e]] = Lease!Returned(owner[e], e)]
<1> DEFINE R == [Holders EXCEPT ![owner[e]] = Lease!Returned(owner[e], e)]
<1>1. /\ owner[e] \in Organizers
      /\ owner'[e] = None /\ writable'[e] = {}
      /\ \A f \in Edits \ {e} : owner'[f] = owner[f] /\ writable'[f] = writable[f]
  BY DropFacts DEF IInv
<1>2. Lease!Returned(owner[e], e) = [i \in Ids |-> Holders[owner[e]][i] \ {e}]
  BY DEF Lease!Returned, Lease!Ids, Ids
<1>3. R \in [Organizers -> [Ids -> SUBSET Edits]]
  BY <1>1, <1>2, HoldersValue
<1>4. Holders' \in [Organizers -> [Ids -> SUBSET Edits]]
      /\ \A o \in Organizers, i \in Ids :
            Holders'[o][i] = {f \in Edits : owner'[f] = o /\ i \in writable'[f]}
  BY DEF Holders
<1>5. ASSUME NEW o \in Organizers, NEW i \in Ids PROVE Holders'[o][i] = R[o][i]
  <2>1. CASE o = owner[e]
    <3>1. R[o][i] = {f \in Edits : owner[f] = o /\ i \in writable[f]} \ {e}
      BY <1>1, <1>2, <2>1, HoldersValue
    <3>2. Holders'[o][i] = {f \in Edits : owner[f] = o /\ i \in writable[f]} \ {e}
      BY <1>1, <1>4, <2>1, OrganizerAssumption
    <3> QED
      BY <3>1, <3>2
  <2>2. CASE o # owner[e]
    <3>1. R[o][i] = {f \in Edits : owner[f] = o /\ i \in writable[f]}
      BY <1>1, <2>2, HoldersValue
    <3>2. Holders'[o][i] = {f \in Edits : owner[f] = o /\ i \in writable[f]}
      BY <1>1, <1>4, <2>2, OrganizerAssumption
    <3> QED
      BY <3>1, <3>2
  <2> QED
    BY <2>1, <2>2
<1>6. Holders' = R
  BY <1>3, <1>4, <1>5, HoldersEqual
<1> QED
  BY <1>1, <1>6

(* A new id of e is free everywhere, and e holds ids of one organizer only. *)
LEMMA TakeFacts ==
    ASSUME IInv, NEW e \in Edits, Live(e), next_id <= MaxId,
           writable' = [writable EXCEPT ![e] = @ \cup {next_id}],
           UNCHANGED <<ir, owner>>
    PROVE  Lease!Take(owner[e], e, next_id)
<1> USE DEF IInv
<1>1. next_id \in Ids /\ owner[e] \in Organizers
  BY DEF TypeOK, Ids, Live
<1>2. \A p \in Organizers : ~Lease!ContainsId(ir[p], next_id)
  BY <1>1 DEF Allocated, TypeOK, Ids, ContainsId, Lease!ContainsId
<1>3. \A f \in Edits : next_id \notin writable[f]
  BY <1>1 DEF Allocated, TypeOK, Ids
<1>4. \A p \in Organizers : Lease!Unheld(p, next_id)
  BY <1>1, <1>3, HoldersValue DEF Lease!Unheld
<1>5. \A p \in Organizers \ {owner[e]} : Lease!HoldsNothing(p, e)
  BY HoldersValue DEF Lease!HoldsNothing, Lease!Ids, Ids
<1> DEFINE T == [Holders EXCEPT ![owner[e]][next_id] = {e}]
<1>6. T \in [Organizers -> [Ids -> SUBSET Edits]]
  BY <1>1, HoldersValue
<1>7. Holders' \in [Organizers -> [Ids -> SUBSET Edits]]
      /\ \A o \in Organizers, i \in Ids :
            Holders'[o][i] = {f \in Edits : owner[f] = o /\ i \in writable'[f]}
  BY DEF Holders
<1>8. writable'[e] = writable[e] \cup {next_id}
      /\ \A f \in Edits \ {e} : writable'[f] = writable[f]
  BY DEF TypeOK
<1>9. ASSUME NEW o \in Organizers, NEW i \in Ids PROVE Holders'[o][i] = T[o][i]
  <2>1. CASE o = owner[e] /\ i = next_id
    <3>1. T[o][i] = {e}
      BY <2>1, <1>1, HoldersValue
    <3>2. Holders'[o][i] = {e}
      BY <2>1, <1>1, <1>3, <1>7, <1>8
    <3> QED
      BY <3>1, <3>2
  <2>2. CASE ~(o = owner[e] /\ i = next_id)
    <3>1. T[o][i] = Holders[o][i]
      BY <2>2, <1>1, HoldersValue
    <3>2. Holders'[o][i] = {f \in Edits : owner[f] = o /\ i \in writable[f]}
      BY <2>2, <1>7, <1>8
    <3> QED
      BY <3>1, <3>2, HoldersValue
  <2> QED
    BY <2>1, <2>2
<1> HIDE DEF T
<1>10. Holders' = T
  BY <1>6, <1>7, <1>9, HoldersEqual
<1> QED
  BY <1>2, <1>4, <1>5, <1>10 DEF Lease!Take, T

(* Every behaviour of the organizer is one of the abstract lease store. *)
THEOREM Refinement == Spec => ImplementsLeaseStore
<1> USE HarvestIRAssumption, OrganizerAssumption
<1>1. Init => Lease!Init
  <2> SUFFICES ASSUME Init PROVE Lease!Init
    OBVIOUS
  <2>1. ir \in [Organizers -> IRs]
    BY DEF Init
  <2>2. Holders = [o \in Organizers |-> [i \in Ids |-> {}]]
    BY DEF Init, Holders
  <2> QED
    BY <2>1, <2>2 DEF Lease!Init, Lease!IRs, IRs, Lease!Ids, Ids
<1>2. IInv /\ [Next]_vars => [Lease!Next]_(Lease!leaseVars)
  <2> SUFFICES ASSUME IInv, [Next]_vars
               PROVE  Lease!Next \/ UNCHANGED <<ir, Holders>>
    BY DEF Lease!leaseVars
  <2>1. ASSUME NEW e \in Edits, NEW o \in Organizers, NEW S \in SUBSET Ids, NewEdit(o, e, S)
        PROVE Lease!Grant(o, e, S)
    <3>1. /\ owner[e] = None
          /\ owner' = [owner EXCEPT ![e] = o]
          /\ writable' = [writable EXCEPT ![e] = S]
          /\ ir' = ir
      BY <2>1 DEF NewEdit, Live
    <3>2. \A i \in S : ContainsId(ir[o], i) /\ i \notin in_use[o]
      BY <2>1, Granted DEF NewEdit
    <3>3. \A f \in Edits, i \in S : owner[f] = o => i \notin writable[f]
      BY <3>2 DEF IInv, Exact
    <3>4. \A p \in Organizers : Lease!HoldsNothing(p, e)
      BY <3>1, HoldersValue DEF Lease!HoldsNothing, Lease!Ids, Ids
    <3>5. \A i \in S : Lease!ContainsId(ir[o], i) /\ Lease!Unheld(o, i)
      BY <3>2, <3>3, HoldersValue DEF Lease!Unheld, Lease!ContainsId, ContainsId
    <3> DEFINE G == [Holders EXCEPT ![o] = [i \in Ids |-> IF i \in S THEN {e} ELSE @[i]]]
    <3>6. G \in [Organizers -> [Ids -> SUBSET Edits]]
      BY HoldersValue
    <3>7. Holders' \in [Organizers -> [Ids -> SUBSET Edits]]
          /\ \A p \in Organizers, i \in Ids :
                Holders'[p][i] = {f \in Edits : owner'[f] = p /\ i \in writable'[f]}
      BY DEF Holders
    <3>8. /\ owner'[e] = o /\ writable'[e] = S
          /\ \A f \in Edits \ {e} : owner'[f] = owner[f] /\ writable'[f] = writable[f]
      BY <3>1 DEF IInv, TypeOK
    <3>9. ASSUME NEW p \in Organizers, NEW i \in Ids PROVE Holders'[p][i] = G[p][i]
      <4>1. CASE p = o /\ i \in S
        <5>1. G[p][i] = {e}
          BY <4>1, HoldersValue
        <5>2. Holders'[p][i] = {e}
          BY <4>1, <3>3, <3>7, <3>8
        <5> QED
          BY <5>1, <5>2
      <4>2. CASE ~(p = o /\ i \in S)
        <5>1. G[p][i] = Holders[p][i]
          BY <4>2, HoldersValue
        <5>2. Holders'[p][i] = {f \in Edits : owner[f] = p /\ i \in writable[f]}
          BY <4>2, <3>1, <3>7, <3>8
        <5> QED
          BY <5>1, <5>2, HoldersValue
      <4> QED
        BY <4>1, <4>2
    <3>10. Holders' = G
      BY <3>6, <3>7, <3>9, HoldersEqual
    <3> QED
      BY <3>1, <3>4, <3>5, <3>10 DEF Lease!Grant, Lease!Ids, Ids
  <2>2. ASSUME NEW e \in Edits, NEW r \in Reprs, AddRepresentation(e, r) PROVE Lease!Next
    <3>1. next_id \in Ids /\ owner[e] \in Organizers
      BY <2>2 DEF AddRepresentation, IInv, TypeOK, Ids, Live
    <3>2. Lease!Take(owner[e], e, next_id)
      BY <2>2, TakeFacts DEF AddRepresentation, Fresh
    <3> QED
      BY <3>1, <3>2 DEF Lease!Next, Lease!Ids, Ids
  <2>3. ASSUME NEW e \in Edits, NewId(e) PROVE Lease!Next
    <3>1. next_id \in Ids /\ owner[e] \in Organizers
      BY <2>3 DEF NewId, IInv, TypeOK, Ids, Live
    <3>2. Lease!Take(owner[e], e, next_id)
      BY <2>3, TakeFacts DEF NewId, Fresh
    <3> QED
      BY <3>1, <3>2 DEF Lease!Next, Lease!Ids, Ids
  <2>4. ASSUME NEW e \in Edits, NEW i \in Ids, NEW r \in Reprs, WriteId(e, i, r)
        PROVE UNCHANGED <<ir, Holders>>
    BY <2>4 DEF WriteId, Holders
  <2>5. ASSUME NEW e \in Edits, NEW o \in Organizers, ApplyEdit(o, e) PROVE Lease!Next
    <3>1. /\ owner[e] \in Organizers
          /\ Holders' = [Holders EXCEPT ![owner[e]] = Lease!Returned(owner[e], e)]
      BY <2>5, ReturnedFacts DEF ApplyEdit
    <3>2. CASE owner[e] = o
      <4>1. ir' \in [Organizers -> IRs]
        BY <2>5, TypePreserved DEF IInv, TypeOK, Next
      <4>2. ASSUME NEW p \in Organizers, NEW i \in Ids, ir'[p][i] # ir[p][i]
            PROVE  p = o /\ e \in Holders[o][i] /\ ContainsId(ir'[p], i)
        <5>1. p = o /\ written[e][i] # None /\ ir'[p][i] = written[e][i]
          BY <2>5, <3>2, <4>2, ApplyFacts DEF IInv
        <5>2. i \in writable[e]
          BY <5>1 DEF IInv, Confined
        <5> QED
          BY <3>2, <5>1, <5>2, HoldersValue DEF ContainsId
      <4>3. Lease!Commit(o, e)
        BY <3>1, <3>2, <4>1, <4>2
           DEF Lease!Commit, Lease!IRs, IRs, Lease!Ids, Ids, Lease!ContainsId, ContainsId
      <4> QED
        BY <4>3 DEF Lease!Next
    <3>3. CASE owner[e] # o
      <4>1. ir' = ir
        BY <2>5, <3>3 DEF ApplyEdit, IsOwn
      <4>2. Lease!Abandon(owner[e], e)
        BY <3>1, <4>1 DEF Lease!Abandon
      <4> QED
        BY <3>1, <4>2 DEF Lease!Next
    <3> QED
      BY <3>2, <3>3
  <2>6. ASSUME NEW e \in Edits, DropEdit(e) PROVE Lease!Next
    <3>1. /\ owner[e] \in Organizers
          /\ Holders' = [Holders EXCEPT ![owner[e]] = Lease!Returned(owner[e], e)]
      BY <2>6, ReturnedFacts DEF DropEdit
    <3>2. Lease!Abandon(owner[e], e)
      BY <2>6, <3>1 DEF DropEdit, Lease!Abandon
    <3> QED
      BY <3>1, <3>2 DEF Lease!Next
  <2>7. CASE UNCHANGED vars
    BY <2>7 DEF vars, Holders
  <2>8. ASSUME NEW e \in Edits, NEW o \in Organizers, NEW S \in SUBSET Ids, NewEdit(o, e, S)
        PROVE Lease!Next
    BY <2>1, <2>8 DEF Lease!Next, Lease!Ids, Ids
  <2> QED
    BY <2>2, <2>3, <2>4, <2>5, <2>6, <2>7, <2>8 DEF Next
<1> QED
  BY <1>1, <1>2, Inductive, PTL DEF Spec, ImplementsLeaseStore, Lease!Spec
=============================================================================
