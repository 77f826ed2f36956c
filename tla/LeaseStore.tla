----------------------------- MODULE LeaseStore -----------------------------
(***************************************************************************)
(* What an organizer promises (ir/src/edit.rs:8-11, 43-47, 88-92), free of *)
(* its in_use table, of pending writes and of dropped handles: a store per *)
(* organizer, every id of which is held by at most one edit at a time.     *)
(* An edit is granted ids that are stored and that nobody holds, may take  *)
(* ids nobody has ever seen, and ends by replacing values it holds, all at *)
(* once, or without any effect; either way it gives everything back.       *)
(***************************************************************************)
EXTENDS HarvestIR

CONSTANTS Organizers, Edits

VARIABLES
    store,      \* store[o]: the IR of organizer o
    holders     \* holders[o][i]: the edits that may write id i of o

leaseVars == <<store, holders>>

Unheld(o, i) == holders[o][i] = {}

HoldsNothing(o, e) == \A i \in Ids : e \notin holders[o][i]

Init ==
    /\ store \in [Organizers -> IRs]
    /\ holders = [o \in Organizers |-> [i \in Ids |-> {}]]

(* e begins: it holds the ids S of o, all stored and all unheld. *)
Grant(o, e, S) ==
    /\ \A p \in Organizers : HoldsNothing(p, e)
    /\ \A i \in S : ContainsId(store[o], i) /\ Unheld(o, i)
    /\ holders' = [holders EXCEPT ![o] =
                      [i \in Ids |-> IF i \in S THEN {e} ELSE @[i]]]
    /\ UNCHANGED store

(* e takes an id that no store contains and no edit holds. *)
Take(o, e, i) ==
    /\ \A p \in Organizers : ~ContainsId(store[p], i) /\ Unheld(p, i)
    /\ \A p \in Organizers \ {o} : HoldsNothing(p, e)
    /\ holders' = [holders EXCEPT ![o][i] = {e}]
    /\ UNCHANGED store

Returned(o, e) == [i \in Ids |-> holders[o][i] \ {e}]

(* e ends: values it wrote replace those of ids it holds, nothing else
   changes, and nothing is ever removed from a store. *)
Commit(o, e) ==
    /\ store' \in [Organizers -> IRs]
    /\ \A p \in Organizers, i \in Ids :
          store'[p][i] # store[p][i] =>
              p = o /\ e \in holders[o][i] /\ ContainsId(store'[p], i)
    /\ holders' = [holders EXCEPT ![o] = Returned(o, e)]

(* e ends without effect. *)
Abandon(o, e) ==
    /\ holders' = [holders EXCEPT ![o] = Returned(o, e)]
    /\ UNCHANGED store

Next ==
    \E o \in Organizers, e \in Edits :
        \/ \E S \in SUBSET Ids : Grant(o, e, S)
        \/ \E i \in Ids : Take(o, e, i)
        \/ Commit(o, e)
        \/ Abandon(o, e)

Spec == Init /\ [][Next]_leaseVars
=============================================================================
