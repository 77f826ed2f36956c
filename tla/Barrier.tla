------------------------------ MODULE Barrier ------------------------------
(***************************************************************************)
(* What Collector::diagnostics and ToolJoiner::join promise (translate/    *)
(* src/diagnostics): one party gives up its own handle and waits until all *)
(* other handles are dropped.  Only who has a handle can make another one, *)
(* so a barrier never closes again.  The party may also leave instead.     *)
(***************************************************************************)
EXTENDS Naturals

CONSTANT Barriers

VARIABLES
    handles,    \* how many handles there are
    waiter      \* "away", "holding", "waiting", "through", "left"

vars == <<handles, waiter>>

Init ==
    /\ handles = [b \in Barriers |-> 0]
    /\ waiter = [b \in Barriers |-> "away"]

Party(b, from, to) == waiter[b] = from /\ waiter' = [waiter EXCEPT ![b] = to]

Open(b) == Party(b, "away", "holding") /\ handles' = [handles EXCEPT ![b] = 1]

Clone(b) ==
    /\ handles[b] > 0
    /\ handles' = [handles EXCEPT ![b] = @ + 1]
    /\ UNCHANGED waiter

DropOne(b) == handles[b] > 0 /\ handles' = [handles EXCEPT ![b] = @ - 1]

Wait(b) == DropOne(b) /\ Party(b, "holding", "waiting")

Pass(b) == handles[b] = 0 /\ Party(b, "waiting", "through") /\ UNCHANGED handles

Leave(b) == Party(b, "holding", "left") /\ (DropOne(b) \/ UNCHANGED handles)

Next ==
    \E b \in Barriers :
        \/ Open(b) \/ Clone(b) \/ Wait(b) \/ Pass(b) \/ Leave(b)
        \/ DropOne(b) /\ UNCHANGED waiter

(* Pass is the only step left once the last handle is gone, so this is its
   weak fairness. *)
Opens ==
    \A b \in Barriers :
        waiter[b] = "waiting" /\ handles[b] = 0 ~> waiter[b] = "through"

Safety == Init /\ [][Next]_vars
Spec == Safety /\ Opens
=============================================================================
