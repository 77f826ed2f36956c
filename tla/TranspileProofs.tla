-------------------------- MODULE TranspileProofs --------------------------
(* One call of transpile, for any number of tools, helpers, ids and values,
   whatever the tools do with their edits and with those of others: the
   scheduler accounts for every tool, every signal finds its invocation,
   edits and leases are as the organizer promises, and every step is one of
   Organizer and one of Barrier. *)
EXTENDS Transpile, FiniteSetTheorems, SequenceTheorems, TLAPS

(* The thread of t exists, or its result waits to be processed. *)
Started(t) == stage[t] \in {"running", "ok", "err", "sent_ok", "sent_err"}

(* The run of t owns an edit. *)
Run(t) == stage[t] \in {"running", "ok", "sent_ok"}

(* The signal of t is in the channel. *)
HasSent(t) == stage[t] \in {"sent_ok", "sent_err"}

(* In the order of queueing. *)
Increasing(s) == \A j, k \in DOMAIN s : j < k => s[j] < s[k]

(* Nothing is in s twice. *)
Distinct(s) == \A j, k \in DOMAIN s : s[j] = s[k] => j = k

(* ir_version counts the edits that were applied. *)
Counted == ir_version = Cardinality({t \in Tools : stage[t] = "applied"})

(* A tool that was never offered, or put itself off, waits in exactly one of
   the two queues, in the order of queueing. *)
Waiting ==
    /\ Increasing(queue) /\ Increasing(trying)
    /\ \A t \in Elements(queue), u \in Elements(trying) : t < u
    /\ \A t \in Elements(queue) : stage[t] = "queued"
    /\ \A t \in Elements(trying) : stage[t] = "queued" \/ (pc = "spawned" /\ t = Current)
    /\ InTranspile =>
            \A t \in Tools : stage[t] = "queued" => t \in Elements(queue) \cup Elements(trying)
    /\ pc \in {"starting", "spawned"} => trying # <<>>
    /\ pc = "spawned" => Started(Current)
    /\ pc \notin {"schedule", "starting", "spawned"} => trying = <<>>

(* The runner has the handle of every thread whose result it still owes, and
   as long as transpile is not on its error path of every thread there is. *)
Attachment ==
    /\ \A t \in invocations : Started(t)
    /\ \A t \in Tools : HasSent(t) => Attached(t)
    /\ pc \notin {"unwinding", "failed"} =>
            \A t \in Tools : Started(t) => Attached(t)
    /\ pc \in {"exit", "returned", "failed"} => invocations = {}

(* One signal is under way for every thread that has sent one. *)
Signals ==
    InTranspile => Distinct(channel) /\ \A t \in Tools : t \in Elements(channel) <=> HasSent(t)

(* A helper lives no longer than the thread that joins it. *)
Joining == \A t \in Tools : helpers[t] # 0 => stage[t] \in {"running", "ok", "err"}

(* A run has an edit from new_edit until it fails or is processed; none is in
   two places; and none is about that was made for a tool which has yet to be
   started, but the one it is started with. *)
Held ==
    /\ \A t \in Tools : HasEdit(t) <=> Run(t) \/ (pc = "starting" /\ t = Current)
    /\ \A t, u \in Tools : edit[t] = edit[u] /\ edit[t] \in Tools => t = u
    /\ \A t \in Tools : edit[t] \notin kept
    /\ \A e \in Tools : Live(e) /\ stage[e] = "queued" => edit[e] = e

(* Everything that is stored, held, or was seen, was allocated before. *)
Allocated ==
    \A i \in Ids :
        /\ ContainsId(ir, i) => i < next_id
        /\ \A e \in Tools : i \in writable[e] \/ ContainsId(snap[e], i) => i < next_id

(* Of an edit that is gone there is nothing to release and nothing to apply. *)
Idle == \A e \in Tools : ~Live(e) => writable[e] = {} /\ written[e] = Empty

(* Edits write only what they may. *)
Confined == \A e \in Tools, i \in Ids : written[e][i] # None => i \in writable[e]

(* No two edits may write one id. *)
Exclusive == \A e, f \in Tools : e # f => writable[e] \cap writable[f] = {}

(* The in_use table, id by id. *)
Exact ==
    \A i \in Ids :
        i \in in_use <=> ContainsId(ir, i) /\ \E e \in Tools : i \in writable[e]

(* What holds of the edits and the organizer's table. *)
EditInv ==
    /\ Allocated /\ Idle /\ Confined /\ Exclusive /\ Exact
    /\ SnapshotStaysCurrent

(* From the moment it is taken until the first result is applied, transpile's
   local variable is the organizer's IR. *)
SnapshotIsIR ==
    pc \in {"schedule", "starting", "spawned", "process", "exit"} => snapshot = ir

(* Why a tool is back in the queue: it said so in this pass, or it needs an id
   that is in use, by a tool which is still being run or by kept edits only. *)
Passes ==
    /\ pc \in {"schedule", "starting", "spawned", "process"} =>
            /\ \A t \in Elements(queue) : said[t] # "nothing"
            /\ (\E t \in Tools : said[t] = "IdInUse") => invocations # {}
    /\ pc = "exit" => \A t \in Elements(queue) : said[t] \in {"TryAgain", "Kept"}

(* The inductive invariant. *)
IInv ==
    /\ TypeOK
    /\ Counted /\ Waiting /\ Attachment /\ Signals /\ Joining /\ Held
    /\ EditInv /\ SnapshotIsIR /\ Passes
----------------------------------------------------------------------------
(* Queues and channels *)

(* What push and send do to what a sequence holds and how. *)
LEMMA AppendFacts ==
    ASSUME NEW s \in Seq(Tools), NEW t \in Tools
    PROVE  /\ Append(s, t) \in Seq(Tools)
           /\ Append(s, t) # <<>>
           /\ Elements(Append(s, t)) = Elements(s) \cup {t}
           /\ Increasing(s) /\ (\A u \in Elements(s) : u < t) => Increasing(Append(s, t))
           /\ Distinct(s) /\ t \notin Elements(s) => Distinct(Append(s, t))
<1> DEFINE a == Append(s, t)
<1>1. /\ a \in Seq(Tools) /\ a # <<>> /\ Len(a) = Len(s) + 1 /\ a[Len(s) + 1] = t
      /\ \A k \in 1 .. Len(s) : a[k] = s[k]
  BY AppendProperties
<1>2. /\ Len(s) \in Nat /\ DOMAIN s = 1 .. Len(s) /\ DOMAIN a = 1 .. Len(s) + 1
      /\ \A k \in DOMAIN s : s[k] \in Tools
  BY <1>1, LenProperties
<1> HIDE DEF a
<1>3. DOMAIN a = DOMAIN s \cup {Len(s) + 1} /\ \A k \in DOMAIN s : k < Len(s) + 1
  BY <1>2
<1>4. Elements(a) = Elements(s) \cup {t}
  BY <1>1, <1>2, <1>3 DEF Elements
<1>5. ASSUME Increasing(s), \A u \in Elements(s) : u < t PROVE Increasing(a)
  <2> SUFFICES ASSUME NEW j \in DOMAIN a, NEW k \in DOMAIN a, j < k PROVE a[j] < a[k]
    BY DEF Increasing
  <2>1. j \in DOMAIN s /\ a[j] = s[j] /\ s[j] \in Elements(s)
    BY <1>1, <1>2, <1>3 DEF Elements
  <2> QED
    BY <1>1, <1>2, <1>3, <1>5, <2>1 DEF Increasing
<1>6. ASSUME Distinct(s), t \notin Elements(s) PROVE Distinct(a)
  <2> SUFFICES ASSUME NEW j \in DOMAIN a, NEW k \in DOMAIN a, a[j] = a[k] PROVE j = k
    BY DEF Distinct
  <2>1. \A m \in DOMAIN s : a[m] = s[m] /\ s[m] # t
    BY <1>1, <1>2, <1>6 DEF Elements
  <2> QED
    BY <1>1, <1>3, <1>6, <2>1 DEF Distinct
<1> QED
  BY <1>1, <1>4, <1>5, <1>6 DEF a

(* What taking the first element leaves. *)
LEMMA TailFacts ==
    ASSUME NEW s \in Seq(Tools), s # <<>>
    PROVE  /\ Head(s) \in Tools /\ Tail(s) \in Seq(Tools)
           /\ Elements(s) = {Head(s)} \cup Elements(Tail(s))
           /\ Increasing(s) => Increasing(Tail(s)) /\ \A t \in Elements(Tail(s)) : Head(s) < t
           /\ Distinct(s) => Distinct(Tail(s)) /\ Head(s) \notin Elements(Tail(s))
<1> DEFINE r == Tail(s)
<1>1. /\ Head(s) \in Tools /\ r \in Seq(Tools)
      /\ Len(r) = Len(s) - 1 /\ \A k \in 1 .. Len(r) : r[k] = s[k + 1]
  BY HeadTailProperties
<1>2. /\ Len(s) \in Nat \ {0} /\ DOMAIN s = 1 .. Len(s) /\ DOMAIN r = 1 .. Len(s) - 1
      /\ Head(s) = s[1]
  BY <1>1, LenProperties, EmptySeq
<1> HIDE DEF r
<1>3. /\ \A k \in DOMAIN r : k \in Nat /\ k + 1 \in DOMAIN s /\ 1 < k + 1 /\ r[k] = s[k + 1]
      /\ \A k \in DOMAIN s : k = 1 \/ (k - 1 \in DOMAIN r /\ s[k] = r[k - 1])
      /\ 1 \in DOMAIN s
  BY <1>1, <1>2
<1>4. Elements(s) = {Head(s)} \cup Elements(r)
  <2>1. \A t \in Elements(s) : t = Head(s) \/ t \in Elements(r)
    BY <1>2, <1>3 DEF Elements
  <2>2. \A t \in Elements(r) : t \in Elements(s)
    BY <1>3 DEF Elements
  <2>3. Head(s) \in Elements(s)
    BY <1>2, <1>3 DEF Elements
  <2> QED
    BY <2>1, <2>2, <2>3
<1>5. ASSUME Increasing(s) PROVE Increasing(r) /\ \A t \in Elements(r) : Head(s) < t
  BY <1>2, <1>3, <1>5 DEF Increasing, Elements
<1>6. ASSUME Distinct(s) PROVE Distinct(r) /\ Head(s) \notin Elements(r)
  BY <1>2, <1>3, <1>6 DEF Distinct, Elements
<1> QED
  BY <1>1, <1>4, <1>5, <1>6 DEF r

(* The empty queue. *)
LEMMA EmptyFacts ==
    /\ <<>> \in Seq(Tools)
    /\ Elements(<<>>) = {}
    /\ Increasing(<<>>) /\ Distinct(<<>>)
  BY DEF Elements, Increasing, Distinct

(* A queue holds tools, and is empty when it holds none. *)
LEMMA ElementsType ==
    ASSUME NEW s \in Seq(Tools)
    PROVE  Elements(s) \subseteq Tools /\ (Elements(s) = {} => s = <<>>)
<1>1. s # <<>> => Head(s) \in Elements(s)
  BY TailFacts
<1> QED
  BY <1>1, LenProperties, ElementOfSeq DEF Elements
----------------------------------------------------------------------------
(* Types *)

(* The default IR is one. *)
LEMMA EmptyIsIR == Empty \in IRs
  BY DEF Empty, IRs

(* What apply_edit stores is an IR, with the edit's value where it has one. *)
LEMMA OverlayType ==
    ASSUME NEW m \in IRs, NEW w \in IRs
    PROVE  /\ Overlay(m, w) \in IRs
           /\ \A i \in Ids : Overlay(m, w)[i] = IF w[i] = None THEN m[i] ELSE w[i]
  BY DEF Overlay, IRs

(* The tool that is being offered is one that waits in line. *)
LEMMA CurrentFacts ==
    ASSUME TypeOK, Waiting, trying # <<>>
    PROVE  /\ Current \in Tools /\ Current \in Elements(trying)
           /\ Tail(trying) \in Seq(Tools)
           /\ pc # "spawned" => stage[Current] = "queued"
           /\ Elements(trying) = {Current} \cup Elements(Tail(trying))
           /\ \A t \in Elements(Tail(trying)) : t \in Tools /\ Current < t /\ stage[t] = "queued"
           /\ \A t \in Elements(queue) : t \in Tools /\ t < Current
           /\ Increasing(Tail(trying))
<1>1. trying \in Seq(Tools) /\ queue \in Seq(Tools)
  BY DEF TypeOK
<1>2. /\ Current \in Tools /\ Tail(trying) \in Seq(Tools)
      /\ Elements(trying) = {Current} \cup Elements(Tail(trying))
      /\ Increasing(Tail(trying)) /\ \A t \in Elements(Tail(trying)) : Current < t
  BY <1>1, TailFacts DEF Current, Waiting
<1>3. /\ \A t \in Elements(Tail(trying)) : t \in Tools
      /\ \A t \in Elements(queue) : t \in Tools
  BY <1>1, <1>2, ElementsType
<1>4. \A t \in Elements(Tail(trying)) : t # Current /\ t \in Elements(trying)
  BY <1>2, <1>3 DEF Tools
<1> QED
  BY <1>2, <1>3, <1>4 DEF Waiting

(* The types after an edit is dropped. *)
LEMMA DropEditType ==
    ASSUME TypeOK, NEW t \in Tools, DropEdit(t)
    PROVE  /\ in_use' \subseteq Ids
           /\ writable' \in [Tools -> SUBSET Ids]
           /\ written' \in [Tools -> IRs]
           /\ snap' \in [Tools -> IRs]
  BY EmptyIsIR DEF TypeOK, DropEdit, Released

(* ... and after whatever a thread has in its variable is. *)
LEMMA DropHeldType ==
    ASSUME TypeOK, NEW t \in Tools, DropHeld(t)
    PROVE  /\ in_use' \subseteq Ids
           /\ writable' \in [Tools -> SUBSET Ids]
           /\ written' \in [Tools -> IRs]
           /\ snap' \in [Tools -> IRs]
           /\ edit' \in [Tools -> Tools \cup {None, Foreign}]
           /\ kept' \subseteq Tools
<1>1. CASE edit[t] \in Tools
  BY <1>1, DropEditType DEF DropHeld, TypeOK
<1>2. CASE edit[t] \notin Tools
  BY <1>2 DEF DropHeld, TypeOK
<1> QED
  BY <1>1, <1>2

(* The calls on an edit touch no thread and nothing of the main thread's. *)
LEMMA CallFacts ==
    ASSUME NEW e, EditCall(e)
    PROVE  UNCHANGED <<pc, snapshot, queue, trying, invocations, channel, ir_version, said,
                       ir, stage, helpers, edit>>
  BY DEF EditCall, AddRepresentation, NewId, WriteId, DropKept, mainVars, irVars

(* Every step keeps the types; that ir_version is in its range follows from
   what it counts. *)
LEMMA TypePreserved ==
    ASSUME TypeOK, Waiting, Held, [Next]_vars, ir_version' \in 0 .. NTools
    PROVE  TypeOK'
<1> USE DEF TypeOK, PCs
<1>1. CASE TakeSnapshot
  BY <1>1, EmptyFacts DEF TakeSnapshot, irVars, toolVars, editVars
<1>2. ASSUME Offering, NEW reason \in {"TryAgain", "IdInUse", "Kept"}, TryLater(reason) PROVE TypeOK'
  <2>1. Current \in Tools /\ Tail(trying) \in Seq(Tools)
    BY <1>2, CurrentFacts DEF Offering
  <2>2. Requeued \in Seq(Tools)
    BY <2>1, AppendFacts DEF Requeued
  <2> QED
    BY <1>2, <2>1, <2>2 DEF TryLater, irVars, toolVars, editVars
<1>3. ASSUME Offering, GiveUp PROVE TypeOK'
  BY <1>3, CurrentFacts DEF GiveUp, Offering, irVars, editVars, Stages
<1>4. ASSUME NEW S \in Requests, RunnableNewEdit(S) PROVE TypeOK'
  <2>1. S \subseteq 1 .. next_id - 1 /\ 1 .. next_id - 1 \subseteq Ids
    BY HarvestIRAssumption DEF Requests, Ids
  <2>2. Current \in Tools
    BY <1>4, CurrentFacts DEF RunnableNewEdit, Offering
  <2> QED
    BY <1>4, <2>1, <2>2 DEF RunnableNewEdit
<1>5. CASE StartRun
  BY <1>5 DEF StartRun, irVars, editVars, Stages
<1>6. CASE StartRunFails
  <2>1. Current \in Tools
    BY <1>6, CurrentFacts DEF StartRunFails, Waiting
  <2> QED
    BY <1>6, <2>1, DropHeldType, EmptyFacts DEF StartRunFails, Stages
<1>7. CASE RecordInvocation
  <2>1. Current \in Tools /\ Tail(trying) \in Seq(Tools)
    BY <1>7, CurrentFacts DEF RecordInvocation, Waiting
  <2> QED
    BY <1>7, <2>1 DEF RecordInvocation, Recorded, irVars, toolVars, editVars
<1>8. CASE ScheduleDone \/ NoTools \/ DrainDone
  BY <1>8 DEF ScheduleDone, NoTools, DrainDone, irVars, toolVars, editVars
<1>9. CASE ProcessOk
  <2>1. Signalled \in Tools /\ Tail(channel) \in Seq(Tools)
    BY <1>9, TailFacts DEF ProcessOk, Signalled
  <2>2. edit[Signalled] \in Tools
    BY <1>9, <2>1 DEF ProcessOk, Held, Run, HasEdit
  <2>3. ir' \in IRs
    BY <1>9, <2>2, OverlayType DEF ProcessOk, Applied
  <2> QED
    BY <1>9, <2>1, <2>3, DropHeldType DEF ProcessOk, Stages
<1>10. CASE ProcessErr
  <2>1. Signalled \in Tools /\ Tail(channel) \in Seq(Tools)
    BY <1>10, TailFacts DEF ProcessErr, Signalled
  <2> QED
    BY <1>10, <2>1 DEF ProcessErr, irVars, editVars, Stages
<1>11. CASE ProcessWrongOrganizer
  <2>1. Signalled \in Tools /\ Tail(channel) \in Seq(Tools)
    BY <1>11, TailFacts DEF ProcessWrongOrganizer, Signalled
  <2> QED
    BY <1>11, <2>1, DropHeldType DEF ProcessWrongOrganizer, Stages
<1>12. CASE Return
  BY <1>12, EmptyFacts DEF Return, irVars, toolVars, editVars
<1>13. ASSUME NEW t \in Tools, DetachFinished(t) PROVE TypeOK'
  BY <1>13, DropHeldType DEF DetachFinished, Stages
<1>14. ASSUME NEW t \in Tools, DetachRunning(t) PROVE TypeOK'
  BY <1>14 DEF DetachRunning, irVars, toolVars, editVars
<1>15. ASSUME NEW t \in Tools, NEW r \in Reprs, AddRepresentation(t, r) PROVE TypeOK'
  <2>1. next_id \in Ids /\ next_id + 1 \in 1 .. MaxId + 1
    BY <1>15, HarvestIRAssumption DEF AddRepresentation, Ids
  <2>2. [written[t] EXCEPT ![next_id] = r] \in IRs
    BY <2>1 DEF IRs
  <2> QED
    BY <1>15, <2>1, <2>2 DEF AddRepresentation, Fresh, mainVars
<1>16. ASSUME NEW t \in Tools, NewId(t) PROVE TypeOK'
  <2>1. next_id \in Ids /\ next_id + 1 \in 1 .. MaxId + 1
    BY <1>16, HarvestIRAssumption DEF NewId, Ids
  <2> QED
    BY <1>16, <2>1 DEF NewId, Fresh, mainVars
<1>17. ASSUME NEW t \in Tools, NEW i \in Ids, NEW r \in Reprs, WriteId(t, i, r) PROVE TypeOK'
  <2>1. [written[t] EXCEPT ![i] = r] \in IRs
    BY DEF IRs
  <2> QED
    BY <1>17, <2>1 DEF WriteId, mainVars, irVars
<1>18. ASSUME NEW t \in Tools, DropKept(t) PROVE TypeOK'
  BY <1>18, DropEditType DEF DropKept, mainVars
<1>19. ASSUME NEW t \in Tools, NEW e \in Tools \cup {Foreign}, ReplaceEdit(t, e) PROVE TypeOK'
  <2>1. edit[t] \in Tools \cup {Foreign}
    BY <1>19 DEF ReplaceEdit, Running, Held, Run, HasEdit
  <2> QED
    BY <1>19, <2>1 DEF ReplaceEdit, mainVars, irVars
<1>20. ASSUME NEW t \in Tools, SpawnHelper(t) \/ HelperExits(t) PROVE TypeOK'
  <2>1. SpawnHelper(t) => helpers[t] + 1 \in 0 .. MaxHelpers
    BY TranspileAssumption DEF SpawnHelper
  <2>2. HelperExits(t) => helpers[t] - 1 \in 0 .. MaxHelpers
    BY TranspileAssumption DEF HelperExits
  <2>3. helpers' \in [Tools -> 0 .. MaxHelpers]
    BY <1>20, <2>1, <2>2 DEF SpawnHelper, HelperExits
  <2> QED
    BY <1>20, <2>3 DEF SpawnHelper, HelperExits, mainVars, irVars, editVars
<1>21. ASSUME NEW t \in Tools, RunReturnsOk(t) PROVE TypeOK'
  BY <1>21 DEF RunReturnsOk, mainVars, irVars, editVars, Stages
<1>22. ASSUME NEW t \in Tools, RunFails(t) PROVE TypeOK'
  BY <1>22, DropHeldType DEF RunFails, mainVars, Stages
<1>23. ASSUME NEW t \in Tools, Signal(t) PROVE TypeOK'
  <2>1. channel' \in Seq(Tools)
    BY <1>23, AppendFacts DEF Signal, Sent
  <2> QED
    BY <1>23, <2>1 DEF Signal, irVars, editVars, Stages
<1>24. ASSUME NEW t \in Tools, SignalDetached(t) PROVE TypeOK'
  <2>1. channel' \in Seq(Tools)
    BY <1>24, AppendFacts DEF SignalDetached, Sent
  <2> QED
    BY <1>24, <2>1, DropHeldType DEF SignalDetached, Stages
<1>25. CASE UNCHANGED vars
  BY <1>25 DEF vars, mainVars, irVars, toolVars, editVars
<1>26. ASSUME Main PROVE TypeOK'
  <2>1. TryAgain => TypeOK'
    BY <1>2 DEF TryAgain
  <2>2. NotRunnable => TypeOK'
    BY <1>3 DEF NotRunnable
  <2>3. \A S \in Requests : RunnableUnknownId(S) \/ RunnableIdInUse(S) \/ RunnableNewEdit(S) => TypeOK'
    BY <1>2, <1>3, <1>4 DEF RunnableUnknownId, RunnableIdInUse, WhyInUse
  <2>4. CASE Fail
    BY <2>4, EmptyFacts DEF Fail, irVars, toolVars, editVars
  <2>5. Unwind => TypeOK'
    BY <1>13, <1>14, <2>4 DEF Unwind
  <2> HIDE DEF TypeOK
  <2> QED
    BY <1>26, <1>1, <1>5, <1>6, <1>7, <1>8, <1>9, <1>10, <1>11, <1>12, <2>1, <2>2, <2>3, <2>5
       DEF Main
<1>27. ASSUME NEW t \in Tools, Thread(t) \/ EditCall(t) PROVE TypeOK'
  BY <1>27, <1>15, <1>16, <1>17, <1>18, <1>19, <1>20, <1>21, <1>22, <1>23, <1>24
     DEF Thread, EditCall, Ends
<1> QED
  BY <1>25, <1>26, <1>27 DEF Next, Done
----------------------------------------------------------------------------
(* Scheduler and runner *)

(* The steps that leave a variable alone are told apart from the others once
   for each group of variables that an invariant speaks of. *)
LEMMA StageFrame ==
    ASSUME [Next]_vars
    PROVE  \/ UNCHANGED <<stage, ir_version>>
           \/ Offering /\ GiveUp
           \/ StartRun
           \/ StartRunFails
           \/ ProcessOk
           \/ ProcessWrongOrganizer
           \/ ProcessErr
           \/ \E t \in Tools : DetachFinished(t) \/ RunReturnsOk(t) \/ RunFails(t)
                                \/ Signal(t) \/ SignalDetached(t)
<1>1. Main => \/ UNCHANGED <<stage, ir_version>>
              \/ Offering /\ GiveUp
              \/ StartRun \/ StartRunFails
              \/ ProcessOk \/ ProcessWrongOrganizer \/ ProcessErr
              \/ \E t \in Tools : DetachFinished(t)
  BY DEF Main, TakeSnapshot, NotRunnable, TryAgain, TryLater, RunnableUnknownId,
         RunnableIdInUse, RunnableNewEdit, RecordInvocation, ScheduleDone, NoTools,
         DrainDone, Return, Unwind, DetachRunning, Fail, toolVars
<1>2. ASSUME NEW t \in Tools, Thread(t)
      PROVE  \/ UNCHANGED <<stage, ir_version>>
             \/ RunReturnsOk(t) \/ RunFails(t) \/ Signal(t) \/ SignalDetached(t)
  BY <1>2 DEF Thread, ReplaceEdit, SpawnHelper, HelperExits, Ends, mainVars
<1> QED
  BY <1>1, <1>2, CallFacts DEF Next, Done, vars, mainVars, toolVars

(* ir_version counts the edits that were applied, so it is bounded. *)
LEMMA CountedPreserved ==
    ASSUME TypeOK, Counted, Waiting, [Next]_vars
    PROVE  Counted' /\ ir_version' \in 0 .. NTools
<1> DEFINE A == {t \in Tools : stage[t] = "applied"}
           B == {t \in Tools : stage'[t] = "applied"}
<1>1. IsFiniteSet(Tools) /\ Cardinality(Tools) = NTools
  BY FS_Interval, TranspileAssumption DEF Tools
<1>2. IsFiniteSet(A) /\ IsFiniteSet(B) /\ Cardinality(B) \in 0 .. NTools
  <2>1. A \subseteq Tools /\ B \subseteq Tools
    OBVIOUS
  <2>2. IsFiniteSet(A) /\ IsFiniteSet(B) /\ Cardinality(B) <= NTools
    BY <1>1, <2>1, FS_Subset
  <2> QED
    BY <2>2, FS_CardinalityType, TranspileAssumption
<1>3. CASE ir_version' = ir_version /\ A = B
  BY <1>2, <1>3 DEF Counted
<1>4. CASE ProcessOk
  <2>1. Signalled \in Tools /\ stage[Signalled] = "sent_ok"
        /\ stage' = [stage EXCEPT ![Signalled] = "applied"] /\ ir_version' = ir_version + 1
    BY <1>4, TailFacts DEF ProcessOk, Signalled, TypeOK
  <2>2. Signalled \notin A /\ B = A \cup {Signalled}
    BY <2>1 DEF TypeOK
  <2>3. Cardinality(B) = Cardinality(A) + 1
    BY <1>2, <2>2, FS_AddElement
  <2> QED
    BY <1>2, <2>1, <2>3 DEF Counted
<1>5. \/ ProcessOk
      \/ /\ ir_version' = ir_version
         /\ \A t \in Tools : stage'[t] = "applied" <=> stage[t] = "applied"
  <2> USE DEF TypeOK
  <2>1. CASE UNCHANGED <<stage, ir_version>>
    BY <2>1
  <2>2. CASE (Offering /\ GiveUp) \/ StartRun \/ StartRunFails
    <3>1. Current \in Tools /\ stage[Current] = "queued"
      BY <2>2, CurrentFacts DEF Offering, StartRun, StartRunFails, Waiting
    <3> QED
      BY <2>2, <3>1 DEF GiveUp, StartRun, StartRunFails
  <2>3. CASE ProcessErr \/ ProcessWrongOrganizer
    BY <2>3 DEF ProcessErr, ProcessWrongOrganizer
  <2>4. ASSUME NEW t \in Tools, DetachFinished(t) \/ RunReturnsOk(t) \/ RunFails(t)
                                \/ Signal(t) \/ SignalDetached(t)
        PROVE  /\ ir_version' = ir_version
               /\ \A u \in Tools : stage'[u] = "applied" <=> stage[u] = "applied"
    BY <2>4 DEF DetachFinished, RunReturnsOk, RunFails, Signal, SignalDetached, Running, mainVars
  <2> QED
    BY <2>1, <2>2, <2>3, <2>4, StageFrame
<1> QED
  BY <1>3, <1>4, <1>5

(* A thread moves its tool from running on, to a result and to its signal. *)
LEMMA ThreadFacts ==
    ASSUME TypeOK, NEW t \in Tools, Thread(t)
    PROVE  /\ UNCHANGED <<pc, snapshot, queue, trying, invocations, ir_version, said, ir>>
           /\ \A u \in Tools \ {t} : stage'[u] = stage[u]
           /\ \/ stage'[t] = stage[t]
              \/ stage[t] = "running" /\ stage'[t] \in {"ok", "err"}
              \/ stage[t] = "ok" /\ stage'[t] = "sent_ok" /\ Attached(t)
              \/ stage[t] = "err" /\ stage'[t] = "sent_err" /\ Attached(t)
              \/ stage[t] \in {"ok", "err"} /\ stage'[t] = "dropped" /\ ~Attached(t)
<1> USE DEF TypeOK
<1>1. CASE Signal(t) \/ SignalDetached(t)
  BY <1>1 DEF Signal, SignalDetached, irVars
<1>2. CASE RunReturnsOk(t) \/ RunFails(t)
  BY <1>2 DEF RunReturnsOk, RunFails, Running, mainVars, irVars
<1>3. CASE \/ \E e \in Tools \cup {Foreign} : ReplaceEdit(t, e)
           \/ SpawnHelper(t)
           \/ HelperExits(t)
  BY <1>3 DEF ReplaceEdit, SpawnHelper, HelperExits, mainVars, irVars
<1> QED
  BY <1>1, <1>2, <1>3 DEF Thread, Ends

(* A tool waits in line from when it is queued until it is given up or run. *)
LEMMA WaitingPreserved ==
    ASSUME TypeOK, Waiting, [Next]_vars
    PROVE  Waiting'
<1> USE DEF TypeOK, InTranspile, Started
<1>1. CASE TakeSnapshot
  <2>1. trying = <<>>
    BY <1>1 DEF Waiting, TakeSnapshot
  <2> QED
    BY <1>1, <2>1, EmptyFacts DEF Waiting, TakeSnapshot, toolVars
<1>2. ASSUME Offering, NEW reason, TryLater(reason) PROVE Waiting'
  <2>1. /\ Current \in Tools
        /\ stage[Current] = "queued" /\ Elements(trying) = {Current} \cup Elements(Tail(trying))
        /\ \A t \in Elements(Tail(trying)) : t \in Tools /\ Current < t /\ stage[t] = "queued"
        /\ \A t \in Elements(queue) : t \in Tools /\ t < Current
        /\ Increasing(Tail(trying))
    BY <1>2, CurrentFacts DEF Offering
  <2>2. Elements(Requeued) = Elements(queue) \cup {Current} /\ Increasing(Requeued)
    BY <2>1, AppendFacts DEF Requeued, Waiting
  <2>3. \A t \in Elements(queue), u \in Elements(Tail(trying)) : t < u
    BY <2>1 DEF Waiting
  <2> QED
    BY <1>2, <2>1, <2>2, <2>3 DEF Waiting, Offering, TryLater, toolVars
<1>3. ASSUME Offering, GiveUp PROVE Waiting'
  <2>1. /\ Current \in Tools
        /\ stage[Current] = "queued" /\ Elements(trying) = {Current} \cup Elements(Tail(trying))
        /\ \A t \in Elements(Tail(trying)) : t \in Tools /\ Current < t /\ stage[t] = "queued"
        /\ \A t \in Elements(queue) : t \in Tools /\ t < Current
        /\ Increasing(Tail(trying))
    BY <1>3, CurrentFacts DEF Offering
  <2>2. \A t \in Elements(queue) \cup Elements(Tail(trying)) : t # Current
    BY <2>1 DEF Tools
  <2> QED
    BY <1>3, <2>1, <2>2 DEF Waiting, Offering, GiveUp
<1>4. ASSUME NEW S \in Requests, RunnableNewEdit(S) PROVE Waiting'
  BY <1>4 DEF Waiting, RunnableNewEdit, Offering, Current
<1>5. CASE StartRun
  <2>1. /\ Current \in Tools
        /\ stage[Current] = "queued"
        /\ \A t \in Elements(queue) : t \in Tools /\ t < Current
    BY <1>5, CurrentFacts DEF StartRun, Waiting
  <2>2. \A t \in Elements(queue) : t # Current
    BY <2>1 DEF Tools
  <2>3. /\ stage' = [stage EXCEPT ![Current] = "running"] /\ Current' = Current
        /\ pc = "starting" /\ pc' = "spawned" /\ UNCHANGED <<queue, trying>>
    BY <1>5 DEF StartRun, Current
  <2>4. stage'[Current'] = "running" /\ \A t \in Tools : t # Current' => stage'[t] = stage[t]
    BY <2>1, <2>3
  <2>5. \A t \in Elements(trying) : t \in Tools
    BY ElementsType
  <2> QED
    BY <2>1, <2>2, <2>3, <2>4, <2>5 DEF Waiting
<1>6. CASE StartRunFails
  BY <1>6, EmptyFacts DEF Waiting, StartRunFails
<1>7. CASE RecordInvocation
  <2>1. /\ Current \in Tools /\ Elements(trying) = {Current} \cup Elements(Tail(trying))
        /\ \A t \in Elements(Tail(trying)) : t \in Tools /\ Current < t /\ stage[t] = "queued"
        /\ \A t \in Elements(queue) : t \in Tools /\ t < Current
        /\ Increasing(Tail(trying))
    BY <1>7, CurrentFacts DEF RecordInvocation, Waiting
  <2>2. \A t \in Elements(queue), u \in Elements(Tail(trying)) : t < u
    BY <2>1 DEF Waiting
  <2>3. stage[Current] # "queued"
    BY <1>7 DEF Waiting, RecordInvocation
  <2> QED
    BY <1>7, <2>1, <2>2, <2>3 DEF Waiting, RecordInvocation, toolVars
<1>8. CASE ScheduleDone \/ NoTools \/ DrainDone \/ Fail
  <2>1. /\ UNCHANGED <<queue, trying, stage>> /\ trying = <<>>
        /\ pc' \in {"process", "exit", "snapshot", "failed"} /\ (pc' # "failed" => InTranspile)
    BY <1>8 DEF Waiting, ScheduleDone, NoTools, DrainDone, Fail, toolVars
  <2> QED
    BY <2>1, EmptyFacts DEF Waiting
<1>9. CASE Return
  <2>1. trying' = <<>> /\ queue' = <<>> /\ pc' = "returned"
    BY <1>9 DEF Return, Waiting
  <2> QED
    BY <2>1, EmptyFacts DEF Waiting
<1>10. CASE ProcessOk \/ ProcessWrongOrganizer \/ ProcessErr
  <2>1. /\ Signalled \in Tools /\ stage[Signalled] # "queued" /\ UNCHANGED <<queue, trying>>
        /\ \A t \in Tools \ {Signalled} : stage'[t] = stage[t]
        /\ stage'[Signalled] \in {"applied", "dropped"}
        /\ pc \in {"drain", "process"} /\ pc' = "drain"
    BY <1>10, TailFacts DEF ProcessOk, ProcessWrongOrganizer, ProcessErr, Signalled
  <2>2. trying = <<>> /\ \A t \in Elements(queue) : t \in Tools
    BY <2>1, ElementsType DEF Waiting
  <2> QED
    BY <2>1, <2>2, EmptyFacts DEF Waiting
<1>11. ASSUME NEW t \in Tools, DetachFinished(t) \/ DetachRunning(t) PROVE Waiting'
  <2>1. /\ UNCHANGED <<queue, trying, pc>> /\ pc = "unwinding" /\ stage[t] # "queued"
        /\ \A u \in Tools \ {t} : stage'[u] = stage[u]
    BY <1>11 DEF DetachFinished, DetachRunning, toolVars
  <2>2. trying = <<>> /\ \A u \in Elements(queue) : u \in Tools
    BY <2>1, ElementsType DEF Waiting
  <2> QED
    BY <2>1, <2>2, EmptyFacts DEF Waiting
<1>12. ASSUME NEW t \in Tools, Thread(t) PROVE Waiting'
  <2>1. /\ UNCHANGED <<queue, trying, pc, invocations>> /\ Current' = Current
        /\ \A u \in Tools : (stage[u] = "queued" <=> stage'[u] = "queued")
        /\ \A u \in Tools : Started(u) /\ u # t => Started(u)'
        /\ Attached(t) /\ Started(t) => Started(t)'
    BY <1>12, ThreadFacts DEF Current
  <2>2. \A u \in Elements(queue) \cup Elements(trying) : u \in Tools
    BY ElementsType
  <2>3. pc = "spawned" => Current \in Tools
    BY CurrentFacts DEF Waiting
  <2>4. pc = "spawned" /\ Current = t => Attached(t)
    BY DEF Attached
  <2> QED
    BY <2>1, <2>2, <2>3, <2>4 DEF Waiting
<1>13. ASSUME Main PROVE Waiting'
  <2>1. NotRunnable \/ TryAgain => Waiting'
    BY <1>2, <1>3 DEF NotRunnable, TryAgain
  <2>2. \A S \in Requests : RunnableUnknownId(S) \/ RunnableIdInUse(S) \/ RunnableNewEdit(S) => Waiting'
    BY <1>2, <1>3, <1>4 DEF RunnableUnknownId, RunnableIdInUse
  <2>3. Unwind => Waiting'
    BY <1>8, <1>11 DEF Unwind
  <2> QED
    BY <1>1, <1>5, <1>6, <1>7, <1>8, <1>9, <1>10, <1>13, <2>1, <2>2, <2>3 DEF Main
<1>14. CASE UNCHANGED <<pc, queue, trying, stage>>
  BY <1>14 DEF Waiting, Current
<1> QED
  BY <1>12, <1>13, <1>14, CallFacts DEF Next, Done, vars, mainVars, toolVars

(* The steps of the main thread that neither start a thread, nor take its
   result, nor come to an end. *)
LEMMA MainFrame ==
    ASSUME Main
    PROVE  \/ UNCHANGED <<invocations, channel, helpers, stage>> /\ pc = pc' /\ pc # "spawned"
           \/ /\ UNCHANGED <<invocations, channel, helpers, stage>>
              /\ pc \in {"snapshot", "schedule", "drain"}
              /\ pc' \in {"snapshot", "schedule", "starting", "process"}
           \/ Offering /\ GiveUp
           \/ StartRun \/ StartRunFails \/ RecordInvocation
           \/ NoTools \/ ProcessOk \/ ProcessWrongOrganizer \/ ProcessErr \/ Return \/ Fail
           \/ \E t \in Tools : DetachFinished(t) \/ DetachRunning(t)
  BY DEF Main, TakeSnapshot, NotRunnable, TryAgain, TryLater, RunnableUnknownId,
         RunnableIdInUse, RunnableNewEdit, ScheduleDone, DrainDone, Unwind, Offering, toolVars

(* The runner has a handle for every result it is owed. *)
LEMMA AttachmentPreserved ==
    ASSUME TypeOK, Waiting, Attachment, Signals, [Next]_vars
    PROVE  Attachment'
<1> USE DEF TypeOK, Started, HasSent, Attached
<1>1. CASE UNCHANGED <<invocations, stage>> /\ pc = pc' /\ pc # "spawned"
  BY <1>1 DEF Attachment
<1>2. CASE /\ UNCHANGED <<invocations, stage>>
           /\ pc \in {"snapshot", "schedule", "drain"}
           /\ pc' \in {"snapshot", "schedule", "starting", "process"}
  BY <1>2 DEF Attachment
<1>3. CASE Offering /\ GiveUp
  <2>1. Current \in Tools /\ stage[Current] = "queued"
    BY <1>3, CurrentFacts DEF Offering
  <2> QED
    BY <1>3, <2>1 DEF Attachment, Offering, GiveUp
<1>4. CASE StartRun
  <2>1. Current \in Tools /\ stage[Current] = "queued" /\ Current' = Current
    BY <1>4, CurrentFacts DEF StartRun, Waiting, Current
  <2> QED
    BY <1>4, <2>1 DEF Attachment, StartRun
<1>5. CASE StartRunFails
  <2>1. Current \in Tools /\ stage[Current] = "queued"
    BY <1>5, CurrentFacts DEF StartRunFails, Waiting
  <2> QED
    BY <1>5, <2>1 DEF Attachment, StartRunFails
<1>6. CASE RecordInvocation
  <2>1. Current \in Tools /\ Started(Current)
    BY <1>6, CurrentFacts DEF RecordInvocation, Waiting
  <2> QED
    BY <1>6, <2>1 DEF Attachment, RecordInvocation, Recorded, toolVars
<1>7. CASE NoTools \/ Return \/ Fail
  BY <1>7 DEF Attachment, NoTools, NothingRuns, Return, Fail, toolVars
<1>8. CASE ProcessOk \/ ProcessWrongOrganizer \/ ProcessErr
  <2>1. /\ Signalled \in Tools /\ pc \in {"process", "drain"} /\ pc' = "drain"
        /\ \A t \in Tools \ {Signalled} : stage'[t] = stage[t]
        /\ stage'[Signalled] \in {"applied", "dropped"}
        /\ invocations' = invocations \ {Signalled}
    BY <1>8, TailFacts DEF ProcessOk, ProcessWrongOrganizer, ProcessErr, Signalled
  <2> QED
    BY <2>1 DEF Attachment
<1>9. ASSUME NEW t \in Tools, DetachFinished(t) \/ DetachRunning(t) PROVE Attachment'
  BY <1>9 DEF Attachment, DetachFinished, DetachRunning, toolVars
<1>10. ASSUME NEW t \in Tools, Thread(t) PROVE Attachment'
  <2>1. UNCHANGED <<pc, trying, invocations>> /\ Current' = Current
    BY <1>10, ThreadFacts DEF Current
  <2>2. \A u \in Tools \ {t} : stage'[u] = stage[u]
    BY <1>10, ThreadFacts
  <2>3. \/ Started(t) /\ Started(t)' /\ (HasSent(t)' => HasSent(t) \/ Attached(t))
        \/ stage'[t] = stage[t]
        \/ ~Attached(t) /\ ~Started(t)' /\ ~HasSent(t)'
    BY <1>10, ThreadFacts
  <2> QED
    BY <2>1, <2>2, <2>3 DEF Attachment
<1>11. CASE UNCHANGED <<pc, trying, invocations, stage>>
  BY <1>11 DEF Attachment, Current
<1>12. CASE Main
  BY <1>1, <1>2, <1>3, <1>4, <1>5, <1>6, <1>7, <1>8, <1>9, <1>12, MainFrame
<1> QED
  BY <1>10, <1>11, <1>12, CallFacts DEF Next, Done, vars, mainVars, toolVars

(* A signal is sent once and taken once. *)
LEMMA SignalsPreserved ==
    ASSUME TypeOK, Waiting, Attachment, Signals, [Next]_vars
    PROVE  Signals'
<1> USE DEF TypeOK, InTranspile, HasSent
<1>1. CASE UNCHANGED <<invocations, channel, helpers, stage>> /\ pc = pc' /\ pc # "spawned"
  BY <1>1 DEF Signals
<1>2. CASE /\ UNCHANGED <<invocations, channel, helpers, stage>>
           /\ pc \in {"snapshot", "schedule", "drain"}
  BY <1>2 DEF Signals
<1>3. CASE (Offering /\ GiveUp) \/ StartRun
  <2>1. Current \in Tools /\ stage[Current] = "queued"
    BY <1>3, CurrentFacts DEF Offering, StartRun, Waiting
  <2>2. channel' = channel /\ (InTranspile' => InTranspile)
        /\ \A t \in Tools : HasSent(t)' <=> HasSent(t)
    BY <1>3, <2>1 DEF GiveUp, StartRun
  <2> QED
    BY <2>2 DEF Signals
<1>4. CASE StartRunFails \/ Return \/ Fail
  BY <1>4 DEF Signals, StartRunFails, Return, Fail
<1>5. CASE RecordInvocation \/ NoTools
  BY <1>5 DEF Signals, RecordInvocation, NoTools, toolVars
<1>6. CASE ProcessOk \/ ProcessWrongOrganizer \/ ProcessErr
  <2>1. /\ pc \in {"process", "drain"} /\ channel # <<>> /\ Signalled \in Tools
        /\ \A t \in Tools \ {Signalled} : stage'[t] = stage[t]
        /\ stage'[Signalled] \in {"applied", "dropped"}
        /\ channel' = Tail(channel)
    BY <1>6, TailFacts DEF ProcessOk, ProcessWrongOrganizer, ProcessErr, Signalled
  <2>2. Distinct(channel) /\ \A t \in Tools : t \in Elements(channel) <=> HasSent(t)
    BY <2>1 DEF Signals
  <2>3. /\ Elements(channel) = {Signalled} \cup Elements(Tail(channel))
        /\ Distinct(Tail(channel)) /\ Signalled \notin Elements(Tail(channel))
    BY <2>1, <2>2, TailFacts DEF Signalled
  <2> QED
    BY <2>1, <2>2, <2>3 DEF Signals
<1>7. ASSUME NEW t \in Tools, DetachFinished(t) \/ DetachRunning(t) PROVE Signals'
  BY <1>7 DEF Signals, DetachFinished, DetachRunning
<1>8. ASSUME NEW t \in Tools, Signal(t) PROVE Signals'
  <2>1. CASE InTranspile
    <3>1. channel' = Append(channel, t) /\ pc' = pc
      BY <1>8, <2>1 DEF Signal, Sent
    <3>2. t \notin Elements(channel) /\ Distinct(channel)
      BY <1>8, <2>1 DEF Signal, Signals
    <3>3. Elements(channel') = Elements(channel) \cup {t} /\ Distinct(channel')
      BY <3>1, <3>2, AppendFacts
    <3>4. HasSent(t)' /\ \A u \in Tools \ {t} : stage'[u] = stage[u]
      BY <1>8 DEF Signal
    <3> QED
      BY <2>1, <3>3, <3>4 DEF Signals
  <2>2. CASE ~InTranspile
    BY <1>8, <2>2 DEF Signals, Signal
  <2> QED
    BY <2>1, <2>2
<1>9. ASSUME NEW t \in Tools, SignalDetached(t) PROVE Signals'
  <2>1. ~InTranspile
    BY <1>9 DEF SignalDetached, Attachment, Started
  <2> QED
    BY <1>9, <2>1 DEF Signals, SignalDetached
<1>10. ASSUME NEW t \in Tools, Thread(t), ~Ends(t) PROVE Signals'
  <2>1. UNCHANGED <<pc, channel>>
    BY <1>10 DEF Thread, ReplaceEdit, SpawnHelper, HelperExits, RunReturnsOk, RunFails, mainVars
  <2>2. \A u \in Tools : HasSent(u)' <=> HasSent(u)
    BY <1>10 DEF Thread, ReplaceEdit, SpawnHelper, HelperExits, RunReturnsOk, RunFails, Running
  <2> QED
    BY <2>1, <2>2 DEF Signals
<1>11. CASE UNCHANGED <<pc, channel, stage>>
  BY <1>11 DEF Signals
<1>12. CASE Main
  BY <1>1, <1>2, <1>3, <1>4, <1>5, <1>6, <1>7, <1>12, MainFrame
<1> QED
  BY <1>8, <1>9, <1>10, <1>11, <1>12, CallFacts DEF Next, Done, Ends, vars, mainVars, toolVars

(* A thread outlives its helpers. *)
LEMMA JoiningPreserved ==
    ASSUME TypeOK, Waiting, Joining, [Next]_vars
    PROVE  Joining'
<1> USE DEF TypeOK
<1>1. CASE UNCHANGED <<helpers, stage>>
  BY <1>1 DEF Joining
<1>2. CASE (Offering /\ GiveUp) \/ StartRun \/ StartRunFails
  <2>1. Current \in Tools /\ stage[Current] = "queued"
    BY <1>2, CurrentFacts DEF Offering, StartRun, StartRunFails, Waiting
  <2>2. helpers' = helpers /\ \A t \in Tools \ {Current} : stage'[t] = stage[t]
    BY <1>2, <2>1 DEF GiveUp, StartRun, StartRunFails, irVars
  <2> QED
    BY <2>1, <2>2 DEF Joining
<1>3. CASE ProcessOk \/ ProcessWrongOrganizer \/ ProcessErr
  BY <1>3 DEF Joining, ProcessOk, ProcessWrongOrganizer, ProcessErr
<1>4. ASSUME NEW t \in Tools, DetachFinished(t) PROVE Joining'
  BY <1>4 DEF Joining, DetachFinished
<1>5. ASSUME NEW t \in Tools, Ends(t) PROVE Joining'
  BY <1>5 DEF Joining, Ends, Signal, SignalDetached, Joined
<1>6. ASSUME NEW t \in Tools, SpawnHelper(t) \/ HelperExits(t) PROVE Joining'
  BY <1>6 DEF Joining, SpawnHelper, HelperExits, Running
<1>7. ASSUME NEW t \in Tools, RunReturnsOk(t) \/ RunFails(t) PROVE Joining'
  BY <1>7 DEF Joining, RunReturnsOk, RunFails, Running
<1>8. ASSUME NEW t \in Tools, Thread(t) PROVE Joining'
  BY <1>1, <1>5, <1>6, <1>7, <1>8 DEF Thread, ReplaceEdit
<1>9. CASE RecordInvocation \/ NoTools \/ Return \/ Fail
  BY <1>1, <1>9 DEF RecordInvocation, NoTools, Return, Fail, toolVars
<1>10. ASSUME NEW t \in Tools, DetachRunning(t) PROVE Joining'
  BY <1>1, <1>10 DEF DetachRunning, toolVars
<1>11. CASE Main
  BY <1>1, <1>2, <1>3, <1>4, <1>9, <1>10, <1>11, MainFrame
<1> QED
  BY <1>1, <1>8, <1>11, CallFacts DEF Next, Done, vars, toolVars
----------------------------------------------------------------------------
(* Edits *)

(* Of two edits in threads neither is the other, nor one that was kept, so
   what is in a thread's variable is gone when it is dropped there. *)
LEMMA DropHeldFacts ==
    ASSUME TypeOK, Held, NEW t \in Tools, DropHeld(t)
    PROVE  /\ edit'[t] = None /\ \A u \in Tools \ {t} : edit'[u] = edit[u]
           /\ kept' = kept
           /\ edit[t] \notin Tools => UNCHANGED <<in_use, snap, writable, written>>
           /\ \A e \in Tools : IF e = edit[t] THEN DropEdit(e) /\ Live(e) /\ ~Live(e)'
                                             ELSE Live(e)' <=> Live(e)
<1>1. /\ edit'[t] = None /\ \A u \in Tools \ {t} : edit'[u] = edit[u]
      /\ kept' = kept /\ None \notin Tools
  BY TranspileAssumption DEF DropHeld, TypeOK, Tools
<1>2. ASSUME NEW e \in Tools, e = edit[t] PROVE DropEdit(e) /\ Live(e) /\ ~Live(e)'
  <2>1. Live(e) /\ ~Live(e)'
    BY <1>1, <1>2 DEF Live, Held
  <2> QED
    BY <1>2, <2>1 DEF DropHeld
<1>3. ASSUME NEW e \in Tools, e # edit[t] PROVE Live(e)' <=> Live(e)
  BY <1>1, <1>3 DEF Live
<1>4. edit[t] \notin Tools => UNCHANGED <<in_use, snap, writable, written>>
  BY DEF DropHeld
<1> QED
  BY <1>1, <1>2, <1>3, <1>4

(* The tool that is offered has no edit yet, and none is left of it. *)
LEMMA CurrentHasNone ==
    ASSUME TypeOK, Waiting, Held, Offering
    PROVE  Current \in Tools /\ stage[Current] = "queued" /\ edit[Current] = None /\ ~Live(Current)
<1>1. Current \in Tools /\ stage[Current] = "queued" /\ pc = "schedule"
  BY CurrentFacts DEF Offering
<1>2. edit[Current] = None
  BY <1>1 DEF Held, Run, HasEdit
<1> QED
  BY <1>1, <1>2, TranspileAssumption DEF Held, Tools

(* An edit goes from hand to hand and is never in two. *)
LEMMA HeldPreserved ==
    ASSUME TypeOK, Waiting, Held, [Next]_vars
    PROVE  Held'
<1> USE DEF TypeOK, Run, HasEdit
<1>0. None \notin Tools /\ Foreign \notin Tools /\ Foreign # None
  BY TranspileAssumption DEF Tools
<1>1. ASSUME UNCHANGED <<edit, kept>>,
             \A t \in Tools : (stage'[t] = "queued" => stage[t] = "queued"),
             \A t \in Tools : \/ Run(t)' /\ Run(t)
                              \/ ~Run(t)' /\ ~Run(t)
                              \/ Run(t)' /\ pc = "starting" /\ t = Current,
             \A t \in Tools : \/ (pc = "starting" /\ t = Current) <=> (pc' = "starting" /\ t = Current')
                              \/ Run(t)' /\ pc' # "starting"
      PROVE  Held'
  BY <1>1 DEF Held, Live
<1>2. ASSUME UNCHANGED <<edit, kept, stage>>, pc # "starting", pc' # "starting" PROVE Held'
  BY <1>1, <1>2
<1>3. CASE \/ TakeSnapshot \/ ScheduleDone \/ NoTools \/ DrainDone \/ Return \/ Fail
           \/ RecordInvocation \/ \E t \in Tools : DetachRunning(t)
  BY <1>2, <1>3 DEF TakeSnapshot, ScheduleDone, NoTools, DrainDone, Return, Fail,
                    RecordInvocation, DetachRunning, toolVars, editVars
<1>4. ASSUME NEW reason, Offering, TryLater(reason) PROVE Held'
  BY <1>2, <1>4 DEF TryLater, Offering, toolVars, editVars
<1>5. ASSUME Offering, GiveUp PROVE Held'
  <2>1. Current \in Tools /\ stage[Current] = "queued" /\ pc # "starting" /\ pc' # "starting"
    BY <1>5, CurrentFacts DEF Offering, GiveUp
  <2> QED
    BY <1>1, <1>5, <2>1 DEF GiveUp, editVars
<1>6. ASSUME NEW S \in Requests, RunnableNewEdit(S) PROVE Held'
  <2>1. PICK c \in Tools : c = Current
    BY <1>6, CurrentHasNone DEF RunnableNewEdit
  <2>2. /\ stage[c] = "queued" /\ edit[c] = None /\ ~Live(c)
        /\ Current' = c /\ pc = "schedule" /\ pc' = "starting"
        /\ UNCHANGED <<stage, kept>> /\ edit' = [edit EXCEPT ![c] = c]
    BY <1>6, <2>1, CurrentHasNone DEF RunnableNewEdit, Offering, Current
  <2>3. edit'[c] = c /\ \A t \in Tools \ {c} : edit'[t] = edit[t] /\ edit[t] # c
    BY <2>2 DEF Live
  <2>4. \A e \in Tools \ {c} : Live(e)' => Live(e)
    BY <2>2, <2>3 DEF Live
  <2>5. c \notin kept
    BY <2>2 DEF Live
  <2> QED
    BY <1>0, <2>2, <2>3, <2>4, <2>5 DEF Held
<1>7. CASE StartRun
  <2>1. PICK c \in Tools : c = Current
    BY <1>7, CurrentFacts DEF StartRun, Waiting
  <2>2. /\ stage' = [stage EXCEPT ![c] = "running"] /\ UNCHANGED <<edit, kept>>
        /\ pc = "starting" /\ pc' = "spawned" /\ Current' = c
    BY <1>7, <2>1 DEF StartRun, editVars, Current
  <2> QED
    BY <1>1, <2>1, <2>2
<1>8. ASSUME NEW t \in Tools, DropHeld(t), ~Run(t)', stage'[t] # "queued",
             \A u \in Tools \ {t} : /\ stage'[u] = stage[u]
                                    /\ (pc = "starting" /\ u = Current) <=> (pc' = "starting" /\ u = Current'),
             ~(pc' = "starting" /\ t = Current')
      PROVE  Held'
  <2>1. /\ edit'[t] = None /\ \A u \in Tools \ {t} : edit'[u] = edit[u]
        /\ kept' = kept
    BY <1>8, DropHeldFacts
  <2>2. \A e \in Tools : Live(e)' => Live(e)
    BY <1>8, DropHeldFacts
  <2>3. \A u \in Tools : HasEdit(u)' <=> Run(u)' \/ (pc' = "starting" /\ u = Current')
    BY <1>8, <2>1 DEF Held
  <2>4. \A u, v \in Tools : edit'[u] = edit'[v] /\ edit'[u] \in Tools => u = v
    BY <1>0, <2>1 DEF Held
  <2>5. \A u \in Tools : edit'[u] \notin kept'
    BY <1>0, <2>1 DEF Held
  <2>6. ASSUME NEW e \in Tools, Live(e)', stage'[e] = "queued" PROVE edit'[e] = e
    BY <1>8, <2>1, <2>2, <2>6 DEF Held
  <2> QED
    BY <2>3, <2>4, <2>5, <2>6 DEF Held
<1>9. CASE StartRunFails
  <2>1. PICK c \in Tools : c = Current
    BY <1>9, CurrentFacts DEF StartRunFails, Waiting
  <2>2. /\ stage' = [stage EXCEPT ![c] = "skipped"] /\ DropHeld(c)
        /\ pc = "starting" /\ pc' = "unwinding"
    BY <1>9, <2>1 DEF StartRunFails
  <2> QED
    BY <1>8, <2>1, <2>2
<1>10. CASE ProcessOk \/ ProcessWrongOrganizer
  <2>1. PICK t \in Tools : t = Signalled
    BY <1>10, TailFacts DEF ProcessOk, ProcessWrongOrganizer, Signalled
  <2>2. /\ DropHeld(t) /\ pc \in {"process", "drain"} /\ pc' = "drain"
        /\ \A u \in Tools \ {t} : stage'[u] = stage[u]
        /\ stage'[t] \in {"applied", "dropped"}
    BY <1>10, <2>1 DEF ProcessOk, ProcessWrongOrganizer
  <2> QED
    BY <1>8, <2>2
<1>11. CASE ProcessErr
  <2>1. /\ Signalled \in Tools /\ stage[Signalled] = "sent_err"
        /\ pc # "starting" /\ pc' # "starting"
    BY <1>11, TailFacts DEF ProcessErr, Signalled
  <2> QED
    BY <1>1, <1>11, <2>1 DEF ProcessErr, editVars
<1>12. ASSUME NEW t \in Tools, DetachFinished(t) PROVE Held'
  BY <1>8, <1>12 DEF DetachFinished
<1>13. ASSUME NEW t \in Tools, Thread(t) PROVE Held'
  <2>1. UNCHANGED <<pc, trying>> /\ Current' = Current
    BY <1>13, ThreadFacts DEF Current
  <2>2. pc = "starting" => Current \in Tools /\ stage[Current] = "queued"
    BY CurrentFacts DEF Waiting
  <2>3. CASE SpawnHelper(t) \/ HelperExits(t) \/ RunReturnsOk(t) \/ Signal(t)
    <3>1. UNCHANGED <<edit, kept>>
      BY <2>3 DEF SpawnHelper, HelperExits, RunReturnsOk, Signal, editVars
    <3>2. \A u \in Tools : /\ stage'[u] = "queued" => stage[u] = "queued"
                           /\ Run(u)' <=> Run(u)
      BY <2>3 DEF SpawnHelper, HelperExits, RunReturnsOk, Running, Signal
    <3> QED
      BY <1>1, <2>1, <3>1, <3>2
  <2>4. CASE RunFails(t) \/ SignalDetached(t)
    <3>1. /\ DropHeld(t) /\ ~Run(t)' /\ stage'[t] # "queued" /\ stage[t] # "queued"
          /\ \A u \in Tools \ {t} : stage'[u] = stage[u]
      BY <2>4 DEF RunFails, SignalDetached, Running
    <3> QED
      BY <1>8, <2>1, <2>2, <3>1
  <2>5. ASSUME NEW e \in Tools \cup {Foreign}, ReplaceEdit(t, e) PROVE Held'
    <3>1. /\ stage[t] = "running" /\ e \in kept \cup {Foreign}
          /\ kept' = (kept \ {e}) \cup ({edit[t]} \ {Foreign})
          /\ edit'[t] = e /\ \A u \in Tools \ {t} : edit'[u] = edit[u]
          /\ stage' = stage
      BY <2>5 DEF ReplaceEdit, Running
    <3>2. edit[t] # None /\ (e # edit[t] \/ e = Foreign)
      BY <3>1 DEF Held
    <3>3. \A x \in Tools : Live(x)' => Live(x)
      BY <1>0, <3>1 DEF Live
    <3>4. \A u, v \in Tools : edit'[u] = edit'[v] /\ edit'[u] \in Tools => u = v
      BY <1>0, <3>1 DEF Held
    <3>5. \A u \in Tools : edit'[u] \notin kept'
      BY <1>0, <3>1, <3>2 DEF Held
    <3>6. \A u \in Tools : HasEdit(u)' <=> HasEdit(u)
      BY <1>0, <3>1, <3>2
    <3>7. \A x \in Tools : Live(x)' /\ stage'[x] = "queued" => edit'[x] = x
      BY <3>1, <3>3 DEF Held
    <3> QED
      BY <2>1, <3>1, <3>4, <3>5, <3>6, <3>7 DEF Held
  <2> QED
    BY <1>13, <2>3, <2>4, <2>5 DEF Thread, Ends
<1>14. ASSUME NEW e \in Tools, EditCall(e) PROVE Held'
  <2>1. UNCHANGED <<pc, trying, stage, edit>> /\ Current' = Current /\ kept' \subseteq kept
    BY <1>14, CallFacts DEF EditCall, AddRepresentation, NewId, WriteId, DropKept, Current
  <2> QED
    BY <2>1 DEF Held, Live
<1>15. CASE UNCHANGED vars
  BY <1>15 DEF vars, mainVars, toolVars, editVars, Held, Live, Current
<1>16. ASSUME Main PROVE Held'
  <2>1. NotRunnable \/ TryAgain => Held'
    BY <1>4, <1>5 DEF NotRunnable, TryAgain
  <2>2. \A S \in Requests : RunnableUnknownId(S) \/ RunnableIdInUse(S) \/ RunnableNewEdit(S) => Held'
    BY <1>4, <1>5, <1>6 DEF RunnableUnknownId, RunnableIdInUse
  <2>3. Unwind => Held'
    BY <1>3, <1>12 DEF Unwind
  <2> QED
    BY <1>3, <1>7, <1>9, <1>10, <1>11, <1>16, <2>1, <2>2, <2>3 DEF Main
<1> QED
  BY <1>13, <1>14, <1>15, <1>16 DEF Next, Done

(* No edit is dropped, and nothing happens to the contents of one. *)
Keeps ==
    /\ UNCHANGED <<irVars, snap, writable, written>>
    /\ \A e \in Tools : Live(e)' <=> Live(e)

(* The edit e ends, and nothing happens to the others. *)
Loses(e) ==
    /\ DropEdit(e)
    /\ UNCHANGED next_id
    /\ Live(e) /\ ~Live(e)'
    /\ \A f \in Tools \ {e} : Live(f)' <=> Live(f)

(* What was in a thread's variable ends, be it an edit of this organizer or a
   foreign one. *)
LEMMA DropSteps ==
    ASSUME TypeOK, Held, NEW t \in Tools, DropHeld(t), UNCHANGED next_id
    PROVE  /\ \A e \in Tools : e = edit[t] => Loses(e)
           /\ edit[t] \notin Tools /\ ir' = ir => Keeps
<1>1. ASSUME NEW e \in Tools, e = edit[t] PROVE Loses(e)
  BY <1>1, DropHeldFacts DEF Loses
<1>2. ASSUME edit[t] \notin Tools, ir' = ir PROVE Keeps
  BY <1>2, DropHeldFacts DEF Keeps, irVars
<1> QED
  BY <1>1, <1>2

(* The steps of the main thread, by what they do to the edits. *)
LEMMA MainEditSteps ==
    ASSUME TypeOK, Waiting, Held, Main
    PROVE  \/ Keeps
           \/ \E S \in Requests : RunnableNewEdit(S)
           \/ \E e \in Tools : Loses(e) /\ ir' = ir
           \/ \E e \in Tools : e = edit[Signalled] /\ ProcessOk /\ Loses(e)
<1> USE DEF TypeOK
<1>1. ASSUME UNCHANGED <<irVars, editVars>> PROVE Keeps
  BY <1>1 DEF Keeps, Live, editVars
<1>2. ASSUME \/ TakeSnapshot \/ ScheduleDone \/ NoTools \/ DrainDone \/ Return \/ Fail
             \/ RecordInvocation \/ StartRun \/ ProcessErr \/ NotRunnable \/ TryAgain
             \/ (\E S \in Requests : RunnableUnknownId(S) \/ RunnableIdInUse(S))
             \/ \E t \in Tools : DetachRunning(t)
      PROVE  Keeps
  BY <1>1, <1>2 DEF TakeSnapshot, ScheduleDone, NoTools, DrainDone, Return, Fail,
                    RecordInvocation, StartRun, ProcessErr, NotRunnable, TryAgain, TryLater,
                    GiveUp, RunnableUnknownId, RunnableIdInUse, DetachRunning, toolVars
<1>3. CASE ProcessOk
  <2>1. PICK t \in Tools : t = Signalled
    BY <1>3, TailFacts DEF ProcessOk, Signalled
  <2>2. /\ DropHeld(t) /\ UNCHANGED next_id /\ stage[t] = "sent_ok" /\ edit[t] # Foreign
    BY <1>3, <2>1 DEF ProcessOk
  <2>3. edit[t] \in Tools
    BY <2>2 DEF Held, Run, HasEdit
  <2> QED
    BY <1>3, <2>1, <2>2, <2>3, DropSteps
<1>4. ASSUME NEW t \in Tools, DropHeld(t), UNCHANGED <<ir, next_id>>
      PROVE  Keeps \/ \E e \in Tools : Loses(e) /\ ir' = ir
  BY <1>4, DropSteps
<1>5. CASE ProcessWrongOrganizer
  <2>1. PICK t \in Tools : t = Signalled
    BY <1>5, TailFacts DEF ProcessWrongOrganizer, Signalled
  <2> QED
    BY <1>4, <1>5, <2>1 DEF ProcessWrongOrganizer
<1>6. ASSUME NEW t \in Tools, DetachFinished(t)
      PROVE  Keeps \/ \E e \in Tools : Loses(e) /\ ir' = ir
  BY <1>4, <1>6 DEF DetachFinished
<1>7. CASE StartRunFails
  <2>1. PICK t \in Tools : t = Current
    BY <1>7, CurrentFacts DEF StartRunFails, Waiting
  <2> QED
    BY <1>4, <1>7, <2>1 DEF StartRunFails
<1> HIDE DEF TypeOK
<1> QED
  BY <1>2, <1>3, <1>5, <1>6, <1>7 DEF Main, Unwind

(* What a step can do to the edits. *)
LEMMA EditSteps ==
    ASSUME TypeOK, Waiting, Held, [Next]_vars
    PROVE  \/ Keeps
           \/ \E S \in Requests : RunnableNewEdit(S)
           \/ \E e \in Tools : \/ \E r \in Reprs : AddRepresentation(e, r)
                               \/ NewId(e)
                               \/ \E i \in Ids, r \in Reprs : WriteId(e, i, r)
                               \/ Loses(e) /\ ir' = ir
           \/ \E e \in Tools : e = edit[Signalled] /\ ProcessOk /\ Loses(e)
<1>1. ASSUME UNCHANGED <<irVars, editVars>> PROVE Keeps
  BY <1>1 DEF Keeps, Live, editVars
<1>2. CASE UNCHANGED vars
  BY <1>1, <1>2 DEF vars, toolVars
<1>3. ASSUME NEW t \in Tools,
             SpawnHelper(t) \/ HelperExits(t) \/ RunReturnsOk(t) \/ Signal(t)
      PROVE  Keeps
  BY <1>1, <1>3 DEF SpawnHelper, HelperExits, RunReturnsOk, Signal
<1>4. ASSUME NEW t \in Tools, RunFails(t) \/ SignalDetached(t)
      PROVE  Keeps \/ \E e \in Tools : Loses(e) /\ ir' = ir
  BY <1>4, DropSteps DEF RunFails, SignalDetached
<1>5. ASSUME NEW t \in Tools, NEW e \in Tools \cup {Foreign}, ReplaceEdit(t, e) PROVE Keeps
  <2>1. /\ kept' = (kept \ {e}) \cup ({edit[t]} \ {Foreign}) /\ e \in kept \cup {Foreign}
        /\ edit'[t] = e /\ \A u \in Tools \ {t} : edit'[u] = edit[u]
        /\ Foreign \notin Tools
    BY <1>5, TranspileAssumption DEF ReplaceEdit, TypeOK, Tools
  <2>2. \A x \in Tools : Live(x)' <=> Live(x)
    BY <2>1 DEF Live
  <2> QED
    BY <1>5, <2>2 DEF ReplaceEdit, Keeps
<1>6. ASSUME NEW e \in Tools, DropKept(e) PROVE Loses(e) /\ ir' = ir
  <2>1. /\ e \in kept /\ kept' = kept \ {e} /\ UNCHANGED <<edit, ir, next_id>> /\ DropEdit(e)
    BY <1>6 DEF DropKept
  <2>2. Live(e) /\ ~Live(e)' /\ \A f \in Tools \ {e} : Live(f)' <=> Live(f)
    BY <2>1 DEF Live, Held
  <2> QED
    BY <2>1, <2>2 DEF Loses
<1>7. ASSUME NEW t \in Tools, Thread(t)
      PROVE  Keeps \/ \E e \in Tools : Loses(e) /\ ir' = ir
  BY <1>3, <1>4, <1>5, <1>7 DEF Thread, Ends
<1> QED
  BY <1>2, <1>6, <1>7, MainEditSteps DEF Next, Done, EditCall

(* What a granted request says of the ids it names. *)
LEMMA Granted ==
    ASSUME NEW m, NEW used, NEW S, NewEditOutcome(m, used, S) = "Ok"
    PROVE  \A i \in S : ContainsId(m, i) /\ i \notin used
<1>1. ~(\E i \in S : ~ContainsId(m, i))
  BY DEF NewEditOutcome
<1>2. S \cap used = {}
  BY <1>1 DEF NewEditOutcome
<1> QED
  BY <1>1, <1>2

(* A granted edit holds stored ids that nobody else holds, and its run will be
   given the IR the request was granted for. *)
LEMMA GrantEdit ==
    ASSUME IInv, NEW S \in Requests, RunnableNewEdit(S)
    PROVE  EditInv'
<1> USE DEF IInv, EditInv, TypeOK
<1>1. /\ Current \in Tools /\ ~Live(Current) /\ edit[Current] = None /\ S \subseteq Ids
      /\ writable' = [writable EXCEPT ![Current] = S] /\ in_use' = in_use \cup S
      /\ snap' = [snap EXCEPT ![Current] = ir] /\ edit' = [edit EXCEPT ![Current] = Current]
      /\ UNCHANGED <<ir, next_id, kept, written>>
  <2>1. 1 .. next_id - 1 \subseteq Ids
    BY HarvestIRAssumption DEF Ids
  <2>2. snapshot = ir
    BY DEF RunnableNewEdit, Offering, SnapshotIsIR
  <2> QED
    BY <2>1, <2>2, CurrentHasNone DEF RunnableNewEdit, Requests
<1>2. \A i \in S : ContainsId(ir, i) /\ i \notin in_use
  BY Granted DEF RunnableNewEdit
<1>3. \A i \in S, e \in Tools : i \notin writable[e]
  BY <1>1, <1>2 DEF Exact
<1>4. /\ writable'[Current] = S /\ \A e \in Tools \ {Current} : writable'[e] = writable[e]
      /\ snap'[Current] = ir /\ \A e \in Tools \ {Current} : snap'[e] = snap[e]
  BY <1>1
<1>5. writable[Current] = {} /\ written[Current] = Empty
  BY <1>1 DEF Idle
<1>6. \A e \in Tools : Live(e)' <=> Live(e) \/ e = Current
  <2>1. edit'[Current] = Current /\ \A t \in Tools \ {Current} : edit'[t] = edit[t]
    BY <1>1
  <2>2. \A e \in Tools : edit[Current] # e
    BY <1>1, TranspileAssumption DEF Tools
  <2> QED
    BY <1>1, <2>1, <2>2 DEF Live
<1>7. Allocated'
  BY <1>1, <1>2, <1>4 DEF Allocated, ContainsId
<1>8. Idle'
  BY <1>1, <1>4, <1>6 DEF Idle
<1>9. Confined'
  BY <1>1, <1>4, <1>5 DEF Confined, Empty
<1>10. Exclusive'
  <2> SUFFICES ASSUME NEW e \in Tools, NEW f \in Tools, e # f, NEW i \in Ids,
                      i \in writable'[e], i \in writable'[f]
               PROVE  FALSE
    BY <1>1 DEF Exclusive
  <2>1. i \in writable[e] \/ (e = Current /\ i \in S)
    BY <1>4
  <2>2. i \in writable[f] \/ (f = Current /\ i \in S)
    BY <1>4
  <2> QED
    BY <1>3, <2>1, <2>2 DEF Exclusive
<1>11. Exact'
  BY <1>1, <1>2, <1>3, <1>4, <1>5 DEF Exact, ContainsId
<1>12. SnapshotStaysCurrent'
  BY <1>1, <1>4, <1>6 DEF SnapshotStaysCurrent
<1> QED
  BY <1>7, <1>8, <1>9, <1>10, <1>11, <1>12

(* An edit that somebody has in hand is live. *)
LEMMA InHandIsLive == ASSUME NEW e, InHand(e) PROVE Live(e)
  BY DEF InHand, Live

(* A new id is in no IR, in no table, in no edit and in no snapshot. *)
LEMMA GainEdit ==
    ASSUME IInv, NEW e \in Tools, Live(e), next_id <= MaxId,
           writable' = [writable EXCEPT ![e] = @ \cup {next_id}],
           \A f \in Tools, i \in Ids :
              written'[f][i] # None => written[f][i] # None \/ (f = e /\ i = next_id),
           \A f \in Tools \ {e} : written'[f] = written[f],
           next_id' = next_id + 1,
           UNCHANGED <<ir, in_use, snap, edit, kept>>
    PROVE  EditInv'
<1> USE DEF IInv, EditInv
<1>1. next_id \in Ids
  BY DEF TypeOK, Ids
<1>2. writable'[e] = writable[e] \cup {next_id}
      /\ \A f \in Tools \ {e} : writable'[f] = writable[f]
  BY DEF TypeOK
<1>3. /\ ~ContainsId(ir, next_id)
      /\ \A f \in Tools : next_id \notin writable[f] /\ ~ContainsId(snap[f], next_id)
  BY <1>1 DEF Allocated, TypeOK, Ids
<1>4. Allocated'
  BY <1>1, <1>2 DEF Allocated, TypeOK, Ids
<1>5. Idle'
  BY <1>2 DEF Idle, Live
<1>6. Confined'
  BY <1>1, <1>2 DEF Confined
<1>7. Exclusive'
  BY <1>2, <1>3 DEF Exclusive
<1>8. Exact'
  BY <1>1, <1>2, <1>3 DEF Exact
<1>9. SnapshotStaysCurrent'
  BY <1>1, <1>2, <1>3 DEF SnapshotStaysCurrent, Live, ContainsId, TypeOK
<1> QED
  BY <1>4, <1>5, <1>6, <1>7, <1>8, <1>9

(* A write to an id that the edit may write changes no other edit. *)
LEMMA WriteEdit ==
    ASSUME IInv, NEW e \in Tools, NEW i \in Ids, NEW r \in Reprs, WriteId(e, i, r)
    PROVE  EditInv'
<1> USE DEF IInv, EditInv
<1>1. /\ Live(e) /\ i \in writable[e] /\ written' = [written EXCEPT ![e][i] = r]
      /\ UNCHANGED <<ir, in_use, next_id, edit, kept, snap, writable>>
  BY InHandIsLive DEF WriteId, irVars
<1>2. \A f \in Tools : f # e => written'[f] = written[f]
  BY <1>1 DEF TypeOK
<1>3. \A j \in Ids : written'[e][j] # None => written[e][j] # None \/ j = i
  BY <1>1 DEF TypeOK, IRs
<1>4. Confined'
  BY <1>1, <1>2, <1>3 DEF Confined
<1>5. Idle'
  BY <1>1, <1>2 DEF Idle, Live
<1> QED
  BY <1>1, <1>4, <1>5 DEF Allocated, Exclusive, Exact, SnapshotStaysCurrent, Live

(* An edit that ends, applied or not, takes nothing from the others: their
   ids stay in the table, and what they have read stays current. *)
LEMMA LoseEdit ==
    ASSUME IInv, NEW e \in Tools, Loses(e),
           \A i \in Ids :
              ir'[i] = IF i \in writable[e] /\ ir'[i] # None THEN ir'[i] ELSE ir[i]
    PROVE  EditInv'
<1> USE DEF IInv, EditInv
<1>1. /\ in_use' = in_use \ writable[e] /\ next_id' = next_id
      /\ writable'[e] = {} /\ written'[e] = Empty /\ snap'[e] = Empty
      /\ \A f \in Tools \ {e} :
            writable'[f] = writable[f] /\ written'[f] = written[f] /\ snap'[f] = snap[f]
  BY DEF TypeOK, Loses, DropEdit, Released
<1>2. ~Live(e)' /\ \A f \in Tools \ {e} : Live(f)' <=> Live(f)
  BY DEF Loses
<1>3. \A i \in Ids : i \notin writable[e] => ir'[i] = ir[i]
  OBVIOUS
<1>4. \A i \in Ids : ContainsId(ir, i) => ContainsId(ir', i)
  BY DEF ContainsId
<1>5. Allocated'
  BY <1>1, <1>3 DEF Allocated, ContainsId, Empty
<1>6. Idle'
  BY <1>1, <1>2 DEF Idle
<1>7. Confined'
  BY <1>1 DEF Confined, Empty
<1>8. Exclusive'
  BY <1>1 DEF Exclusive
<1>9. Exact'
  <2> SUFFICES ASSUME NEW i \in Ids
               PROVE  i \in in_use' <=> ContainsId(ir', i) /\ \E f \in Tools : i \in writable'[f]
    BY DEF Exact
  <2>1. CASE i \in writable[e]
    BY <1>1, <2>1 DEF Exclusive
  <2>2. CASE i \notin writable[e]
    BY <1>1, <1>3, <2>2 DEF Exact, ContainsId
  <2> QED
    BY <2>1, <2>2
<1>10. SnapshotStaysCurrent'
  <2> SUFFICES ASSUME NEW f \in Tools, Live(f)', NEW i \in writable'[f]
               PROVE  ir'[i] = snap'[f][i]
    BY DEF SnapshotStaysCurrent
  <2>1. f # e /\ Live(f) /\ i \in writable[f] /\ i \in Ids
    BY <1>1, <1>2 DEF TypeOK
  <2>2. i \notin writable[e]
    BY <2>1 DEF Exclusive
  <2> QED
    BY <1>1, <1>3, <2>1, <2>2 DEF SnapshotStaysCurrent
<1> QED
  BY <1>5, <1>6, <1>7, <1>8, <1>9, <1>10

(* Every step keeps what holds of the edits. *)
LEMMA EditsPreserved ==
    ASSUME IInv, [Next]_vars
    PROVE  EditInv'
<1> USE DEF IInv
<1>1. CASE Keeps
  BY <1>1 DEF Keeps, EditInv, Allocated, Idle, Confined, Exclusive, Exact,
              SnapshotStaysCurrent, irVars
<1>2. ASSUME NEW S \in Requests, RunnableNewEdit(S) PROVE EditInv'
  BY <1>2, GrantEdit
<1>3. ASSUME NEW e \in Tools, NEW r \in Reprs, AddRepresentation(e, r) PROVE EditInv'
  <2>1. /\ Live(e) /\ next_id <= MaxId
        /\ writable' = [writable EXCEPT ![e] = @ \cup {next_id}]
        /\ written' = [written EXCEPT ![e][next_id] = r] /\ next_id' = next_id + 1
        /\ UNCHANGED <<ir, in_use, snap, edit, kept>>
    BY <1>3, InHandIsLive DEF AddRepresentation, Fresh
  <2>2. \A f \in Tools, i \in Ids :
              written'[f][i] # None => written[f][i] # None \/ (f = e /\ i = next_id)
    BY <2>1 DEF TypeOK, IRs
  <2>3. \A f \in Tools \ {e} : written'[f] = written[f]
    BY <2>1 DEF TypeOK
  <2> QED
    BY <2>1, <2>2, <2>3, GainEdit
<1>4. ASSUME NEW e \in Tools, NewId(e) PROVE EditInv'
  BY <1>4, InHandIsLive, GainEdit DEF NewId, Fresh
<1>5. ASSUME NEW e \in Tools, NEW i \in Ids, NEW r \in Reprs, WriteId(e, i, r) PROVE EditInv'
  BY <1>5, WriteEdit
<1>6. ASSUME NEW e \in Tools, Loses(e), ir' = ir PROVE EditInv'
  BY <1>6, LoseEdit
<1>7. ASSUME NEW e \in Tools, e = edit[Signalled], ProcessOk, Loses(e) PROVE EditInv'
  <2>1. ir' = Overlay(ir, written[e]) /\ ir \in IRs /\ written[e] \in IRs
    BY <1>7 DEF ProcessOk, Applied, TypeOK
  <2>2. \A i \in Ids : ir'[i] = IF written[e][i] = None THEN ir[i] ELSE written[e][i]
    BY <2>1, OverlayType
  <2>3. \A i \in Ids : written[e][i] # None => i \in writable[e]
    BY DEF EditInv, Confined
  <2>4. \A i \in Ids :
              ir'[i] = IF i \in writable[e] /\ ir'[i] # None THEN ir'[i] ELSE ir[i]
    BY <2>2, <2>3
  <2> QED
    BY <1>7, <2>4, LoseEdit
<1> QED
  BY <1>1, <1>2, <1>3, <1>4, <1>5, <1>6, <1>7, EditSteps
----------------------------------------------------------------------------
(* Passes over the queue *)

(* The organizer's IR changes only when a result is processed, after which the
   loop takes a new snapshot. *)
LEMMA SnapshotIsIRPreserved ==
    ASSUME SnapshotIsIR, [Next]_vars
    PROVE  SnapshotIsIR'
<1>1. CASE Main
  BY <1>1 DEF SnapshotIsIR, Main, TakeSnapshot, NotRunnable, TryAgain, TryLater, GiveUp,
              RunnableUnknownId, RunnableIdInUse, RunnableNewEdit, StartRun, StartRunFails,
              RecordInvocation, ScheduleDone, NoTools, ProcessOk, ProcessWrongOrganizer,
              ProcessErr, DrainDone, Return, Unwind, DetachFinished, DetachRunning, Fail,
              Offering, irVars
<1>2. ASSUME NEW t \in Tools, Thread(t) \/ EditCall(t) PROVE SnapshotIsIR'
  <2>1. UNCHANGED <<pc, snapshot, ir>>
    BY <1>2, CallFacts
       DEF Thread, ReplaceEdit, SpawnHelper, HelperExits, RunReturnsOk, RunFails, Ends, Signal,
           SignalDetached, mainVars, irVars
  <2> QED
    BY <2>1 DEF SnapshotIsIR
<1> QED
  BY <1>1, <1>2 DEF Next, Done, vars, mainVars, irVars, SnapshotIsIR

(* An id that is in use, and not by a kept edit, is so by a run whose result is
   still due. *)
LEMMA InUseFacts ==
    ASSUME IInv, pc = "schedule", NEW S, WhyInUse(S) = "IdInUse"
    PROVE  invocations # {}
<1> USE DEF IInv
<1>1. PICK t \in Tools : edit[t] \in Tools
  <2>1. PICK i \in in_use : \A e \in kept : i \notin writable[e]
    BY DEF WhyInUse, IsKept
  <2>2. PICK e \in Tools : i \in writable[e]
    BY <2>1 DEF EditInv, Exact, TypeOK
  <2>3. Live(e) /\ e \notin kept
    BY <2>1, <2>2 DEF EditInv, Idle
  <2> QED
    BY <2>3 DEF Live
<1>2. HasEdit(t)
  BY <1>1, TranspileAssumption DEF HasEdit, Tools
<1>3. Started(t)
  BY <1>2 DEF Held, Run, Started
<1> QED
  BY <1>3 DEF Attachment, Attached

(* Within a pass, who is back in the queue has said why. *)
LEMMA PassesPreserved ==
    ASSUME IInv, [Next]_vars
    PROVE  Passes'
<1> USE DEF IInv, TypeOK
<1>1. CASE TakeSnapshot
  BY <1>1, EmptyFacts DEF Passes, TakeSnapshot
<1>2. ASSUME Offering, TryLater("TryAgain") PROVE Passes'
  <2>1. Current \in Tools /\ \A t \in Elements(queue) : t \in Tools
    BY <1>2, CurrentFacts DEF Offering
  <2>2. Elements(queue') = Elements(queue) \cup {Current}
    BY <1>2, <2>1, AppendFacts DEF TryLater, Requeued
  <2> QED
    BY <1>2, <2>1, <2>2 DEF Passes, TryLater, Offering
<1>3. ASSUME NEW S \in Requests, RunnableIdInUse(S) PROVE Passes'
  <2>1. Offering /\ TryLater(WhyInUse(S))
    BY <1>3 DEF RunnableIdInUse
  <2>2. WhyInUse(S) \in {"IdInUse", "Kept"}
    BY DEF WhyInUse
  <2>3. Current \in Tools /\ \A t \in Elements(queue) : t \in Tools
    BY <2>1, CurrentFacts DEF Offering
  <2>4. Elements(queue') = Elements(queue) \cup {Current}
    BY <2>1, <2>3, AppendFacts DEF TryLater, Requeued
  <2>5. (WhyInUse(S) = "IdInUse" => invocations' # {}) /\ invocations' = invocations
        /\ pc = "schedule" /\ pc' = "schedule"
    BY <2>1, InUseFacts DEF Offering, TryLater
  <2> QED
    BY <2>1, <2>2, <2>3, <2>4, <2>5 DEF Passes, TryLater, Offering
<1>4. CASE NoTools
  <2>1. \A t \in Elements(queue) : t \in Tools
    BY ElementsType
  <2> QED
    BY <1>4, <2>1 DEF Passes, NoTools, NothingRuns
<1>5. CASE RecordInvocation
  BY <1>5 DEF Passes, RecordInvocation, Recorded
<1>6. CASE \/ Offering /\ GiveUp
           \/ \E S \in Requests : RunnableNewEdit(S)
           \/ StartRun \/ ScheduleDone
  BY <1>6 DEF Passes, GiveUp, RunnableNewEdit, StartRun, ScheduleDone, Offering
<1>7. CASE \/ StartRunFails \/ ProcessOk \/ ProcessWrongOrganizer \/ ProcessErr
           \/ DrainDone \/ Return \/ Unwind
  BY <1>7 DEF Passes, StartRunFails, ProcessOk, ProcessWrongOrganizer, ProcessErr, DrainDone,
              Return, Unwind, DetachFinished, DetachRunning, Fail
<1>8. ASSUME NEW t \in Tools, Thread(t) PROVE Passes'
  BY <1>8, ThreadFacts DEF Passes
<1>9. CASE UNCHANGED <<pc, queue, said, invocations>>
  BY <1>9 DEF Passes
<1>10. ASSUME Main PROVE Passes'
  BY <1>1, <1>2, <1>3, <1>4, <1>5, <1>6, <1>7, <1>10
     DEF Main, NotRunnable, TryAgain, RunnableUnknownId
<1> QED
  BY <1>8, <1>9, <1>10, CallFacts DEF Next, Done, vars, mainVars
----------------------------------------------------------------------------
(* A call of transpile starts, whatever ids earlier calls have used up. *)
Starts ==
    /\ pc = "snapshot"
    /\ snapshot = Empty
    /\ queue = [k \in Tools |-> k]
    /\ trying = <<>>
    /\ invocations = {}
    /\ channel = <<>>
    /\ ir_version = 0
    /\ said = [t \in Tools |-> "nothing"]
    /\ ir = Empty
    /\ in_use = {}
    /\ next_id \in 1 .. MaxId + 1
    /\ stage = [t \in Tools |-> "queued"]
    /\ helpers = [t \in Tools |-> 0]
    /\ edit = [t \in Tools |-> None]
    /\ kept = {}
    /\ snap = [t \in Tools |-> Empty]
    /\ writable = [t \in Tools |-> {}]
    /\ written = [t \in Tools |-> Empty]

(* What transpile starts with. *)
LEMMA StartFacts == Starts => IInv
<1> SUFFICES ASSUME Starts PROVE IInv
  OBVIOUS
<1> USE HarvestIRAssumption, TranspileAssumption
<1>1. /\ Tools = 1 .. NTools /\ queue \in [1 .. NTools -> Tools] /\ queue \in Seq(Tools)
      /\ DOMAIN queue = 1 .. NTools /\ \A k \in Tools : queue[k] = k
  BY DEF Starts, Tools
<1>2. Elements(queue) = Tools /\ Increasing(queue)
  BY <1>1 DEF Elements, Increasing
<1>3. TypeOK
  BY <1>1, EmptyIsIR, EmptyFacts DEF Starts, TypeOK, PCs, Stages
<1>4. Counted
  <2>1. {t \in Tools : stage[t] = "applied"} = {}
    BY DEF Starts
  <2> QED
    BY <2>1, FS_EmptySet DEF Starts, Counted
<1>5. Waiting
  BY <1>2, EmptyFacts DEF Starts, Waiting, Started
<1>6. Attachment /\ Signals /\ Joining
  BY EmptyFacts DEF Starts, Attachment, Signals, Joining, Started, HasSent
<1>7. Held /\ EditInv
  <2>1. \A t \in Tools : edit[t] = None /\ ~Live(t) /\ None \notin Tools
    BY DEF Starts, Live, Tools
  <2> QED
    BY <2>1 DEF Starts, Held, Run, HasEdit, EditInv, Allocated, Idle, Confined, Exclusive, Exact,
                SnapshotStaysCurrent, ContainsId, Empty
<1>8. SnapshotIsIR /\ Passes
  BY DEF Starts, SnapshotIsIR, Passes
<1> QED
  BY <1>3, <1>4, <1>5, <1>6, <1>7, <1>8 DEF IInv

(* It holds when the process starts. *)
LEMMA InitFacts == Init => IInv
<1>1. Init => Starts
  BY HarvestIRAssumption DEF Init, Starts
<1> QED
  BY <1>1, StartFacts

(* No part of the invariant is inductive without the others: an edit is still
   current only because the ids it may write are in use, they are only if a
   tool that has an edit is one that was started or somebody kept it, an edit
   that was kept is in no run, and a tool is started once only because the
   scheduler does not lose count. *)
LEMMA StepFacts == ASSUME IInv, [Next]_vars PROVE IInv'
<1>1. /\ TypeOK /\ Counted /\ Waiting /\ Attachment /\ Signals /\ Joining /\ Held
      /\ SnapshotIsIR
  BY DEF IInv
<1>2. Counted' /\ ir_version' \in 0 .. NTools
  BY <1>1, CountedPreserved
<1>3. TypeOK'
  BY <1>1, <1>2, TypePreserved
<1>4. Waiting' /\ Attachment' /\ Signals' /\ Joining' /\ Held'
  BY <1>1, WaitingPreserved, AttachmentPreserved, SignalsPreserved, JoiningPreserved,
     HeldPreserved
<1>5. EditInv' /\ SnapshotIsIR' /\ Passes'
  BY <1>1, EditsPreserved, SnapshotIsIRPreserved, PassesPreserved DEF IInv
<1> QED
  BY <1>2, <1>3, <1>4, <1>5 DEF IInv

(* The inductive invariant holds in every state. *)
THEOREM Inductive == Spec => []IInv
  BY InitFacts, StepFacts, PTL DEF Spec

(* Every step of transpile and of its tools keeps the types; in particular the
   IR version stays below the number of tools and helpers below their bound. *)
THEOREM TypeCorrect == Spec => []TypeOK
<1>1. IInv => TypeOK
  BY DEF IInv
<1> QED
  BY <1>1, Inductive, PTL

(* What a run read of the ids it may write is current when it is applied. *)
THEOREM SnapshotCurrent == Spec => []SnapshotStaysCurrent
<1>1. IInv => SnapshotStaysCurrent
  BY DEF IInv, EditInv
<1> QED
  BY <1>1, Inductive, PTL

(* No tool is lost, run or kept twice, or overtaken, through any number of
   passes over any number of tools. *)
THEOREM Accounting == Spec => []ToolsAccounted
<1>1. IInv => ToolsAccounted
  <2> SUFFICES ASSUME IInv, InTranspile
               PROVE  LET waiting == queue \o trying
                          handed_over == IF pc = "spawned" THEN {Current} ELSE {}
                      IN  /\ \A j, k \in DOMAIN waiting : j < k => waiting[j] < waiting[k]
                          /\ {t \in Tools : stage[t] = "queued"} = Elements(waiting) \ handed_over
    BY DEF ToolsAccounted
  <2> USE DEF IInv, Waiting
  <2> DEFINE w == queue \o trying
             h == IF pc = "spawned" THEN {Current} ELSE {}
  <2>1. queue \in Seq(Tools) /\ trying \in Seq(Tools)
    BY DEF TypeOK
  <2>2. /\ Len(w) = Len(queue) + Len(trying) /\ DOMAIN w = 1 .. Len(w)
        /\ Len(queue) \in Nat /\ DOMAIN queue = 1 .. Len(queue)
        /\ Len(trying) \in Nat /\ DOMAIN trying = 1 .. Len(trying)
        /\ \A k \in 1 .. Len(w) : w[k] = IF k <= Len(queue) THEN queue[k] ELSE trying[k - Len(queue)]
    BY <2>1, ConcatProperties, LenProperties
  <2> HIDE DEF w
  <2>3. ASSUME NEW k \in DOMAIN w
        PROVE  \/ k \in DOMAIN queue /\ w[k] = queue[k]
               \/ k > Len(queue) /\ k - Len(queue) \in DOMAIN trying /\ w[k] = trying[k - Len(queue)]
    BY <2>2
  <2>4. Elements(w) = Elements(queue) \cup Elements(trying)
    <3>1. ASSUME NEW k \in DOMAIN queue PROVE k \in DOMAIN w /\ w[k] = queue[k]
      BY <2>2
    <3>2. ASSUME NEW k \in DOMAIN trying
          PROVE  Len(queue) + k \in DOMAIN w /\ w[Len(queue) + k] = trying[k]
      BY <2>2
    <3> QED
      BY <2>3, <3>1, <3>2 DEF Elements
  <2>5. ASSUME NEW j \in DOMAIN w, NEW k \in DOMAIN w, j < k PROVE w[j] < w[k]
    <3>1. CASE k \in DOMAIN queue
      BY <2>2, <2>5, <3>1 DEF Increasing
    <3>2. CASE j \notin DOMAIN queue
      <4>1. /\ j - Len(queue) \in DOMAIN trying /\ k - Len(queue) \in DOMAIN trying
            /\ j - Len(queue) < k - Len(queue)
            /\ w[j] = trying[j - Len(queue)] /\ w[k] = trying[k - Len(queue)]
        BY <2>2, <2>5, <3>2
      <4> QED
        BY <4>1 DEF Increasing
    <3>3. CASE j \in DOMAIN queue /\ k \notin DOMAIN queue
      <4>1. w[j] \in Elements(queue) /\ w[k] \in Elements(trying)
        BY <2>2, <2>3, <3>3 DEF Elements
      <4> QED
        BY <4>1
    <3> QED
      BY <3>1, <3>2, <3>3
  <2>6. {t \in Tools : stage[t] = "queued"} = Elements(w) \ h
    <3>1. Elements(w) \subseteq Tools
      BY <2>1, <2>4, ElementsType
    <3>2. ASSUME NEW t \in Tools, stage[t] = "queued" PROVE t \in Elements(w) /\ t \notin h
      BY <2>4, <3>2 DEF Started
    <3>3. ASSUME NEW t \in Elements(w), t \notin h PROVE stage[t] = "queued"
      BY <2>4, <3>3
    <3> QED
      BY <3>1, <3>2, <3>3
  <2> QED
    BY <2>5, <2>6 DEF w
<1> QED
  BY <1>1, Inductive, PTL

(* Every signal finds its invocation, once. *)
THEOREM SignalsFindInvocations == Spec => []SignalsMatchInvocations
<1>1. IInv => SignalsMatchInvocations
  <2> SUFFICES ASSUME IInv, pc \in {"process", "drain"}
               PROVE  Elements(channel) \subseteq invocations /\ Distinct(channel)
    BY DEF SignalsMatchInvocations, Distinct
  <2>1. Distinct(channel) /\ \A t \in Tools : t \in Elements(channel) <=> HasSent(t)
    BY DEF IInv, Signals, InTranspile
  <2>2. Elements(channel) \subseteq Tools
    BY ElementsType DEF IInv, TypeOK
  <2> QED
    BY <2>1, <2>2 DEF IInv, Attachment, Attached
<1> QED
  BY <1>1, Inductive, PTL

(* The main thread never blocks in recv (runner.rs:52) for a signal that nobody
   is going to send: with an empty channel every stored invocation is of a
   thread that runs its tool, or has only the join of its helpers before its
   signal, and there is one. *)
RecvIsAnswered ==
    pc = "process" /\ ~NothingRuns /\ channel = <<>> =>
        /\ \A t \in invocations : stage[t] \in {"running", "ok", "err"}
        /\ \E t \in Tools : t \in invocations

(* So what Terminates assumes of tools and helpers is all that recv waits
   for: the safety half of Terminates. *)
THEOREM RecvAnswered == Spec => []RecvIsAnswered
<1>1. IInv => RecvIsAnswered
  <2> SUFFICES ASSUME IInv, pc = "process", invocations # {}, channel = <<>>
               PROVE  /\ \A t \in invocations : stage[t] \in {"running", "ok", "err"}
                      /\ \E t \in Tools : t \in invocations
    BY DEF RecvIsAnswered, NothingRuns
  <2>1. invocations \subseteq Tools
    BY DEF IInv, TypeOK
  <2>2. \A t \in Tools : ~HasSent(t)
    BY EmptyFacts DEF IInv, Signals, InTranspile
  <2>3. \A t \in invocations : Started(t)
    BY DEF IInv, Attachment
  <2> QED
    BY <2>1, <2>2, <2>3 DEF Started, HasSent
<1> QED
  BY <1>1, Inductive, PTL

(* The loop ends with tools in the queue only if they put themselves off when
   they were shown the IR that is returned, or need an id of an edit that a tool
   took out of its run and kept; never because of a run. *)
THEOREM NoneSchedulable == Spec => []NothingSchedulable
<1>1. IInv => NothingSchedulable
  BY DEF IInv, SnapshotIsIR, Passes, NothingSchedulable
<1> QED
  BY <1>1, Inductive, PTL

(* Of a tool nothing outlives a transpile that returns an IR but the edits that
   were taken out of their runs and kept, and the leases of those. *)
THEOREM ReturnsClean == Spec => []CleanReturn
<1>1. IInv => CleanReturn
  <2> SUFFICES ASSUME IInv, pc = "returned"
               PROVE  /\ \A t \in Tools :
                            stage[t] \in {"queued", "applied", "dropped", "skipped"} /\ helpers[t] = 0
                      /\ \A i \in in_use : \E e \in kept : i \in writable[e]
    BY DEF CleanReturn, IsKept
  <2> USE DEF IInv
  <2>1. \A t \in Tools : ~Started(t)
    BY DEF Attachment, Attached
  <2>2. \A t \in Tools : stage[t] \in {"queued", "applied", "dropped", "skipped"}
    BY <2>1 DEF Started, TypeOK, Stages
  <2>3. \A t \in Tools : helpers[t] = 0
    BY <2>1 DEF Started, Joining
  <2>4. \A t \in Tools : edit[t] = None
    BY <2>1 DEF Started, Held, Run, HasEdit
  <2>5. \A e \in Tools : writable[e] # {} => e \in kept
    BY <2>4, TranspileAssumption DEF EditInv, Idle, Live, Tools
  <2>6. \A i \in in_use : \E e \in kept : i \in writable[e]
    BY <2>5 DEF TypeOK, EditInv, Exact
  <2> QED
    BY <2>2, <2>3, <2>6
<1> QED
  BY <1>1, Inductive, PTL

(* The safety half of OkIsApplied: the edit that a run which returned Ok ends
   with stays as it is until it is applied as it is, whatever else happens, unless
   transpile is on its error path or the edit is of another organizer. *)
OkIsNotDropped ==
    [][\A t \in Tools :
          (stage[t] \in {"ok", "sent_ok"} /\ edit[t] # Foreign /\ pc \notin {"unwinding", "failed"}) =>
              \/ /\ stage'[t] \in {"ok", "sent_ok"}
                 /\ edit'[t] = edit[t] /\ written'[edit[t]] = written[edit[t]]
              \/ stage'[t] = "applied" /\ ir' = Overlay(ir, written[edit[t]])]_vars

(* What may happen to the edit of a run that has returned: it has left the
   hands of the tools, kept edits and other runs are other edits. *)
LEMMA OkIsLeftAlone ==
    ASSUME IInv, [Next]_vars, NEW t \in Tools, stage[t] \in {"ok", "sent_ok"}, edit[t] # Foreign,
           edit'[t] = edit[t]
    PROVE  written'[edit[t]] = written[edit[t]]
<1> USE DEF IInv
<1>1. edit[t] \in Tools /\ ~InHand(edit[t])
  <2>1. edit[t] \in Tools
    BY DEF TypeOK, Held, Run, HasEdit
  <2>2. \A u \in Tools : Running(u) => edit[u] # edit[t]
    BY <2>1 DEF Held, Running
  <2> QED
    BY <2>1, <2>2 DEF InHand, Held
<1>2. CASE Keeps
  BY <1>2 DEF Keeps
<1>3. ASSUME NEW S \in Requests, RunnableNewEdit(S) PROVE written' = written
  BY <1>3 DEF RunnableNewEdit
<1>4. ASSUME NEW e \in Tools, NEW r \in Reprs, AddRepresentation(e, r)
      PROVE  written'[edit[t]] = written[edit[t]]
  BY <1>1, <1>4 DEF AddRepresentation, TypeOK
<1>5. ASSUME NEW e \in Tools, NewId(e) PROVE written' = written
  BY <1>5 DEF NewId
<1>6. ASSUME NEW e \in Tools, NEW i \in Ids, NEW r \in Reprs, WriteId(e, i, r)
      PROVE  written'[edit[t]] = written[edit[t]]
  BY <1>1, <1>6 DEF WriteId, TypeOK
<1>7. ASSUME NEW e \in Tools, Loses(e) PROVE written'[edit[t]] = written[edit[t]]
  <2>1. e # edit[t]
    BY <1>1, <1>7 DEF Loses, Live
  <2> QED
    BY <1>1, <1>7, <2>1 DEF Loses, DropEdit, TypeOK
<1> QED
  BY <1>2, <1>3, <1>4, <1>5, <1>6, <1>7, EditSteps

(* A run that returned Ok goes on to be applied or stays to be applied: the
   safety half of OkIsApplied. *)
THEOREM OkStays == Spec => OkIsNotDropped
<1> DEFINE Stays ==
      \A t \in Tools :
          (stage[t] \in {"ok", "sent_ok"} /\ edit[t] # Foreign /\ pc \notin {"unwinding", "failed"}) =>
              \/ /\ stage'[t] \in {"ok", "sent_ok"}
                 /\ edit'[t] = edit[t] /\ written'[edit[t]] = written[edit[t]]
              \/ stage'[t] = "applied" /\ ir' = Overlay(ir, written[edit[t]])
<1>1. IInv /\ [Next]_vars => [Stays]_vars
  <2> SUFFICES ASSUME IInv, Next, NEW t \in Tools, stage[t] \in {"ok", "sent_ok"},
                      edit[t] # Foreign, pc \notin {"unwinding", "failed"}
               PROVE  \/ stage'[t] \in {"ok", "sent_ok"} /\ edit'[t] = edit[t]
                      \/ stage'[t] = "applied" /\ ir' = Overlay(ir, written[edit[t]])
    BY OkIsLeftAlone
  <2> USE DEF IInv, TypeOK
  <2> DEFINE Kept == stage'[t] \in {"ok", "sent_ok"} /\ edit'[t] = edit[t]
             Applied1 == stage'[t] = "applied" /\ ir' = Overlay(ir, written[edit[t]])
  <2>1. ASSUME NEW u \in Tools, Thread(u) PROVE Kept
    <3>1. Attached(t)
      BY DEF Attachment, Started
    <3>2. stage'[t] \in {"ok", "sent_ok"}
      BY <2>1, <3>1, ThreadFacts
    <3>3. CASE u # t
      BY <2>1, <3>2, <3>3 DEF Thread, ReplaceEdit, SpawnHelper, HelperExits, RunReturnsOk, RunFails,
                              Ends, Signal, SignalDetached, DropHeld, editVars
    <3>4. CASE u = t
      BY <2>1, <3>1, <3>2, <3>4 DEF Thread, ReplaceEdit, SpawnHelper, HelperExits, RunReturnsOk,
                                    RunFails, Running, Ends, Signal, SignalDetached, editVars
    <3> QED
      BY <3>3, <3>4
  <2>2. CASE Main
    <3>1. CASE (Offering /\ GiveUp) \/ StartRun \/ StartRunFails
      <4>1. Current \in Tools /\ stage[Current] = "queued"
        BY <3>1, CurrentFacts DEF Offering, StartRun, StartRunFails, Waiting
      <4> QED
        BY <3>1, <4>1 DEF GiveUp, StartRun, StartRunFails, DropHeld, editVars
    <3>2. CASE ProcessOk \/ ProcessWrongOrganizer \/ ProcessErr
      <4>1. CASE Signalled = t
        BY <3>2, <4>1 DEF ProcessOk, Applied, ProcessWrongOrganizer, ProcessErr
      <4>2. CASE Signalled # t
        BY <3>2, <4>2 DEF ProcessOk, ProcessWrongOrganizer, ProcessErr, DropHeld, editVars
      <4> QED
        BY <4>1, <4>2
    <3>3. CASE UNCHANGED <<stage, edit>>
      BY <3>3
    <3>4. ASSUME NEW S \in Requests, RunnableNewEdit(S) PROVE Kept
      <4>1. Current \in Tools /\ stage[Current] = "queued"
        BY <3>4, CurrentFacts DEF RunnableNewEdit, Offering
      <4> QED
        BY <3>4, <4>1 DEF RunnableNewEdit
    <3> QED
      BY <2>2, <3>1, <3>2, <3>3, <3>4
         DEF Main, TakeSnapshot, NotRunnable, TryAgain, TryLater, RunnableUnknownId,
             RunnableIdInUse, RecordInvocation, ScheduleDone, NoTools, DrainDone, Return, Unwind,
             DetachFinished, DetachRunning, Fail, toolVars, editVars
  <2>3. CASE Done
    BY <2>3 DEF Done, vars, toolVars, editVars
  <2>4. ASSUME NEW e \in Tools, EditCall(e) PROVE Kept
    BY <2>4, CallFacts
  <2> QED
    BY <2>1, <2>2, <2>3, <2>4 DEF Next
<1> QED
  BY <1>1, Inductive, PTL DEF Spec, OkIsNotDropped
----------------------------------------------------------------------------
(* transpile implements Organizer *)

(* The refinement mapping, named. *)
OrgIR == [o \in {"organizer"} |-> ir]
OrgInUse == [o \in {"organizer"} |-> in_use]
OrgOwner == [e \in Tools |-> IF Live(e) THEN "organizer" ELSE None]

(* The organizer sees an edit end: its ids leave the table. *)
LEMMA LosesIsDrop ==
    ASSUME TypeOK, NEW e \in Tools, Loses(e)
    PROVE  Org!Live(e) /\ Org!Drop(e) /\ OrgOwner[e] = "organizer"
<1>1. OrgOwner[e] = "organizer"
  BY DEF OrgOwner, Loses
<1>2. Org!Live(e)
  BY <1>1, TranspileAssumption DEF Org!Live, OrgOwner
<1>3. OrgInUse' = [OrgInUse EXCEPT ![OrgOwner[e]] = @ \ writable[e]]
  BY <1>1 DEF Loses, DropEdit, Released, OrgInUse
<1>4. OrgOwner' = [OrgOwner EXCEPT ![e] = None]
  BY DEF Loses, OrgOwner
<1>5. writable' = [writable EXCEPT ![e] = {}] /\ written' = [written EXCEPT ![e] = Empty]
  BY DEF Loses, DropEdit
<1>6. Org!Empty = Empty
  BY DEF Org!Empty, Empty, Org!Ids, Ids
<1> QED
  BY <1>1, <1>2, <1>3, <1>4, <1>5, <1>6 DEF Org!Drop, Org!Released, OrgInUse, OrgOwner

(* The calls that transpile and its tools make of the organizer and of their
   edits are calls that Organizer allows, for any number of tools and ids. *)
THEOREM OrganizerRefined == Spec => ImplementsOrganizer
<1> USE HarvestIRAssumption, TranspileAssumption
<1>1. Init => Org!Init
  <2> SUFFICES ASSUME Init PROVE Org!Init
    OBVIOUS
  <2>1. Org!Empty = Empty /\ Org!Ids = Ids /\ Org!IRs = IRs
    BY DEF Org!Empty, Empty, Org!Ids, Ids, Org!IRs, IRs
  <2>2. \A e \in Tools : ~Live(e)
    BY DEF Init, Live, Tools
  <2>3. Empty \in {m \in IRs : Org!Contents(m) \subseteq 1 .. 0}
    BY EmptyIsIR DEF Org!Contents, Org!ContainsId, Empty, Ids, Org!Ids
  <2>4. OrgIR \in [{"organizer"} -> {m \in IRs : Org!Contents(m) \subseteq 1 .. 0}]
    BY <2>3 DEF Init, OrgIR
  <2>5. OrgInUse = [o \in {"organizer"} |-> {}] /\ OrgOwner = [t \in Tools |-> None]
    BY <2>2 DEF Init, OrgInUse, OrgOwner
  <2> QED
    BY <2>1, <2>4, <2>5 DEF Init, Org!Init, OrgIR, OrgInUse, OrgOwner
<1>2. IInv /\ [Next]_vars => [Org!Next]_(Org!vars)
  <2> SUFFICES ASSUME IInv, [Next]_vars
               PROVE  Org!Next \/ UNCHANGED <<OrgIR, OrgInUse, OrgOwner, writable, written, next_id>>
    BY DEF Org!vars, OrgIR, OrgInUse, OrgOwner
  <2> USE DEF IInv
  <2>0. Org!Ids = Ids /\ \A i \in Ids : "organizer" \in {"organizer"}
    BY DEF Org!Ids, Ids
  <2>1. CASE Keeps
    BY <2>1 DEF Keeps, irVars, OrgIR, OrgInUse, OrgOwner
  <2>2. ASSUME NEW e \in Tools, InHand(e), UNCHANGED <<edit, kept, ir, in_use>>
        PROVE  Org!Live(e) /\ UNCHANGED <<OrgIR, OrgInUse, OrgOwner>>
    <3>1. Live(e)
      BY <2>2, InHandIsLive
    <3>2. UNCHANGED <<OrgIR, OrgInUse, OrgOwner>>
      BY <2>2 DEF Live, OrgIR, OrgInUse, OrgOwner
    <3> QED
      BY <3>1, <3>2 DEF Org!Live
  <2>3. ASSUME NEW S \in Requests, RunnableNewEdit(S) PROVE Org!Next
    <3>1. PICK c \in Tools : c = Current
      BY <2>3, CurrentHasNone DEF RunnableNewEdit
    <3>2. /\ ~Live(c) /\ edit[c] = None /\ edit' = [edit EXCEPT ![c] = c]
          /\ in_use' = in_use \cup S /\ writable' = [writable EXCEPT ![c] = S]
          /\ UNCHANGED <<ir, next_id, kept, written>>
      BY <2>3, <3>1, CurrentHasNone DEF RunnableNewEdit
    <3>3. \A e \in Tools : Live(e)' <=> Live(e) \/ e = c
      <4>1. edit'[c] = c /\ \A t \in Tools \ {c} : edit'[t] = edit[t]
        BY <3>2 DEF TypeOK
      <4>2. \A e \in Tools : edit[c] # e
        BY <3>2 DEF Tools
      <4> QED
        BY <3>2, <4>1, <4>2 DEF Live
    <3>4. OrgOwner[c] = None /\ OrgOwner' = [OrgOwner EXCEPT ![c] = "organizer"]
      BY <3>2, <3>3 DEF OrgOwner
    <3>5. OrgInUse' = [OrgInUse EXCEPT !["organizer"] = @ \cup S] /\ OrgIR' = OrgIR
      BY <3>2 DEF OrgInUse, OrgIR
    <3>6. Org!NewEditOutcome(OrgIR["organizer"], OrgInUse["organizer"], S) = "Ok"
      BY <2>3 DEF RunnableNewEdit, OrgIR, OrgInUse, NewEditOutcome, Org!NewEditOutcome,
                  ContainsId, Org!ContainsId
    <3>7. S \subseteq 1 .. next_id - 1 /\ S \subseteq Ids
      <4>1. 1 .. next_id - 1 \subseteq Ids
        BY DEF TypeOK, Ids
      <4> QED
        BY <4>1 DEF Requests
    <3>8. Org!NewEdit("organizer", c, S)
      BY <3>2, <3>4, <3>5, <3>6, <3>7 DEF Org!NewEdit, Org!Live, OrgIR, OrgInUse, OrgOwner
    <3> QED
      BY <2>0, <3>7, <3>8 DEF Org!Next
  <2>4. TypeOK /\ Waiting /\ Held
    OBVIOUS
  <2>5. ASSUME NEW e \in Tools, NEW r \in Reprs, AddRepresentation(e, r) PROVE Org!Next
    <3>1. Org!Live(e) /\ UNCHANGED <<OrgIR, OrgInUse, OrgOwner>>
      BY <2>2, <2>5 DEF AddRepresentation
    <3>2. Org!AddRepresentation(e, r)
      BY <2>5, <3>1 DEF AddRepresentation, Fresh, Org!AddRepresentation, Org!Fresh,
                        OrgIR, OrgInUse, OrgOwner
    <3> QED
      BY <3>2 DEF Org!Next
  <2>6. ASSUME NEW e \in Tools, NewId(e) PROVE Org!Next
    <3>1. Org!Live(e) /\ UNCHANGED <<OrgIR, OrgInUse, OrgOwner>>
      BY <2>2, <2>6 DEF NewId
    <3>2. Org!NewId(e)
      BY <2>6, <3>1 DEF NewId, Fresh, Org!NewId, Org!Fresh, OrgIR, OrgInUse, OrgOwner
    <3> QED
      BY <3>2 DEF Org!Next
  <2>7. ASSUME NEW e \in Tools, NEW i \in Ids, NEW r \in Reprs, WriteId(e, i, r) PROVE Org!Next
    <3>1. Org!Live(e) /\ UNCHANGED <<OrgIR, OrgInUse, OrgOwner>>
      BY <2>2, <2>7 DEF WriteId, irVars
    <3>2. Org!WriteId(e, i, r)
      BY <2>7, <3>1 DEF WriteId, irVars, Org!WriteId, Org!MayWrite, OrgIR, OrgInUse, OrgOwner
    <3> QED
      BY <2>0, <3>2 DEF Org!Next
  <2>8. ASSUME NEW e \in Tools, Loses(e), ir' = ir PROVE Org!Next
    <3>1. OrgIR' = OrgIR /\ UNCHANGED next_id
      BY <2>8 DEF OrgIR, Loses
    <3>2. Org!DropEdit(e)
      BY <2>8, <3>1, LosesIsDrop DEF Org!DropEdit, OrgIR
    <3> QED
      BY <3>2 DEF Org!Next
  <2>9. ASSUME NEW e \in Tools, e = edit[Signalled], ProcessOk, Loses(e) PROVE Org!Next
    <3>1. ir' = Overlay(ir, written[e]) /\ UNCHANGED next_id
      BY <2>9 DEF ProcessOk, Applied, Loses
    <3>2. Org!Live(e) /\ Org!Drop(e) /\ OrgOwner[e] = "organizer"
      BY <2>9, LosesIsDrop
    <3>3. Org!Overlay(ir, written[e]) = Overlay(ir, written[e])
      BY DEF Org!Overlay, Overlay, Org!Ids, Ids
    <3>4. OrgIR' = [OrgIR EXCEPT !["organizer"] = Org!Overlay(@, written[e])]
      BY <3>1, <3>3 DEF OrgIR
    <3>5. Org!ApplyEdit("organizer", e)
      BY <3>1, <3>2, <3>4 DEF Org!ApplyEdit, Org!IsOwn, OrgIR, OrgOwner
    <3> QED
      BY <3>5 DEF Org!Next
  <2> QED
    BY <2>1, <2>3, <2>4, <2>5, <2>6, <2>7, <2>8, <2>9, EditSteps
<1> QED
  BY <1>1, <1>2, Inductive, PTL DEF Spec, ImplementsOrganizer, Org!Spec

(* What OrganizerProofs shows of every user of an organizer, read here. *)
OrgProofs == INSTANCE OrganizerProofs WITH
    Organizers <- {"organizer"},
    Edits <- Tools,
    NSeed <- 0,
    ir <- [o \in {"organizer"} |-> ir],
    in_use <- [o \in {"organizer"} |-> in_use],
    owner <- [e \in Tools |-> IF Live(e) THEN "organizer" ELSE None]

(* transpile's organizer meets the assumptions of OrganizerProofs and behaves
   as its specification says, so its theorems hold here. *)
LEMMA OrganizerCarriesOver ==
    /\ Spec => OrgProofs!Spec
    /\ OrgProofs!HarvestIRAssumption /\ OrgProofs!OrganizerAssumption
<1>1. Org!Init => OrgProofs!Init
  BY DEF Org!Init, OrgProofs!Init, Org!IRs, OrgProofs!IRs, Org!Ids, OrgProofs!Ids,
         Org!Contents, OrgProofs!Contents, Org!ContainsId, OrgProofs!ContainsId,
         Org!Empty, OrgProofs!Empty
<1>2. [Org!Next]_(Org!vars) => [OrgProofs!Next]_(OrgProofs!vars)
  BY DEF Org!vars, OrgProofs!vars, Org!Next, OrgProofs!Next, Org!NewEdit, OrgProofs!NewEdit,
         Org!AddRepresentation, OrgProofs!AddRepresentation, Org!NewId, OrgProofs!NewId,
         Org!WriteId, OrgProofs!WriteId, Org!ApplyEdit, OrgProofs!ApplyEdit,
         Org!DropEdit, OrgProofs!DropEdit, Org!Drop, OrgProofs!Drop, Org!Live, OrgProofs!Live,
         Org!NewEditOutcome, OrgProofs!NewEditOutcome, Org!Fresh, OrgProofs!Fresh,
         Org!MayWrite, OrgProofs!MayWrite, Org!IsOwn, OrgProofs!IsOwn,
         Org!Released, OrgProofs!Released, Org!Overlay, OrgProofs!Overlay,
         Org!Empty, OrgProofs!Empty, Org!ContainsId, OrgProofs!ContainsId,
         Org!Ids, OrgProofs!Ids
<1>3. OrgProofs!HarvestIRAssumption /\ OrgProofs!OrganizerAssumption
  BY HarvestIRAssumption, TranspileAssumption
     DEF OrgProofs!HarvestIRAssumption, OrgProofs!OrganizerAssumption
<1> QED
  BY <1>1, <1>2, <1>3, OrganizerRefined, PTL
     DEF ImplementsOrganizer, Org!Spec, OrgProofs!Spec

(* So tools that run concurrently lose no update: the value of an id does not
   change in the IR as long as there is an edit that may write it. *)
THEOREM ToolsLoseNoUpdate == Spec => OrgProofs!NoLostUpdate
<1>1. OrgProofs!Spec => OrgProofs!NoLostUpdate
  BY OrganizerCarriesOver, OrgProofs!LostUpdateFree
<1> QED
  BY <1>1, OrganizerCarriesOver, PTL

(* ... the in_use table holds exactly the stored ids that the edits which are
   left may write, in a run or kept ... *)
THEOREM ToolsLeaseTable == Spec => [](OrgProofs!LeaseTableExact /\ OrgProofs!ExclusiveEdits)
<1>1. OrgProofs!Spec => []OrgProofs!LeaseTableExact
  BY OrganizerCarriesOver, OrgProofs!LeaseTable
<1>2. OrgProofs!Spec => []OrgProofs!ExclusiveEdits
  BY OrganizerCarriesOver, OrgProofs!Exclusion
<1> QED
  BY <1>1, <1>2, OrganizerCarriesOver, PTL

(* ... and transpile, by way of its organizer, implements the lease store. *)
THEOREM LeaseStoreRefined == Spec => OrgProofs!ImplementsLeaseStore
<1>1. OrgProofs!Spec => OrgProofs!ImplementsLeaseStore
  BY OrganizerCarriesOver, OrgProofs!Refinement
<1> QED
  BY <1>1, OrganizerCarriesOver, PTL
----------------------------------------------------------------------------
(* transpile implements Barrier *)

(* The refinement mapping, named. *)
JoinHandles == [t \in Tools |-> helpers[t] + IF Running(t) THEN 1 ELSE 0]
JoinWaiter ==
    [t \in Tools |->
        CASE stage[t] \in {"queued", "skipped"} -> "away"
          [] stage[t] = "running" -> "holding"
          [] stage[t] \in {"ok", "err"} -> "waiting"
          [] OTHER -> "through"]

(* What a step that concerns one tool at most does to the joiners. *)
LEMMA OneJoiner ==
    ASSUME TypeOK, TypeOK', NEW t \in Tools,
           \A u \in Tools \ {t} : stage'[u] = stage[u] /\ helpers'[u] = helpers[u]
    PROVE  /\ JoinHandles' = [JoinHandles EXCEPT ![t] = JoinHandles'[t]]
           /\ JoinWaiter' = [JoinWaiter EXCEPT ![t] = JoinWaiter'[t]]
<1>1. \A u \in Tools \ {t} : JoinHandles'[u] = JoinHandles[u] /\ JoinWaiter'[u] = JoinWaiter[u]
  BY DEF JoinHandles, JoinWaiter, Running
<1>2. /\ JoinHandles = [u \in Tools |-> JoinHandles[u]] /\ JoinHandles' = [u \in Tools |-> JoinHandles'[u]]
      /\ JoinWaiter = [u \in Tools |-> JoinWaiter[u]] /\ JoinWaiter' = [u \in Tools |-> JoinWaiter'[u]]
  BY DEF JoinHandles, JoinWaiter
<1> QED
  BY <1>1, <1>2

(* Setting an entry of the mapping to what it is changes nothing. *)
LEMMA Unchanged ==
    ASSUME NEW t \in Tools
    PROVE  /\ JoinHandles' = [JoinHandles EXCEPT ![t] = JoinHandles[t]] => JoinHandles' = JoinHandles
           /\ JoinWaiter' = [JoinWaiter EXCEPT ![t] = JoinWaiter[t]] => JoinWaiter' = JoinWaiter
<1>1. ASSUME NEW S, NEW f, f = [u \in S |-> f[u]], NEW g, g = [f EXCEPT ![t] = f[t]] PROVE g = f
  BY <1>1
<1>2. JoinHandles = [u \in Tools |-> JoinHandles[u]] /\ JoinWaiter = [u \in Tools |-> JoinWaiter[u]]
  BY DEF JoinHandles, JoinWaiter
<1> QED
  BY <1>1, <1>2

(* The steps of Barrier, read in the names of the mapping. *)
LEMMA JoinSteps ==
    ASSUME NEW t \in Tools
    PROVE  /\ JoinWaiter[t] = "away" /\ JoinWaiter' = [JoinWaiter EXCEPT ![t] = "holding"]
              /\ JoinHandles' = [JoinHandles EXCEPT ![t] = 1] => Joins!Open(t)
           /\ JoinHandles[t] > 0 /\ JoinHandles' = [JoinHandles EXCEPT ![t] = JoinHandles[t] + 1]
              /\ JoinWaiter' = JoinWaiter => Joins!Clone(t)
           /\ JoinHandles[t] > 0 /\ JoinHandles' = [JoinHandles EXCEPT ![t] = JoinHandles[t] - 1]
              /\ JoinWaiter' = JoinWaiter => Joins!Next
           /\ JoinHandles[t] > 0 /\ JoinHandles' = [JoinHandles EXCEPT ![t] = JoinHandles[t] - 1]
              /\ JoinWaiter[t] = "holding" /\ JoinWaiter' = [JoinWaiter EXCEPT ![t] = "waiting"]
                => Joins!Wait(t)
           /\ JoinHandles[t] = 0 /\ JoinHandles' = JoinHandles
              /\ JoinWaiter[t] = "waiting" /\ JoinWaiter' = [JoinWaiter EXCEPT ![t] = "through"]
                => Joins!Pass(t)
  BY DEF Joins!Open, Joins!Clone, Joins!DropOne, Joins!Wait, Joins!Pass, Joins!Party,
         Joins!Next, JoinHandles, JoinWaiter

(* The main thread takes a tool to its thread and its result from it, and has
   no part in between. *)
LEMMA MainJoins ==
    ASSUME IInv, TypeOK', Main
    PROVE  UNCHANGED <<JoinHandles, JoinWaiter>> \/ \E t \in Tools : Joins!Open(t)
<1> USE DEF IInv
<1>1. CASE UNCHANGED <<helpers, stage>>
  BY <1>1 DEF JoinHandles, JoinWaiter, Running
<1>2. ASSUME NEW t \in Tools, stage' = [stage EXCEPT ![t] = stage'[t]], helpers' = helpers,
             \/ stage[t] = "queued" /\ stage'[t] = "skipped"
             \/ stage[t] \in {"sent_ok", "sent_err"} /\ stage'[t] \in {"applied", "dropped"}
      PROVE  UNCHANGED <<JoinHandles, JoinWaiter>>
  <2>1. \A u \in Tools \ {t} : stage'[u] = stage[u] /\ helpers'[u] = helpers[u]
    BY <1>2 DEF TypeOK
  <2>2. JoinHandles'[t] = JoinHandles[t] /\ JoinWaiter'[t] = JoinWaiter[t]
    BY <1>2 DEF JoinHandles, JoinWaiter, Running
  <2>3. JoinHandles' = [JoinHandles EXCEPT ![t] = JoinHandles[t]]
        /\ JoinWaiter' = [JoinWaiter EXCEPT ![t] = JoinWaiter[t]]
    BY <2>1, <2>2, OneJoiner
  <2> QED
    BY <2>3, Unchanged
<1>3. CASE (Offering /\ GiveUp) \/ StartRunFails
  <2>1. PICK t \in Tools : t = Current
    BY <1>3, CurrentFacts DEF Offering, StartRunFails, Waiting
  <2>2. stage[t] = "queued" /\ stage' = [stage EXCEPT ![t] = "skipped"] /\ helpers' = helpers
    BY <1>3, <2>1, CurrentFacts DEF Offering, GiveUp, StartRunFails, Waiting
  <2> QED
    BY <1>2, <2>2 DEF TypeOK
<1>4. CASE StartRun
  <2>1. PICK t \in Tools : t = Current
    BY <1>4, CurrentFacts DEF StartRun, Waiting
  <2>2. stage[t] = "queued" /\ stage' = [stage EXCEPT ![t] = "running"] /\ helpers' = helpers
    BY <1>4, <2>1, CurrentFacts DEF StartRun, Waiting
  <2>3. stage'[t] = "running" /\ helpers'[t] = 0
        /\ \A u \in Tools \ {t} : stage'[u] = stage[u] /\ helpers'[u] = helpers[u]
    BY <2>2 DEF TypeOK, Joining
  <2>4. JoinWaiter[t] = "away" /\ JoinWaiter'[t] = "holding" /\ JoinHandles'[t] = 1
    BY <2>2, <2>3 DEF JoinHandles, JoinWaiter, Running
  <2>5. Joins!Open(t)
    BY <2>3, <2>4, OneJoiner, JoinSteps
  <2> QED
    BY <2>5
<1>5. CASE ProcessOk \/ ProcessWrongOrganizer \/ ProcessErr
  <2>1. PICK t \in Tools : t = Signalled
    BY <1>5, TailFacts DEF ProcessOk, ProcessWrongOrganizer, ProcessErr, Signalled, TypeOK
  <2>2. PICK s \in {"applied", "dropped"} :
            /\ stage[t] \in {"sent_ok", "sent_err"} /\ helpers' = helpers
            /\ stage' = [stage EXCEPT ![t] = s]
    BY <1>5, <2>1 DEF ProcessOk, ProcessWrongOrganizer, ProcessErr
  <2> QED
    BY <1>2, <2>2 DEF TypeOK
<1>6. ASSUME NEW t \in Tools, DetachFinished(t) PROVE UNCHANGED <<JoinHandles, JoinWaiter>>
  BY <1>2, <1>6 DEF DetachFinished, TypeOK
<1>7. CASE \/ RecordInvocation \/ NoTools \/ Return \/ Fail
           \/ \E t \in Tools : DetachRunning(t)
  BY <1>1, <1>7 DEF RecordInvocation, NoTools, Return, Fail, DetachRunning, toolVars
<1> QED
  BY <1>1, <1>3, <1>4, <1>5, <1>6, <1>7, MainFrame

(* A thread makes the steps of Barrier: its helpers come and go, the run gives
   up its handle, and with no handle left the thread passes. *)
LEMMA ThreadJoins ==
    ASSUME TypeOK, TypeOK', NEW t \in Tools, Thread(t)
    PROVE  Joins!Next \/ UNCHANGED <<JoinHandles, JoinWaiter>>
<1>1. CASE UNCHANGED <<helpers, stage>>
  BY <1>1 DEF JoinHandles, JoinWaiter, Running
<1>2. helpers[t] \in Nat
  BY TranspileAssumption DEF TypeOK
<1>3. CASE SpawnHelper(t)
  <2>1. stage' = stage /\ helpers'[t] = helpers[t] + 1
        /\ \A u \in Tools \ {t} : helpers'[u] = helpers[u]
    BY <1>3 DEF SpawnHelper, TypeOK
  <2>2. JoinHandles[t] > 0 /\ JoinHandles'[t] = JoinHandles[t] + 1 /\ JoinWaiter' = JoinWaiter
    BY <1>2, <1>3, <2>1 DEF SpawnHelper, JoinHandles, JoinWaiter, Running
  <2>3. Joins!Clone(t)
    BY <2>1, <2>2, OneJoiner, JoinSteps
  <2> QED
    BY <2>3 DEF Joins!Next
<1>4. CASE HelperExits(t)
  <2>1. stage' = stage /\ helpers'[t] = helpers[t] - 1
        /\ \A u \in Tools \ {t} : helpers'[u] = helpers[u]
    BY <1>4 DEF HelperExits, TypeOK
  <2>2. JoinHandles[t] > 0 /\ JoinHandles'[t] = JoinHandles[t] - 1 /\ JoinWaiter' = JoinWaiter
    BY <1>2, <1>4, <2>1 DEF HelperExits, JoinHandles, JoinWaiter, Running
  <2> QED
    BY <2>1, <2>2, OneJoiner, JoinSteps
<1>5. CASE RunReturnsOk(t) \/ RunFails(t)
  <2>1. stage[t] = "running" /\ stage'[t] \in {"ok", "err"} /\ helpers' = helpers
        /\ \A u \in Tools \ {t} : stage'[u] = stage[u]
    BY <1>5 DEF RunReturnsOk, RunFails, Running, TypeOK
  <2>2. /\ JoinHandles[t] = helpers[t] + 1 /\ JoinHandles'[t] = helpers[t]
        /\ JoinWaiter[t] = "holding" /\ JoinWaiter'[t] = "waiting"
    BY <1>2, <2>1 DEF JoinHandles, JoinWaiter, Running
  <2>3. JoinHandles[t] > 0 /\ JoinHandles'[t] = JoinHandles[t] - 1
    BY <1>2, <2>2
  <2>4. Joins!Wait(t)
    BY <2>1, <2>2, <2>3, OneJoiner, JoinSteps
  <2> QED
    BY <2>4 DEF Joins!Next
<1>6. CASE Ends(t)
  <2>1. /\ stage[t] \in {"ok", "err"} /\ stage'[t] \in {"sent_ok", "sent_err", "dropped"}
        /\ helpers[t] = 0 /\ helpers' = helpers
        /\ \A u \in Tools \ {t} : stage'[u] = stage[u]
    BY <1>6 DEF Ends, Signal, SignalDetached, Joined, TypeOK
  <2>2. /\ JoinHandles[t] = 0 /\ JoinHandles'[t] = 0
        /\ JoinWaiter[t] = "waiting" /\ JoinWaiter'[t] = "through"
    BY <2>1 DEF JoinHandles, JoinWaiter, Running
  <2>3. JoinHandles' = [JoinHandles EXCEPT ![t] = JoinHandles[t]]
        /\ JoinWaiter' = [JoinWaiter EXCEPT ![t] = "through"]
    BY <2>1, <2>2, OneJoiner
  <2>4. Joins!Pass(t)
    BY <2>2, <2>3, Unchanged, JoinSteps
  <2> QED
    BY <2>4 DEF Joins!Next
<1> QED
  BY <1>1, <1>3, <1>4, <1>5, <1>6 DEF Thread, ReplaceEdit

(* No thread signals before the last handle of its run is gone, or twice. *)
THEOREM BarrierRefined == Spec => ImplementsBarrier
<1>1. Init => Joins!Init
  BY DEF Init, Joins!Init, Running
<1>2. IInv /\ IInv' /\ [Next]_vars => [Joins!Next]_(Joins!vars)
  <2> SUFFICES ASSUME IInv, IInv', [Next]_vars
               PROVE  Joins!Next \/ UNCHANGED <<JoinHandles, JoinWaiter>>
    BY DEF Joins!vars, JoinHandles, JoinWaiter
  <2>1. TypeOK /\ TypeOK'
    BY DEF IInv
  <2>2. CASE UNCHANGED <<helpers, stage>>
    BY <2>2 DEF JoinHandles, JoinWaiter, Running
  <2>3. CASE Main
    BY <2>1, <2>3, MainJoins DEF Joins!Next
  <2> QED
    BY <2>1, <2>2, <2>3, ThreadJoins, CallFacts DEF Next, Done, vars, toolVars
<1> QED
  BY <1>1, <1>2, Inductive, PTL DEF Spec, ImplementsBarrier, Joins!Safety
=============================================================================
