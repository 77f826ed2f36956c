----------------------------- MODULE Transpile -----------------------------
(***************************************************************************)
(* One call of transpile (translate/src/lib.rs): the main loop with its    *)
(* scheduler, its tool runner and its edit organizer, and one thread per   *)
(* running tool.  The main thread takes a snapshot of the IR, offers every *)
(* queued tool a run, and then waits for at least one thread to signal     *)
(* completion; the tools' threads fill in their edits, fail, panic, spawn  *)
(* helper threads of their own, and signal, all concurrently with it.      *)
(*                                                                         *)
(* What a tool does is not fixed here: might_write answers anything, run   *)
(* makes any sequence of calls on its edit, and as it has the edit by      *)
(* `&mut Edit` (tools/mod.rs:101) it may put another one in its place: one *)
(* that the code of a tool took out of another run, or one of an organizer *)
(* of its own.  An edit that was taken out is kept wherever tools keep     *)
(* things (another thread, a static, the tool), filled in or dropped there *)
(* at any time, and may outlive its run and transpile.                     *)
(***************************************************************************)
EXTENDS HarvestIR, Sequences

CONSTANTS
    NTools,         \* how many tools transpile queues
    MaxHelpers,     \* bound: threads a tool keeps alive at a time
    Replacers,      \* bound: the tools whose runs may replace their edit
    Foreign         \* an edit of an organizer that is not transpile's

ASSUME TranspileAssumption ==
    /\ NTools \in Nat
    /\ MaxHelpers \in Nat
    /\ Replacers \subseteq 1 .. NTools
    /\ None \notin 1 .. NTools /\ Foreign \notin 1 .. NTools /\ Foreign # None
    /\ None # "organizer"       \* the name Org gives the one organizer

Tools == 1 .. NTools        \* in the order in which they are queued

VARIABLES
    \* Main thread
    pc,             \* where it is in the loop
    snapshot,       \* the loop's local variable
    queue,          \* Scheduler.queued_invocations
    trying,         \* next_invocations: what is left of the replaced queue
    invocations,    \* ToolRunner.invocations (a tool runs once: its thread's id)
    channel,        \* completion signals on their way to the receiver
    ir_version,     \* ToolRunner.ir_version
    said,           \* history: why this pass put a tool back into the queue
    \* Organizer and Shared
    ir, in_use, next_id,
    \* Tools and their threads
    stage,          \* how far the invocation of a tool has come
    helpers,        \* ThreadGuards and ToolReporters beyond the tool's thread
    \* Edits; one is made for a tool at most, and has its name
    edit,           \* the thread's variable `edit`, None before and after
    kept,           \* the edits that tools took out of a run and still have
    snap,           \* the ir_snapshot the run it was made for was given
    writable,       \* its keys
    written         \* its Some entries

mainVars == <<pc, snapshot, queue, trying, invocations, channel, ir_version, said>>
irVars == <<ir, in_use, next_id>>
editVars == <<edit, kept, snap, writable, written>>
toolVars == <<stage, helpers, editVars>>
vars == <<mainVars, irVars, toolVars>>

PCs == {"snapshot", "schedule", "starting", "spawned", "process", "drain",
        "exit", "returned", "unwinding", "failed"}

(* queued: not started.  running: Tool::run is executing.  ok, err: it has
   returned, the thread waits in ToolJoiner::join.  sent_ok, sent_err: the
   thread has signalled.  applied, dropped: its result was processed.
   skipped: the scheduler gave the tool up without running it. *)
Stages == {"queued", "running", "ok", "err", "sent_ok", "sent_err",
           "applied", "dropped", "skipped"}

Elements(s) == {s[k] : k \in DOMAIN s}

TypeOK ==
    /\ pc \in PCs
    /\ snapshot \in IRs
    /\ queue \in Seq(Tools) /\ trying \in Seq(Tools)
    /\ invocations \subseteq Tools
    /\ channel \in Seq(Tools)
    /\ ir_version \in 0 .. NTools
    /\ said \in [Tools -> {"nothing", "TryAgain", "IdInUse", "Kept"}]
    /\ ir \in IRs
    /\ in_use \subseteq Ids
    /\ next_id \in 1 .. MaxId + 1
    /\ stage \in [Tools -> Stages]
    /\ helpers \in [Tools -> 0 .. MaxHelpers]
    /\ edit \in [Tools -> Tools \cup {None, Foreign}]
    /\ kept \subseteq Tools
    /\ snap \in [Tools -> IRs]
    /\ writable \in [Tools -> SUBSET Ids]
    /\ written \in [Tools -> IRs]

(* Organizer::default(), ToolRunner::new, and the queue_invocation calls. *)
Init ==
    /\ pc = "snapshot"
    /\ snapshot = Empty
    /\ queue = [k \in Tools |-> k]
    /\ trying = <<>>
    /\ invocations = {}
    /\ channel = <<>>
    /\ ir_version = 0
    /\ said = [t \in Tools |-> "nothing"]
    /\ ir = Empty
    /\ in_use = {}
    /\ next_id = 1
    /\ stage = [t \in Tools |-> "queued"]
    /\ helpers = [t \in Tools |-> 0]
    /\ edit = [t \in Tools |-> None]
    /\ kept = {}
    /\ snap = [t \in Tools |-> Empty]
    /\ writable = [t \in Tools |-> {}]
    /\ written = [t \in Tools |-> Empty]
----------------------------------------------------------------------------
(* Main thread: scheduling *)

TakeSnapshot ==
    /\ pc = "snapshot"
    /\ snapshot' = ir
    /\ trying' = queue
    /\ queue' = <<>>
    /\ said' = [t \in Tools |-> "nothing"]
    /\ pc' = "schedule"
    /\ UNCHANGED <<invocations, channel, ir_version, irVars, toolVars>>

(* The tool that next_invocations has handed to its closure. *)
Current == Head(trying)

Offering == pc = "schedule" /\ trying # <<>>

BadRequeued == <<Current>> \o queue

(* queued_invocations.push *)
Requeued == Append(queue, Current)

(* NextInvocationOutcome::TryLater *)
TryLater(reason) ==
    /\ queue' = Requeued
    /\ trying' = Tail(trying)
    /\ said' = [said EXCEPT ![Current] = reason]
    /\ UNCHANGED <<pc, snapshot, invocations, channel, ir_version, irVars, toolVars>>

(* NextInvocationOutcome::DontTryAgain for a tool that does not run. *)
GiveUp ==
    /\ trying' = Tail(trying)
    /\ stage' = [stage EXCEPT ![Current] = "skipped"]
    /\ UNCHANGED <<pc, snapshot, queue, invocations, channel, ir_version, said,
                   irVars, helpers, editVars>>

(* MightWriteOutcome::NotRunnable and ::TryAgain *)
NotRunnable == Offering /\ GiveUp
TryAgain == Offering /\ TryLater("TryAgain")

(* The ids a tool may name: ids that were allocated. *)
Requests == SUBSET (1 .. next_id - 1)

(* MightWriteOutcome::Runnable(mightWrite), and what new_edit makes of it. *)
RunnableUnknownId(mightWrite) ==
    /\ Offering
    /\ NewEditOutcome(ir, in_use, mightWrite) = "UnknownId"
    /\ GiveUp

IsKept(i) == \E e \in kept : i \in writable[e]

(* Whether nothing but kept edits, which no step of the main thread touches, is
   in the way. *)
WhyInUse(mightWrite) ==
    IF \A i \in mightWrite \cap in_use : IsKept(i) THEN "Kept" ELSE "IdInUse"

RunnableIdInUse(mightWrite) ==
    /\ Offering
    /\ NewEditOutcome(ir, in_use, mightWrite) = "IdInUse"
    /\ TryLater(WhyInUse(mightWrite))

RunnableNewEdit(mightWrite) ==
    /\ Offering
    /\ NewEditOutcome(ir, in_use, mightWrite) = "Ok"
    /\ in_use' = in_use \cup mightWrite
    /\ edit' = [edit EXCEPT ![Current] = Current]
    /\ writable' = [writable EXCEPT ![Current] = mightWrite]
    /\ snap' = [snap EXCEPT ![Current] = snapshot]
    /\ pc' = "starting"
    /\ UNCHANGED <<snapshot, queue, trying, invocations, channel, ir_version, said,
                   ir, next_id, stage, helpers, kept, written>>

(* start_tool_run succeeds and the thread is spawned: it runs from here on. *)
StartRun ==
    /\ pc = "starting"
    /\ stage' = [stage EXCEPT ![Current] = "running"]
    /\ pc' = "spawned"
    /\ UNCHANGED <<snapshot, queue, trying, invocations, channel, ir_version, said,
                   irVars, helpers, editVars>>

BadRecorded ==          \* a thread that is already done is not recorded
    IF stage[Current] = "running" THEN invocations \cup {Current} ELSE invocations

Recorded == invocations \cup {Current}

(* Only now does the runner learn the thread's id. *)
RecordInvocation ==
    /\ pc = "spawned"
    /\ invocations' = Recorded
    /\ trying' = Tail(trying)
    /\ pc' = "schedule"
    /\ UNCHANGED <<snapshot, queue, channel, ir_version, said, irVars, toolVars>>

BadReleased(e) == Contents(written[e])      \* ids that were not written stay in use

(* Drop for Edit: the ids that leave the in_use table. *)
Released(e) == writable[e]

(* The edit e is dropped, on whichever thread. *)
DropEdit(e) ==
    /\ in_use' = in_use \ Released(e)
    /\ writable' = [writable EXCEPT ![e] = {}]
    /\ written' = [written EXCEPT ![e] = Empty]
    /\ snap' = [snap EXCEPT ![e] = Empty]

(* What is in the variable of t's thread is dropped; an edit of a foreign
   organizer leaves no trace in this one. *)
DropHeld(t) ==
    /\ IF edit[t] \in Tools THEN DropEdit(edit[t])
                            ELSE UNCHANGED <<in_use, snap, writable, written>>
    /\ edit' = [edit EXCEPT ![t] = None]
    /\ UNCHANGED kept

(* start_tool_run fails: the edit is dropped, next_invocations returns the
   error at once and loses its queue, transpile's locals start to unwind. *)
StartRunFails ==
    /\ pc = "starting"
    /\ DropHeld(Current)
    /\ stage' = [stage EXCEPT ![Current] = "skipped"]
    /\ trying' = <<>>
    /\ queue' = <<>>
    /\ pc' = "unwinding"
    /\ UNCHANGED <<snapshot, invocations, channel, ir_version, said, ir, next_id, helpers>>

ScheduleDone ==
    /\ pc = "schedule"
    /\ trying = <<>>
    /\ pc' = "process"
    /\ UNCHANGED <<snapshot, queue, trying, invocations, channel, ir_version, said,
                   irVars, toolVars>>
----------------------------------------------------------------------------
(* Main thread: process_tool_results *)

BadNothingRuns == channel = <<>>

NothingRuns == invocations = {}

BadNoTools ==           \* the loop goes on as long as tools are queued
    /\ pc = "process"
    /\ NothingRuns
    /\ pc' = IF queue = <<>> THEN "exit" ELSE "snapshot"
    /\ UNCHANGED <<snapshot, queue, trying, invocations, channel, ir_version, said,
                   irVars, toolVars>>

(* It returns false: the loop ends, scheduler and runner are dropped. *)
NoTools ==
    /\ pc = "process"
    /\ NothingRuns
    /\ pc' = "exit"
    /\ UNCHANGED <<snapshot, queue, trying, invocations, channel, ir_version, said,
                   irVars, toolVars>>

Signalled == Head(channel)

BadApplied(e) == Overlay(snapshot, written[e])

(* Organizer::apply_edit of one of the organizer's own edits. *)
Applied(e) == Overlay(ir, written[e])

(* One round of the for loop: join the thread, apply the edit it returns if
   the run was successful.  recv blocks for the first signal, try_iter takes
   the rest. *)
ProcessOk ==
    /\ pc = "drain" \/ (pc = "process" /\ ~NothingRuns)
    /\ channel # <<>>
    /\ stage[Signalled] = "sent_ok"
    /\ edit[Signalled] # Foreign
    /\ ir' = Applied(edit[Signalled])
    /\ DropHeld(Signalled)
    /\ stage' = [stage EXCEPT ![Signalled] = "applied"]
    /\ ir_version' = ir_version + 1
    /\ invocations' = invocations \ {Signalled}
    /\ channel' = Tail(channel)
    /\ pc' = "drain"
    /\ UNCHANGED <<snapshot, queue, trying, said, next_id, helpers>>

(* ApplyEditError::WrongOrganizer is logged, and the edit is gone. *)
ProcessWrongOrganizer ==
    /\ pc = "drain" \/ (pc = "process" /\ ~NothingRuns)
    /\ channel # <<>>
    /\ stage[Signalled] = "sent_ok"
    /\ edit[Signalled] = Foreign
    /\ DropHeld(Signalled)
    /\ stage' = [stage EXCEPT ![Signalled] = "dropped"]
    /\ invocations' = invocations \ {Signalled}
    /\ channel' = Tail(channel)
    /\ pc' = "drain"
    /\ UNCHANGED <<snapshot, queue, trying, ir_version, said, ir, next_id, helpers>>

ProcessErr ==
    /\ pc = "drain" \/ (pc = "process" /\ ~NothingRuns)
    /\ channel # <<>>
    /\ stage[Signalled] = "sent_err"
    /\ stage' = [stage EXCEPT ![Signalled] = "dropped"]
    /\ invocations' = invocations \ {Signalled}
    /\ channel' = Tail(channel)
    /\ pc' = "drain"
    /\ UNCHANGED <<snapshot, queue, trying, ir_version, said, irVars, helpers, editVars>>

(* try_iter is empty: process_tool_results returns true. *)
DrainDone ==
    /\ pc = "drain"
    /\ channel = <<>>
    /\ pc' = "snapshot"
    /\ UNCHANGED <<snapshot, queue, trying, invocations, channel, ir_version, said,
                   irVars, toolVars>>
----------------------------------------------------------------------------
(* Main thread: leaving transpile *)

(* drop(scheduler), drop(runner), collector.diagnostics(), Ok(snapshot). *)
Return ==
    /\ pc = "exit"
    /\ queue' = <<>>
    /\ snapshot' = ir
    /\ pc' = "returned"
    /\ UNCHANGED <<trying, invocations, channel, ir_version, said, irVars, toolVars>>

(* The runner is dropped on the error path: a JoinHandle detaches its thread,
   and the result of a thread that has already finished is dropped. *)
DetachFinished(t) ==
    /\ pc = "unwinding"
    /\ t \in invocations
    /\ stage[t] \in {"sent_ok", "sent_err"}
    /\ invocations' = invocations \ {t}
    /\ DropHeld(t)
    /\ stage' = [stage EXCEPT ![t] = "dropped"]
    /\ UNCHANGED <<pc, snapshot, queue, trying, channel, ir_version, said,
                   ir, next_id, helpers>>

DetachRunning(t) ==
    /\ pc = "unwinding"
    /\ t \in invocations
    /\ stage[t] \in {"running", "ok", "err"}
    /\ invocations' = invocations \ {t}
    /\ UNCHANGED <<pc, snapshot, queue, trying, channel, ir_version, said,
                   irVars, toolVars>>

(* The receiver is dropped and transpile returns the error. *)
Fail ==
    /\ pc = "unwinding"
    /\ invocations = {}
    /\ channel' = <<>>
    /\ pc' = "failed"
    /\ UNCHANGED <<snapshot, queue, trying, invocations, ir_version, said,
                   irVars, toolVars>>

Unwind == (\E t \in Tools : DetachFinished(t) \/ DetachRunning(t)) \/ Fail

Main ==
    \/ TakeSnapshot
    \/ NotRunnable
    \/ TryAgain
    \/ \E S \in Requests :
        \/ RunnableUnknownId(S)
        \/ RunnableIdInUse(S)
        \/ RunnableNewEdit(S)
    \/ StartRun
    \/ StartRunFails
    \/ RecordInvocation
    \/ ScheduleDone
    \/ NoTools
    \/ ProcessOk
    \/ ProcessWrongOrganizer
    \/ ProcessErr
    \/ DrainDone
    \/ Return
    \/ Unwind
----------------------------------------------------------------------------
(* Threads of the tools *)

Running(t) == stage[t] = "running"

BadFresh == next_id - 1         \* the counter's old value

(* Id::new *)
Fresh == next_id

(* An edit that the code of a tool has its hands on, on whichever thread. *)
InHand(e) == e \in kept \/ \E t \in Tools : Running(t) /\ edit[t] = e

(* Edit::add_representation, Edit::new_id, Edit::write_id *)
AddRepresentation(e, r) ==
    /\ InHand(e)
    /\ next_id <= MaxId
    /\ writable' = [writable EXCEPT ![e] = @ \cup {Fresh}]
    /\ written' = [written EXCEPT ![e][Fresh] = r]
    /\ next_id' = next_id + 1
    /\ UNCHANGED <<mainVars, ir, in_use, stage, helpers, edit, kept, snap>>

NewId(e) ==
    /\ InHand(e)
    /\ next_id <= MaxId
    /\ writable' = [writable EXCEPT ![e] = @ \cup {Fresh}]
    /\ next_id' = next_id + 1
    /\ UNCHANGED <<mainVars, ir, in_use, stage, helpers, edit, kept, snap, written>>

WriteId(e, i, r) ==
    /\ InHand(e)
    /\ i \in writable[e]
    /\ written' = [written EXCEPT ![e][i] = r]
    /\ UNCHANGED <<mainVars, irVars, stage, helpers, edit, kept, snap, writable>>

(* A kept edit is dropped. *)
DropKept(e) ==
    /\ e \in kept
    /\ DropEdit(e)
    /\ kept' = kept \ {e}
    /\ UNCHANGED <<mainVars, ir, next_id, stage, helpers, edit>>

(* mem::replace(c.ir_edit, e); `*c.ir_edit = e` is this, then DropKept. *)
ReplaceEdit(t, e) ==
    /\ Running(t)
    /\ t \in Replacers
    /\ e \in kept \cup {Foreign}
    /\ kept' = (kept \ {e}) \cup ({edit[t]} \ {Foreign})
    /\ edit' = [edit EXCEPT ![t] = e]
    /\ UNCHANGED <<mainVars, irVars, stage, helpers, snap, writable, written>>

(* A ToolReporter is cloned, or a thread sets up its logger with it: by the
   run, or by a helper that may outlive the run. *)
SpawnHelper(t) ==
    /\ Running(t) \/ helpers[t] > 0
    /\ helpers[t] < MaxHelpers
    /\ helpers' = [helpers EXCEPT ![t] = @ + 1]
    /\ UNCHANGED <<mainVars, irVars, stage, editVars>>

HelperExits(t) ==
    /\ helpers[t] > 0
    /\ helpers' = [helpers EXCEPT ![t] = @ - 1]
    /\ UNCHANGED <<mainVars, irVars, stage, editVars>>

(* Tool::run returns Ok: catch_unwind hands the edit back. *)
RunReturnsOk(t) ==
    /\ Running(t)
    /\ stage' = [stage EXCEPT ![t] = "ok"]
    /\ UNCHANGED <<mainVars, irVars, helpers, editVars>>

(* Tool::run returns Err or panics: the edit is dropped on this thread. *)
RunFails(t) ==
    /\ Running(t)
    /\ stage' = [stage EXCEPT ![t] = "err"]
    /\ DropHeld(t)
    /\ UNCHANGED <<mainVars, ir, next_id, helpers>>

BadJoined(t) == TRUE

(* ToolJoiner::join: every handle on the run's RunShared is gone. *)
Joined(t) == helpers[t] = 0

(* The runner still has, or is about to store, the thread's JoinHandle. *)
Attached(t) == t \in invocations \/ (pc = "spawned" /\ t = Current)

(* sender.send(thread::current().id()), ignored when the receiver is gone. *)
Sent(t) == IF pc = "failed" THEN channel ELSE Append(channel, t)

(* The thread joins the run's helpers, signals, and ends with its result. *)
Signal(t) ==
    /\ stage[t] \in {"ok", "err"}
    /\ Joined(t)
    /\ Attached(t)
    /\ channel' = Sent(t)
    /\ stage' = [stage EXCEPT ![t] = IF @ = "ok" THEN "sent_ok" ELSE "sent_err"]
    /\ UNCHANGED <<pc, snapshot, queue, trying, invocations, ir_version, said,
                   irVars, helpers, editVars>>

(* The same for a detached thread: nobody takes the result, so it is dropped. *)
SignalDetached(t) ==
    /\ stage[t] \in {"ok", "err"}
    /\ Joined(t)
    /\ ~Attached(t)
    /\ channel' = Sent(t)
    /\ stage' = [stage EXCEPT ![t] = "dropped"]
    /\ DropHeld(t)
    /\ UNCHANGED <<pc, snapshot, queue, trying, invocations, ir_version, said,
                   ir, next_id, helpers>>

Ends(t) == Signal(t) \/ SignalDetached(t)

(* What tools do to an edit they can reach, from wherever they are. *)
EditCall(e) ==
    \/ \E r \in Reprs : AddRepresentation(e, r)
    \/ NewId(e)
    \/ \E i \in Ids, r \in Reprs : WriteId(e, i, r)
    \/ DropKept(e)

Thread(t) ==
    \/ \E e \in Tools \cup {Foreign} : ReplaceEdit(t, e)
    \/ SpawnHelper(t)
    \/ HelperExits(t)
    \/ RunReturnsOk(t)
    \/ RunFails(t)
    \/ Ends(t)

(* transpile has returned and every tool's thread has ended, even if there
   still are kept edits. *)
Done ==
    /\ pc \in {"returned", "failed"}
    /\ \A t \in Tools : stage[t] \notin {"running", "ok", "err"} /\ helpers[t] = 0
    /\ UNCHANGED vars

Next == Main \/ (\E t \in Tools : Thread(t) \/ EditCall(t)) \/ Done

(* The main thread never idles: a step it can take, it takes; it waits only in
   recv, which is disabled without a signal.  A thread whose run has returned
   and whose helpers are gone goes on to signal.  Nothing makes a tool return. *)
Fairness ==
    /\ WF_vars(Main)
    /\ \A t \in Tools : WF_vars(Ends(t))

Spec == Init /\ [][Next]_vars /\ Fairness
----------------------------------------------------------------------------
(* The thread of t has an edit, or its result has one, or the main thread is
   about to start it. *)
HasEdit(t) == edit[t] # None

(* The edit e has not been dropped. *)
Live(e) == e \in kept \/ \E t \in Tools : edit[t] = e

InTranspile == pc \notin {"returned", "unwinding", "failed"}

(* What a run read in the snapshot it was given is still current when the
   edit made for it is applied, wherever that edit has been in between: nobody
   else changes an id it may write from the moment might_write saw it
   (tools/mod.rs:103: run gets the IR of might_write). *)
SnapshotStaysCurrent ==
    \A e \in Tools : Live(e) => \A i \in writable[e] : ir[i] = snap[e][i]

(* The scheduler neither loses a tool, nor runs or keeps one twice, nor lets
   one overtake another, through any number of passes. *)
ToolsAccounted ==
    LET waiting == queue \o trying
        handed_over == IF pc = "spawned" THEN {Current} ELSE {}
    IN  InTranspile =>
            /\ \A j, k \in DOMAIN waiting : j < k => waiting[j] < waiting[k]
            /\ {t \in Tools : stage[t] = "queued"} = Elements(waiting) \ handed_over

(* process_tool_results finds the invocation of every signal it takes
   (expect("missing invocation"), runner.rs:57), even of a thread that was
   done before the runner had recorded it, and finds it once. *)
SignalsMatchInvocations ==
    pc \in {"process", "drain"} =>
        /\ Elements(channel) \subseteq invocations
        /\ \A j, k \in DOMAIN channel : channel[j] = channel[k] => j = k

(* "No tools are running now, which also indicates that no tools are
   schedulable" (lib.rs:82): every tool that is still queued has answered
   TryAgain for the very IR that transpile is about to return; none of them
   is left behind because an id was in use, unless it was so by nothing but
   edits that tools took out of their runs and kept. *)
NothingSchedulable ==
    pc = "exit" =>
        /\ snapshot = ir
        /\ \A t \in Elements(queue) : said[t] \in {"TryAgain", "Kept"}

(* When transpile returns an IR, no tool and no helper of a tool outlives it,
   and no lease on an id but those of edits that tools took out of their runs
   and have not dropped. *)
CleanReturn ==
    pc = "returned" =>
        /\ \A t \in Tools :
            stage[t] \in {"queued", "applied", "dropped", "skipped"} /\ helpers[t] = 0
        /\ \A i \in in_use : IsKept(i)

Org == INSTANCE Organizer WITH
    Organizers <- {"organizer"},
    Edits <- Tools,
    NSeed <- 0,
    ir <- [o \in {"organizer"} |-> ir],
    in_use <- [o \in {"organizer"} |-> in_use],
    owner <- [e \in Tools |-> IF Live(e) THEN "organizer" ELSE None]

(* transpile and its tools use the organizer as Organizer allows: threads,
   main loop, unwinding and whoever keeps an edit make the calls of that
   module, one at a time, so everything that is shown there of edits and
   leases holds here. *)
ImplementsOrganizer == Org!Spec

Joins == INSTANCE Barrier WITH
    Barriers <- Tools,
    handles <- [t \in Tools |-> helpers[t] + IF Running(t) THEN 1 ELSE 0],
    waiter <- [t \in Tools |->
        CASE stage[t] \in {"queued", "skipped"} -> "away"
          [] stage[t] = "running" -> "holding"
          [] stage[t] \in {"ok", "err"} -> "waiting"
          [] OTHER -> "through"]

(* A thread gets to its signal once, and not before, all handles of its run
   are gone ("ToolJoiner::join should not return until all ThreadGuards should
   be dropped", tool_reporter.rs:105), attached or detached, so a result that
   was processed is final: the threads and their joiners go as Barrier says
   and as Diagnostics implements it.  That they do get there is part of
   Terminates. *)
ImplementsBarrier == Joins!Safety

(* Under the assumption that every run returns and every helper ends ... *)
ToolsFinish ==
    \A t \in Tools : []<>(~Running(t) /\ helpers[t] = 0)

(* ... transpile comes to an end: the loop does not spin on tools that put
   themselves off, and the main thread never waits for a signal in vain. *)
Terminates == ToolsFinish => <>(pc \in {"returned", "failed"})

(* ... and the edit that a successful run ends with gets into the IR, its own
   or another run's, unless transpile fails to start another tool; that of a
   foreign organizer is dropped. *)
OkIsApplied ==
    ToolsFinish =>
        \A t \in Tools :
            /\ stage[t] = "ok" /\ edit[t] # Foreign ~> (stage[t] = "applied" \/ pc = "failed")
            /\ stage[t] = "ok" /\ edit[t] = Foreign ~> (stage[t] = "dropped" \/ pc = "failed")

(* "If `Ok` is returned the changes will be applied to the IR"
   (tools/mod.rs:65), without the first of these exceptions: of tools that
   leave their edit in its place. *)
OkIsAlwaysApplied ==
    ToolsFinish => \A t \in Tools : stage[t] = "ok" ~> stage[t] = "applied"
=============================================================================
