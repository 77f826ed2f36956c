---------------------------- MODULE Diagnostics ----------------------------
(***************************************************************************)
(* The diagnostics of one transpile (translate/src/diagnostics), from the  *)
(* emptying of its directories (main.rs, Collector::initialize) to the end *)
(* of the Collector: Reporters on any threads share one Mutex<Shared>,     *)
(* number the tools' runs and make their directories; the Collector waits  *)
(* for all Reporters, a ToolJoiner for all ToolReporters and ThreadGuards  *)
(* of its run.  Both wait for a message that the drop of the last handle   *)
(* sends.  A poisoned mutex is recovered by whoever locks it next.         *)
(***************************************************************************)
EXTENDS EmptyDir, FiniteSets

CONSTANTS
    Reporters,  \* handles on Shared, each with the thread that uses it
    MaxRuns,    \* per tool name, how often it is run
    MaxHandles  \* bound on the handles of a run

ASSUME DiagnosticsAssumption ==
    /\ {"output", "diagnostics"} \subseteq Dirs
    /\ IsFiniteSet(Reporters)
    /\ MaxRuns \in [DOMAIN MaxRuns -> Nat]
    /\ MaxHandles \in Nat

VARIABLES
    main,       \* "output", "diagnostics", "layout", "made", "failed"
    temp,       \* no diagnostics_dir is configured
    at,         \* where a Reporter is: "gone", "idle", or in a locked call
    starting,   \* the run it is starting
    counts,     \* Shared.tool_run_counts
    steps,      \* the directories below steps
    handles,    \* Arc::strong_count of Shared and of each RunShared
    waiter,     \* the Collector and each ToolJoiner, see Barrier
    signals     \* receivers with a message

diagnosticsVars == <<emptyDirVars, main, temp, at, starting, counts, steps, handles,
                     waiter, signals>>

Shared == <<"", 0>>
RunIds == UNION {{tool} \X (1 .. MaxRuns[tool]) : tool \in DOMAIN MaxRuns}
Barriers == RunIds \cup {Shared}
Layout == {"ir", "steps", "messages"}
Locked == {"report", "run_dir", "run_messages"}

BadFree == TRUE         \* the lock is let go before the files are made

Free == \A r \in Reporters : at[r] \notin Locked

DiagnosticsTypeOK ==
    /\ EmptyDirTypeOK
    /\ main \in {"output", "diagnostics", "layout", "made", "failed"}
    /\ at \in [Reporters -> {"gone", "idle"} \cup Locked]
    /\ starting \in [Reporters -> Barriers]
    /\ \A tool \in DOMAIN MaxRuns : counts[tool] \in 0 .. MaxRuns[tool]
    /\ steps \subseteq RunIds
    /\ signals \subseteq Barriers
    /\ Cardinality({r \in Reporters : at[r] \in Locked}) <= 1
    /\ handles[Shared] = Cardinality({r \in Reporters : at[r] # "gone"})
                         + IF waiter[Shared] = "holding" THEN 1 ELSE 0

(* The binary empties its output directory first; the benchmark driver does
   not, and starts with main = "diagnostics". *)
DiagnosticsInit ==
    /\ EmptyDirInit
    /\ main = "output"
    /\ temp \in BOOLEAN
    /\ temp => place["diagnostics"] = "nothing"
    /\ at = [r \in Reporters |-> "gone"]
    /\ starting = [r \in Reporters |-> Shared]
    /\ counts = [tool \in DOMAIN MaxRuns |-> 0]
    /\ steps = {}
    /\ handles = [b \in Barriers |-> 0]
    /\ waiter = [b \in Barriers |-> "away"]
    /\ signals = {}

reporterVars == <<at, starting, counts, steps>>
barrierVars == <<handles, waiter, signals>>
----------------------------------------------------------------------------
(* The main thread before there is a Collector *)

EmptyOutput ==
    /\ main = "output"
    /\ EmptyWritableDir("output")
    /\ UNCHANGED <<main, temp, reporterVars, barrierVars>>

EmptyDiagnostics ==
    /\ main = "diagnostics" /\ ~temp
    /\ EmptyWritableDir("diagnostics")
    /\ UNCHANGED <<main, temp, reporterVars, barrierVars>>

Goes(next) ==
    /\ main' = next
    /\ UNCHANGED <<force, place, readonly, unread, verdict, temp, reporterVars>>

Emptied ==
    /\ \/ main = "output" /\ verdict["output"] = "Ok" /\ Goes("diagnostics")
       \/ main = "diagnostics" /\ verdict["diagnostics"] = "Ok" /\ Goes("layout")
       \/ main = "diagnostics" /\ temp /\ Goes("layout")    \* tempdir()
    /\ UNCHANGED <<entries, barrierVars>>

Broke(d) == verdict[d] \in {"NonEmpty", "NotWritable", "IoError"}

(* The output's error is a panic, the other one is returned. *)
NotEmptied ==
    /\ \/ main = "output" /\ Broke("output")
       \/ main = "diagnostics" /\ (Broke("diagnostics") \/ temp)
    /\ Goes("failed")
    /\ UNCHANGED <<entries, barrierVars>>

Put(names) == entries' = [entries EXCEPT !["diagnostics"] = @ \cup names]

(* What is made in a temporary directory, and goes with it, is left out. *)
MakeLayout ==
    /\ main = "layout"
    /\ entries["diagnostics"] \cap Layout = {}
    /\ Put(IF temp THEN {} ELSE Layout)
    /\ Goes("made")
    /\ handles' = [handles EXCEPT ![Shared] = 1]
    /\ waiter' = [waiter EXCEPT ![Shared] = "holding"]
    /\ UNCHANGED signals

(* An entry cannot be made, or log_filter cannot be parsed. *)
LayoutFails ==
    /\ main = "layout"
    /\ \E made \in {{}, {"ir"}, {"ir", "steps"}, Layout} :
        Put(IF temp THEN {} ELSE made)
    /\ Goes("failed")
    /\ UNCHANGED barrierVars
----------------------------------------------------------------------------
(* Handles and barriers *)

BadLast(b) == handles[b] <= 2       \* as if the waiting party still had a handle

Last(b) == handles[b] = 1

(* drop of an Arc: the last one drops the value, whose drop sends unless the
   receiver is gone. *)
Release(b) ==
    /\ handles' = [handles EXCEPT ![b] = @ - 1]
    /\ signals' = signals \cup IF Last(b) /\ waiter[b] # "left" THEN {b} ELSE {}

Mains == UNCHANGED <<emptyDirVars, main, temp>>

(* Collector::reporter and Reporter::clone *)
NewReporter(r) ==
    /\ waiter[Shared] = "holding" \/ \E s \in Reporters : at[s] = "idle"
    /\ at[r] = "gone"
    /\ at' = [at EXCEPT ![r] = "idle"]
    /\ handles' = [handles EXCEPT ![Shared] = @ + 1]
    /\ Mains /\ UNCHANGED <<starting, counts, steps, waiter, signals>>

DropReporter(r) ==
    /\ at[r] = "idle"
    /\ at' = [at EXCEPT ![r] = "gone"]
    /\ Release(Shared)
    /\ Mains /\ UNCHANGED <<starting, counts, steps, waiter>>

(* A ToolReporter is cloned, or sets up a thread's logger. *)
NewRunHandle(b) ==
    /\ handles[b] \in 1 .. MaxHandles - 1
    /\ handles' = [handles EXCEPT ![b] = @ + 1]
    /\ Mains /\ UNCHANGED <<reporterVars, waiter, signals>>

DropRunHandle(b) ==
    /\ handles[b] > 0
    /\ Release(b)
    /\ Mains /\ UNCHANGED <<reporterVars, waiter>>

(* Collector::diagnostics, ToolJoiner::join: the party's own handle goes. *)
Wait(b) ==
    /\ waiter[b] = "holding" /\ handles[b] > 0
    /\ waiter' = [waiter EXCEPT ![b] = "waiting"]
    /\ Release(b)
    /\ Mains /\ UNCHANGED reporterVars

(* recv; the Collector then takes its temporary directory with it. *)
Received(b) ==
    /\ waiter[b] = "waiting" /\ b \in signals
    /\ waiter' = [waiter EXCEPT ![b] = "through"]
    /\ signals' = signals \ {b}
    /\ Mains /\ UNCHANGED <<reporterVars, handles>>

(* transpile returns an error: the receiver goes first, then the handle, then
   the temporary directory. *)
DropCollector ==
    /\ waiter[Shared] = "holding"
    /\ waiter' = [waiter EXCEPT ![Shared] = "left"]
    /\ handles' = [handles EXCEPT ![Shared] = @ - 1]
    /\ Mains /\ UNCHANGED <<reporterVars, signals>>

DropJoiner(b) ==
    /\ waiter[b] = "holding"
    /\ waiter' = [waiter EXCEPT ![b] = "left"]
    /\ signals' = signals \ {b}
    /\ Mains /\ UNCHANGED <<reporterVars, handles>>
----------------------------------------------------------------------------
(* Reporter *)

DirIsThere == temp => waiter[Shared] \in {"holding", "waiting"}

(* report_ir_version: its errors are logged; materialize may panic, and the
   unwinding thread drops its handle. *)
StartReport(r) ==
    /\ at[r] = "idle" /\ Free
    /\ at' = [at EXCEPT ![r] = "report"]
    /\ Mains /\ UNCHANGED <<starting, counts, steps, barrierVars>>

EndReport(r) ==
    /\ at[r] = "report"
    /\ at' = [at EXCEPT ![r] = "idle"]
    /\ Mains /\ UNCHANGED <<starting, counts, steps, barrierVars>>

ReportPanics(r) ==
    /\ at[r] = "report"
    /\ at' = [at EXCEPT ![r] = "gone"]
    /\ Release(Shared)
    /\ Mains /\ UNCHANGED <<starting, counts, steps, waiter>>

BadNumber(tool) ==      \* the runs that came up are counted
    1 + Cardinality({b \in RunIds : b[1] = tool /\ waiter[b] # "away"})

Number(tool) == counts[tool] + 1

(* start_tool_run, ToolReporter::new: the count goes up before anything can
   fail, and the lock is held until the files are there.  The clone of the Arc
   that the call is given lives and dies within it, next to the reporter's. *)
StartToolRun(r, tool) ==
    /\ at[r] = "idle" /\ Free
    /\ Number(tool) <= MaxRuns[tool]
    /\ counts' = [counts EXCEPT ![tool] = Number(tool)]
    /\ starting' = [starting EXCEPT ![r] = <<tool, Number(tool)>>]
    /\ at' = [at EXCEPT ![r] = "run_dir"]
    /\ Mains /\ UNCHANGED <<steps, barrierVars>>

CreateRunDir(r) ==
    /\ at[r] = "run_dir"
    /\ DirIsThere /\ starting[r] \notin steps
    /\ steps' = steps \cup {starting[r]}
    /\ at' = [at EXCEPT ![r] = "run_messages"]
    /\ Mains /\ UNCHANGED <<starting, counts, barrierVars>>

CreateMessages(r) ==
    /\ at[r] = "run_messages"
    /\ DirIsThere
    /\ handles' = [handles EXCEPT ![starting[r]] = 1]
    /\ waiter' = [waiter EXCEPT ![starting[r]] = "holding"]
    /\ starting' = [starting EXCEPT ![r] = Shared]
    /\ at' = [at EXCEPT ![r] = "idle"]
    /\ Mains /\ UNCHANGED <<counts, steps, signals>>

(* Either one fails: a run directory that was made stays. *)
StartToolRunFails(r) ==
    /\ at[r] \in {"run_dir", "run_messages"}
    /\ starting' = [starting EXCEPT ![r] = Shared]
    /\ at' = [at EXCEPT ![r] = "idle"]
    /\ Mains /\ UNCHANGED <<counts, steps, barrierVars>>

Reporter(r) ==
    \/ NewReporter(r)
    \/ DropReporter(r)
    \/ StartReport(r)
    \/ EndReport(r)
    \/ ReportPanics(r)
    \/ \E tool \in DOMAIN MaxRuns : StartToolRun(r, tool)
    \/ CreateRunDir(r)
    \/ CreateMessages(r)
    \/ StartToolRunFails(r)

(* Nobody has a handle, and no thread waits. *)
Over ==
    /\ main = "failed" \/ waiter[Shared] \in {"through", "left"}
    /\ \A b \in Barriers : handles[b] = 0 /\ waiter[b] \notin {"holding", "waiting"}
    /\ UNCHANGED diagnosticsVars

DiagnosticsNext ==
    \/ EmptyOutput
    \/ EmptyDiagnostics
    \/ Emptied
    \/ NotEmptied
    \/ MakeLayout
    \/ LayoutFails
    \/ DropCollector
    \/ \E b \in Barriers : Wait(b) \/ Received(b)
    \/ \E b \in RunIds : NewRunHandle(b) \/ DropRunHandle(b) \/ DropJoiner(b)
    \/ \E r \in Reporters : Reporter(r)
    \/ Over

(* A receiver with a message returns from recv.  Nobody has to drop anything. *)
DiagnosticsSpec ==
    /\ DiagnosticsInit
    /\ [][DiagnosticsNext]_diagnosticsVars
    /\ \A b \in Barriers : WF_diagnosticsVars(Received(b))
----------------------------------------------------------------------------
(* What diagnostics and join promise: they return once, and not before, all
   other handles are gone ("Waits until all reporters have been dropped",
   mod.rs:122; "for this tool run", tool_reporter.rs:159). *)
AllBarriers == INSTANCE Barrier
ImplementsBarriers == AllBarriers!Spec

(* The directory of a run that starts is not there yet, even after runs of
   the tool that failed to start half way, and the directory it goes into
   still is, unless transpile has dropped the Collector with an error. *)
NothingInTheWay ==
    \A r \in Reporters :
        at[r] \in {"run_dir", "run_messages"} =>
            /\ at[r] = "run_dir" => starting[r] \notin steps
            /\ DirIsThere \/ waiter[Shared] = "left"

(* The binary starts transpile in directories that hold nothing from an
   earlier run, and the Collector in one that it has just laid out.  (The
   benchmark driver does not empty the output directory: see Pipeline.) *)
StartsFromNothing ==
    main \in {"layout", "made"} =>
        /\ entries["output"] = {}
        /\ ~temp => entries["diagnostics"] = IF main = "made" THEN Layout ELSE {}
=============================================================================
