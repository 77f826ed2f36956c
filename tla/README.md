# A TLA+ model of harvest_code

harvest_code translates C programs to Rust.  A process of the `translate`
crate runs a handful of *tools*, each in its own thread, over a shared
intermediate representation (the IR, crate `ir`); the `benchmark` crate runs
the translator over many programs and tests the results.  This directory holds
TLA+ modules of the parts of that code that carry its logic, TLC runs that check
them on small instances, and proofs, checked by TLAPS, of what matters most.

## The system

| Part | State | Operations | Interacts with |
|---|---|---|---|
| Id allocator (`ir/src/id.rs`) | one process-wide `AtomicU64` | `Id::new`, `Id::new_array` | called by every thread that adds to an IR or an edit |
| `HarvestIR` (`ir/src/lib.rs`) | map from id to representation | add, contains, get by type, iterate | owned by the organizer, shared as `Arc` snapshots |
| Organizer and edits (`ir/src/edit.rs`) | the current IR; a mutex-protected table of ids in use; per edit its writable ids and pending values | `new_edit`, `apply_edit`, `snapshot`; on an edit `add_representation`, `new_id`, `try_write_id`, drop | the organizer lives on the main thread, edits on tool threads |
| Directory representation (`ir/src/fs.rs`) | a tree of files and directories | populate from disk, get, set, materialize, display (not modelled) | the payload of several representations |
| Scheduler (`translate/src/scheduler.rs`) | queue of tools that have not run | `queue_invocation`, `next_invocations` | calls back into the main loop for each tool |
| Tool runner (`translate/src/runner.rs`) | running invocations, completion channel, IR version | `spawn_tool`, `process_tool_results`, drop | one thread per tool; organizer; diagnostics |
| Main loop (`translate/src/lib.rs`) | the three above and the loop's snapshot | `transpile` | everything |
| Tools (`translate/src/tools/`) | none between runs | `might_write`, `run` | IR snapshot, edit, reporter |
| Diagnostics (`translate/src/diagnostics/`) | reference-counted shared state, tool run counters, the diagnostics directory | initialize, report, start a tool run, join, collect | main loop, tool threads and the threads they start |
| Output directory and configuration (`translate/src/util.rs`, `cli.rs`) | the file system; layered settings | `empty_writable_dir`, `initialize` | run before the translation |
| Benchmark harness (`benchmark/src/`) | results per program, child processes, log files | translate, build, run tests, collect statistics | calls `transpile`; starts `cargo` and the translated programs |

**What is hard here.**  Tool threads allocate ids, fill in edits, fail, panic,
start helper threads and signal completion while the main thread schedules and
applies other results.  Exclusion rests on a table that is filled when an edit
is created and emptied by destructors on whichever thread drops the edit.
Snapshots are stale as soon as another edit is applied.  The main thread blocks
on a channel, and the loop's exit condition is an inference ("no tool runs, so
none is schedulable").  One error in the middle of a scheduling pass unwinds
everything while threads still run.  The hazards are listed, each at its line,
in PROJECT.json.

**What makes each part correct.**  *Ids*: never repeated, no gaps, overflow
ends the process.  *Organizer*: no two edits may write one id; the table is
exact; an edit's effect is all or nothing; nobody's update is lost.
*transpile*: the scheduler loses no tool; every signal meets its invocation;
what a tool read stays current until its edit is applied; the loop ends, and
ends only when no queued tool could run; a result is final and nothing outlives
a successful return.  *Directory tree*: what was set is what is read, a failed
set changes nothing.  *Tools*: the four concrete tools run once each and in the
order their data dictates.  *Diagnostics*: `diagnostics()` returns after all
reporters are gone, run directories never collide.  *Benchmark*: every program
gets one result; once its stdin is written, a test program does not outlive its
timeout.

## Modules

| Module | Models | Kind |
|---|---|---|
| `IdAllocator` | `ir/src/id.rs` | component |
| `HarvestIR` | the map, `Overlay` (what `apply_edit` stores), `NewEditOutcome` (what `new_edit` answers) | shared operators |
| `LeaseStore` | what the organizer promises: a store whose ids are held by one edit at a time | abstract specification |
| `Organizer` | `ir/src/edit.rs`; several organizers, several edits | component; implements `LeaseStore` |
| `Transpile` | `lib.rs`, `scheduler.rs`, `runner.rs`, the thread part of `diagnostics/`, the `Tool` contract | composition; implements `Organizer`, and `Barrier` for each run |
| `Pipeline` | the four concrete tools of `translate/src/tools/` in the main loop of `Transpile` | composition, extends `Transpile` |
| `Benchmark` | `benchmark/src/main.rs` with its harness, IR queries and statistics, around the translations of `Pipeline` | composition, extends `Pipeline` |
| `EmptyDir` | `empty_writable_dir` in `translate/src/util.rs` | component |
| `Diagnostics` | `translate/src/diagnostics/`, and the emptying of both directories before it | component, extends `EmptyDir`; implements `Barrier` |
| `Barrier` | what `Collector::diagnostics` and `ToolJoiner::join` promise: wait until all other handles are gone | abstract specification |
| `RawDir` | `ir/src/fs.rs` | component; implements `FileMap` |
| `FileMap` | what a directory tree promises: a prefix-free map of files that only grows | abstract specification |
| `ChildRunner` | `benchmark/src/runner.rs` with the program it runs and their pipes | component |
| `IdAllocatorProofs`, `OrganizerProofs`, `TranspileProofs`, `DiagnosticsProofs`, `RawDirProofs`, `ChildRunnerProofs` | theorems about the component in the name | proofs |
| `PipelineProofs` | theorems about `Pipeline`, extends `TranspileProofs` | proofs |
| `BenchmarkProofs` | theorems about `Benchmark`, extends `PipelineProofs` | proofs |
| `MC...` | instances for TLC | model checking |

In every component module an operator named `Bad...` stands before the
definition it is a broken variant of; no specification uses it.  Replacing the
definition by it makes TLC refute the property PROJECT.json pairs it with.

### IdAllocator

`highest_id` is the static counter, `prev` and `left` are the local variables of
a thread's call, `made` and `wrapped` are history.  `FetchAdd` is the atomic
add (modulo 2^64, here `MaxId + 1`), `BuildId` one round of the `map` closure,
`Overflow` the failed `checked_add` that aborts the process.  The counter being
modular, the state space is finite without a bound; `MaxId = 6` with blocks of 0,
1 and 2 ids and three threads lets the counter wrap exactly to 0 and past it
with other calls in progress.  Fairness: a call in progress goes on (the
operating system runs its thread); nothing makes a thread call.

### HarvestIR, Organizer, LeaseStore

The IR is a total function from ids to representations, `None` for an absent
key.  An `Edit`'s `HashMap<Id, Option<..>>` is split into its keys
(`writable`) and its `Some` entries (`written`).  `owner[e]` is the organizer
whose `Shared` the edit points to, so `Arc::ptr_eq` is `IsOwn`, and
`owner[e] = None` says that no edit lives under that handle.  Each method is one
step: the organizer's take `&mut self`; `new_edit` checks and fills the table
under its mutex, and the IR it looked at before cannot change meanwhile.
`apply_edit` consumes the edit whether it succeeds or not, so its drop, on the
organizer the edit came from, is part of the step.  Id allocation is `next_id`:
unique, as `IdAllocator` shows up to a wrap.

`LeaseStore` has no table of ids in use and no pending writes: it only knows
which edits hold which ids.  `Organizer` implements it with
`holders[o][i] = {e : owner[e] = o, i \in writable[e]}`.

Bounds: two organizers, two edits at a time (handles are reused, so any number
over time), one stored id and two new ones, two values.  Two edits and two
organizers are what each property quantifies over; organizers may start with the
same id, with equal or different values, as clones do.

### Transpile

The main thread's place is `pc`: `snapshot`, `schedule`, `starting` (between
`new_edit` and the spawned thread), `spawned` (the thread runs, the runner does
not know it yet), `process` and `drain` (before and after the first `recv`),
`exit`, `returned`, and `unwinding`, `failed` on the error path.  `queue` is the
scheduler's queue, `trying` what is left of the vector that `next_invocations`
took out of it.  A tool's life is `stage`: its thread's `run`, the result, the
wait in `ToolJoiner::join`, the signal, the application.  `helpers[t]` counts the
reporter handles beyond the tool's own thread, which are what `join` waits for.
A tool is spawned at most once, so a tool stands for its thread id.

`might_write` answers anything, with any set of allocated ids, and `run` makes
any sequence of calls on its edit.  It also has that edit by `&mut Edit`
(tools/mod.rs:101), so a tool may put another one in its place, as the test
`replaced_edit` (runner.rs:229) does.  Hence edits and runs are two things here.  An
edit has the name of the tool it was made for, since a tool is run once; `edit[t]` is
what the variable `edit` of t's thread holds now; `kept` are the edits that
tools have taken out of a run.  `ReplaceEdit` is `mem::replace`, with a kept edit or
with `Foreign`, one of an organizer that the tool has made itself, coming in; an
assignment through the reference is that, followed by `DropKept`.  A kept edit
may be filled in (`EditCall`) or dropped from anywhere, after its run and after
`transpile` too.  `ProcessOk` applies whatever edit of this organizer the run
ended with, `ProcessWrongOrganizer` drops a foreign one with no more than a log message.
`Foreign` stands for all foreign edits, and the calls on it are not shown: it leaves no
trace in this organizer, except for ids it takes from the common counter, and
gaps in the ids make no difference to anything here.  Threads that a tool starts
without a reporter are invisible to the runner, and to the model.

So what is shown speaks of every tool of safe Rust that neither panics behind
`catch_unwind` (see *What is not modelled*) nor has any other access to the organizer.  Two
sentences of the code have to be read with care when tools replace their edits:

- "If `Ok` is returned the changes will be applied" (tools/mod.rs:65): of an edit of
  this organizer, off the error path (`OkIsApplied`); a foreign one is lost.
- "No tools are running now, which also indicates that no tools are
  schedulable" (lib.rs:82): a tool may also be left in the queue for an id that a kept
  edit has, and whoever keeps that edit may drop it the next moment
  (`NothingSchedulable` allows "Kept" beside "TryAgain", and nothing else; likewise
  `CleanReturn` for the leases that survive).

`SnapshotStaysCurrent` compares an edit with the snapshot of the run it was made for.  A
tool that fills in the edit of another run from its own, possibly later or
earlier, snapshot is on its own: the code relates the two no more than the model.

`said` is history: why a tool went back to the queue in the current pass, which is
what `NothingSchedulable` is about.

`ImplementsOrganizer` maps the state to one `Organizer`; so every result about
edits and leases holds for every use `transpile` makes of them.
`ImplementsBarrier` maps each tool to a barrier, its handles being the helpers and
the run itself: this is where `Transpile` and `Diagnostics` meet.  `Diagnostics` shows
that counting references and sending from a destructor implements `Barrier`, `Transpile` that
its threads, with the join as one step, do what `Barrier` allows.

Bounds: three tools (two that contend and one that waits for them), one id that
any of them may make and the others contend for, two values, one helper per tool
at a time; two of the tools replace and keep edits, enough to exchange them.  Edits
over several ids are what `organizer` checks.  Liveness uses one value, on which no
decision depends, and one tool that replaces its edit.

Fairness: the main thread takes steps it can take and a thread whose run has
returned and whose helpers are gone signals (both are ordinary running threads).
That tools return and helpers end is nothing the code guarantees, so it is no
fairness condition but the antecedent `ToolsFinish` of both liveness properties.
Deadlock is checked: `Done` stutters only when `transpile` has returned and
all threads are over.  The id allocator runs with `CHECK_DEADLOCK FALSE`, because an
aborted process stops.

### Pipeline

`Pipeline` extends `Transpile`: its steps are steps of `Transpile`, with the
answers of `might_write` and the calls of `run` narrowed to what the four tools
do.  `Ready(t, m)` is tool t's `might_write`, `LoadWrites` to `BuildFails` are the
ways their runs write or fail.  A representation is its type, and the value
where a later tool or the benchmark looks at it.  `output` is the one piece of
state a tool keeps outside the IR.  Four ids suffice, since no run writes more
than one representation.  None of the tools clones its reporter, so
`MaxHelpers = 0`.  Tools start each other through the data alone; `OneAtATime`
shows that they never overlap, which is why the concurrency of `Transpile` is
checked there, with arbitrary tools, and not here.

`output` is what the output directory holds.  It starts empty, as the binary leaves
it, or with leftovers, since the benchmark driver never empties it; and leftovers
stay, as `materialize` only adds and overwrites.  So `ResultMatchesOutput` says that
with a build result the whole package is there and nothing else but what was there
before, which cargo may have picked up.  The module comment of
`try_cargo_build.rs` (lines 1-2: "by materializing it to a tempdir") describes a build
that could not meet leftovers; lines 117 and 118 materialize to the
configured output directory itself, and that is what the model does.
`Replacers` is empty: none of the four tools touches its `&mut Edit` but to add to it.

### Benchmark

`at` is the place in `benchmark_single_program`, or the panic that ended the
process: a panic is on the only thread that matters, so the batch stops there and
the results, which are in memory until the end, are lost.  While `at =
"transpile"` the steps are those of `Pipeline`; `StartTranspile` makes all of
transpile's variables new and leaves `NEXT_ID`, a static, as it is.  `FromIr` reads
the IR with the queries of `ir_utils.rs`.  A test passes or fails (`ChildRunner` is
about the run itself); a failure is saved or ends the batch.  `diagnostics` says
whether a diagnostics directory is configured, with or without force, and whether a
program has filled it already: the driver passes the user's configuration on to
every program, so without force the second one cannot start.

`ResultsAddUp` rests on `Pipeline`: that a program never builds without a
translation is not in the driver but follows from the chain of the tools.

Bounds: two programs (one before and one after any outcome), two test cases (one
that passes beside one that fails), four ids per program.

### EmptyDir, Diagnostics and Barrier

`EmptyDir` has the state of a path as the function sees it: what stands there, its
entries, its permissions; `unread` is the iterator of `read_dir`, `verdict` the place
in the call and then its result.  Each `remove_*` is a step and may fail, so a call
may end in a directory that is partly deleted.

`Diagnostics` starts with both directories in any condition, empties the output, then
the diagnostics directory unless it is temporary (`temp`), lays it out, and then
lets any number of threads use `Reporter`s: `at[r]` is where reporter r and its thread
are, the three places in `Locked` being those with the mutex.  `handles[b]` is the
strong count of the `Arc` behind barrier b, which is `Shared` or one run's `RunShared`;
`Release` is the drop of a handle, with the message that the last one sends;
`waiter[b]` is the Collector or the run's `ToolJoiner`, and `signals` are the receivers with
a message in them.  Errors and panics are steps of their own.  A reporter in use by
several threads at once is several reporters here: they are the same `Arc`.

`Barrier` knows handles and waiting parties only, and no messages: a party gets through only
when nobody else has a handle, and then it does.  Whoever has none cannot make one, so
it stays open.

Two things that documentation may lead one to expect do not hold, and are no
part of the promise: `diagnostics()` does not wait for `ToolReporter`s, which do not keep
`Shared` alive (in `transpile` the runner has joined them all, as `CleanReturn` of
`Transpile` says); and after an error in `transpile` the Collector goes without
waiting for anybody, its temporary directory with it.

Bounds: two leftover entries, one of which is called like an entry of the layout; two
reporters, two tools with two runs and one, two handles at a time per run.
Deadlock is checked: `Over` requires that nobody waits and no handle is left.
`StartsFromNothing` is about the binary: the benchmark driver, too, has its diagnostics
directory emptied or refused, but not its output directory.
Fairness: a thread in `recv` with a message in its channel returns; nothing makes
anybody drop a handle.

### RawDir and FileMap

A tree is a function from paths to `Dir` or contents.  `get_file` and `set_file`
each have a loop of their own over `Path::components`; `GetDescend` and `SetDescend` are
their bodies, each translated from its own lines, `GetWalk` and `SetWalk` the loops,
recursions over the components, and `GetWalked` and `SetWalked` add the check behind
them.  `LookupsAgree` is about a difference between the two: its mutant changes
one arm of one of them.  `WithParents` is the
`or_insert_with` of each segment, up to the file that may be in the way, so a
failing call has the effect the code gives it.  `materialize` is a process of its
own, one file at a time, each of its two system calls failing where it can.  Of
the vector that `files_recursive` returns `todo` keeps what is left, and `First` is
the one whose turn it is, in the order of the keys.  `FileMap` forgets directories: the map of
files only grows, by one file that is neither above nor below another.

Bounds: two names, paths of up to three components (enough for a file below a
file, `a/../b`, and a third level), two contents, at most three files, starting from
every tree of depth two with at most one file, empty directories included.
Calls end when materialize ends, hence `CHECK_DEADLOCK FALSE`.

A consequence to know, visible in `MaterializesFiles`: a directory without files
is not materialized, so `c_src` of a benchmark is a copy of the files only.

### ChildRunner

`pc` is the harness in `run_binary_with_timeout`; the program under test and a
process it may leave behind (`heir`) are external and do what they like.  A
program that is in a `write` (`child = "printing"`) can do nothing else while its pipe is full.
Pipes hold two units; three units of stdin or output are more than a pipe holds.
The harness may block for ever, which is the finding, hence `CHECK_DEADLOCK
FALSE`.  Fairness: the harness takes the steps it can take and time passes;
nothing makes the program move or a system call fail.  Since nobody reads the
output before the program has exited, a program that prints more than the pipe holds
never gets to exit and is reported as a timeout.

## Runs

| Run | Shows |
|---|---|
| `ids` | uniqueness until a wrap, no gaps, a wrap ends in abort |
| `ids_unique` | the documented unconditional uniqueness fails between wrap and abort |
| `organizer` | exclusion, exact table, no lost update, refinement of `LeaseStore` |
| `transpile` | scheduler, signals, snapshots, exit condition, clean return, with edits that are exchanged, kept and replaced; refinement of `Organizer` |
| `transpile_live` | if tools return: termination, and what becomes of the edit a successful run ends with; the join of each run is a `Barrier` |
| `benchmark` | the tools find their inputs, run one at a time, leave at most one representation per type, and the loop does not end before the chain is through, also in the second translation of a process; the driver's statistics fit together and every failure it counts is on disk |
| `diagnostics` | the directories are emptied or refused, never half used; numbers of runs never collide; `diagnostics()` and `join` return when and only when all other handles are gone (refinement of `Barrier`, liveness included) |
| `rawdir` | a set is all or nothing, get and set agree on every path, materialize writes exactly the files; refinement of `FileMap` |
| `child` | after stdin is written the timeout works and leaves nothing behind, output is complete |
| `transpile_applied` | "If Ok is returned the changes will be applied" fails, even for a run with its own edit, when starting another tool fails |
| `benchmark_batch` | "Run all benchmarks for a list of programs": one failing translation ends the batch |
| `child_timeout` | the timeout is not enforced while stdin is written |

`ids_unique`, `transpile_applied`, `benchmark_batch` and `child_timeout` are expected to end in a
counterexample; each stands for a finding in PROJECT.json that quotes the
documentation it contradicts.

## What is proved

TLAPS checks the following for every value of the constants: any number of
threads, organizers, edits, tools, helpers, ids, reporters, runs, programs and test
cases, any representations, and trees and paths of any size.  All invariants and action
properties that the passing runs check are theorems, and so are the refinements,
that of `Barrier` by `Diagnostics` up to its fairness.  Each module
has one inductive invariant, in named parts, and one lemma per part that says which
steps can disturb it.  TLC finds each of these invariants to hold on the instances of the runs.

*IdAllocatorProofs*, from `AllocatorAssumption` (the largest id is positive
and block lengths are at most that).  `TypeCorrect`; `Uniqueness`: no id is
constructed twice before the counter wraps; `Contiguity`: when no call is in
progress, the ids made are exactly 1 to the counter.  Neither property is
inductive: what keeps two calls apart is that the blocks they have reserved but
not yet built are disjoint, lie at or below the counter, and have not been made.
The invariant is `TypeOK` together with `wrapped \/ (Behind /\ Disjoint /\
MadeOnce)`: after a wrap nothing is claimed, and uniqueness is in fact false.  What holds
after a wrap is `OverflowPends`: some call stays on its way to the abort.

*OrganizerProofs*, from `HarvestIRAssumption` and `OrganizerAssumption` (`None` is neither
a representation nor an organizer; the ids given out before the start are in
range).  `Exclusion`: no two live edits of an organizer may write one id.
`LeaseTable`: the table holds exactly the stored ids that live edits may write.
`LostUpdateFree`: a value does not change under an edit that may write it.
`Refinement`: `Spec` implements `LeaseStore`'s.  `Exclusion` alone is not inductive.
A request is checked against the table, not against the edits, so the invariant
needs `Exact` (table and edits say the same); an edit also holds ids it allocated
itself, so it needs `Allocated` (nothing at or above `next_id` is stored, leased
or written) for `Fresh` to be new; `Confined` keeps pending values within the
ids an edit may write, `Idle` keeps dead handles empty.  The proof has one step
per action and part.  The refinement maps initial states and then each action,
failing and foreign `apply_edit` included, to one action of `LeaseStore`.

*TranspileProofs*, from `HarvestIRAssumption` and `TranspileAssumption` (numbers are
natural; `None` and `Foreign` are no tools, and `None` is not the name the refinement gives
the organizer), for arbitrary tools, any of which may replace its edit.
`TypeCorrect`, `SnapshotCurrent`, `Accounting`, `SignalsFindInvocations`,
`NoneSchedulable`, `ReturnsClean` state the run's invariants.  The parts of the
invariant: `Waiting` (the two queues hold, in order and once, the tools that have not
run, except the one just handed over), `Attachment` and `Signals` (the runner
has the handle of every thread it owes a result, and one signal is under way for each
thread that has sent one), `Held` (a run has exactly one edit from `new_edit` until it
fails or is processed, no edit is in two places, and none is about that was made for a tool
which has yet to be started), `EditInv` (what the organizer's invariant says of edits and
table, with the snapshot of every edit that has not been dropped current where it
may write), `SnapshotIsIR`, and
`Passes` for the exit condition: whoever is back in the queue has said why in this pass, and
if one was put off because a run has an id then some thread is still running.  So the
loop cannot end with such a tool, which is what is left of the inference at lib.rs:82 when
edits may be kept.  `OkStays` is the safety half of `OkIsApplied`: off the error
path the edit that a successful run ends with, unless it is foreign, stays as it is up to
the step in which the IR is overlaid with it.
`RecvAnswered` is that of `Terminates`: `recv` waits only for threads that run their
tool or join its helpers, and for at least one.

`OrganizerRefined` maps each of transpile's steps to a step of `Organizer` or none.
With it `OrganizerCarriesOver` discharges the assumptions of `OrganizerProofs`, taken as an
instance, and `ToolsLoseNoUpdate`, `ToolsLeaseTable`, `LeaseStoreRefined` are its
theorems, read for tool threads.  `BarrierRefined` maps helpers and runs to
the handles of a `Barrier`; `Joining` says that a helper never outlives the thread that
joins it.

*PipelineProofs*, from the assumptions above and `PipelineAssumption` (the four tools and
the types of their results).  `PipelineIsTranspile`: every step is one of `Transpile`, so
everything above holds.  The invariant adds what is special to the four tools.  A
tool never sees the IR change where it has looked (`Grows`), so that who was `Ready`
in an old snapshot still is (`Fed`); nobody has another edit than its own (`OwnEdits`); who runs comes after all tools in front
(`Ordered`), which is what makes them run alone; whoever waits is not ready
(`PutOff`), which is why the chain is through when the loop ends; `OneWriter`, `Leaves`
and `Output` tie representations and the output directory to the run they come from.

*BenchmarkProofs*, with `BenchmarkAssumption` besides (finitely many test cases).  The batch
starts a translation in a state that satisfies `Starts`, ids already given out included,
and the invariant of `PipelineProofs` is proved from there; so `InputsFound`,
`OneRepresentationEach`, `ResultIsOfOutput`, `RunsAlone` and `ChainCompletes` hold
of every translation of a batch of any length.  `StatisticsAddUp` rests on
`Tallied` (each test case of the current program waits in `vectors` or has been
counted once), `FailuresOnDisk` on the same and on `NotYet`.

*DiagnosticsProofs*, from `DiagnosticsAssumption` (the two directories are among those
modelled, reporters are finitely many, bounds are natural numbers).  `RunDirsFresh`: the
number of a run is used up before its directory is made, and stays used up when the
making fails (`Numbered`), which needs the mutex (`OneInLock`).  `FreshStart` and
`NothingIsLost` follow the calls of `empty_writable_dir` through both
directories (`Verdicts`).  `BarriersKept`: the Collector and every `ToolJoiner` return
only when all other handles are gone; the count of the `Arc` is the number
of reporters and the Collector's own handle (`SharedCounted`), and a message in a
channel means that no handle is left (`Quiet`).

*RawDirProofs*, from `RawDirAssumption` (names are numbers, so that keys have an
order; the kinds of components differ; directories are not contents; trees read from
disk are trees, with finitely many files).  `LookupsMeet`: `get_file` and `set_file` agree on every
path.  This needs facts about their two recursions over paths of any length, by
induction over their length (from the well-founded order of the natural numbers):
each is its loop, with values of the right type, and yields a plain path unchanged; and,
since each step of the one is a step of the other (`DescendsMeet`), they come to the same
(`WalksMeet`).  `AllOrNothing`: a set that fails has met an entry of the tree on its
way, so all the directories it would make are there already.  `DiskIsTheTree`:
what is on disk is never a stranger (`NoStranger`), and the files there are those whose
turn has passed (`Progress`); that the next file is unique and below no file already
written rests on `BeforeTotal` and `BeforeTransitive`.  `FileMapRefined`: every step
is one of `FileMap` or none.

*ChildRunnerProofs*, from `ChildRunnerAssumption` (a pipe holds something; sizes are
natural numbers).  `TypeCorrect`; `Reaped`: once the wait has begun, every way out
has reaped the program; `Complete`: output handed over is all that was printed.
`OutputIsComplete` needs `Conserved` (what is printed is collected or still in the
pipe), and `Phases` ties the position in the call to the state of the program and
the timer, so that an outcome says which way it was reached.

## What is only model-checked

Liveness: `OverflowAborts`, `Terminates`, `OkIsApplied`, `ReturnsInTime`, and that the
barriers of `Diagnostics` open (`ImplementsBarriers` with the fairness of `Barrier`).
They rest on weak fairness, whose ENABLED the proof system does not reason about.
Their safety halves are proved where stated above (`OverflowPends`, `RecvAnswered`, `OkStays`,
`BarriersKept`).
The four runs that end in a counterexample are refutations by TLC.

## What is not modelled

Panics on the main thread (`thread::spawn`, `might_write`); on a tool's thread, panics
outside `catch_unwind`, which are possible in the `Display` of a tool's error (runner.rs:119) and
in the drop of a panic's payload, and would end the thread without its signal; what tools do
with foreign edits; mutex poisoning in `edit.rs`, since
nothing panics under its locks; writes through the reference that
`set_file` returns, which no caller makes; `populate_from` as a sequence of reads;
what cargo, the LLM and translated programs compute, and the comparison of
outputs; argument parsing; `cli::initialize`, which hands the layers of
configuration to the `config` crate before anything runs; `display` of a
directory, the contents of logs, reports and CSV files; `cargo clean` at the end of a
benchmark.

## Plan

Done, in order of importance: ids, organizer and its promise, `transpile`, the
concrete tools, the directory tree, the test program runner, diagnostics with the
emptying of directories, the benchmark driver; then proofs of all their
invariants, action properties and refinements.  Next:

1. The rest of the safety content of the liveness properties: that every pass of
   the loop lowers a measure (`Terminates`), and what the harness waits for in each
   phase (`ReturnsInTime`).
2. What holds of the error path of `transpile`: which threads and leases outlive it.
3. Statements about `Diagnostics` and `Transpile` together, through `Barrier`.
