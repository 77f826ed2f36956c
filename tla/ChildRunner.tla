---------------------------- MODULE ChildRunner ----------------------------
(***************************************************************************)
(* One call of run_binary_with_timeout (benchmark/src/runner.rs): the      *)
(* harness starts a translated program, writes its stdin, waits for it     *)
(* with a timeout and collects its output.  The program does what it       *)
(* likes, concurrently: it reads or closes its stdin, prints, starts a     *)
(* process of its own that inherits its stdout, exits, or none of these.   *)
(* The pipes hold a bounded amount of data; stdout and stderr have a pipe  *)
(* each that is treated the same way, and one stands for both.             *)
(***************************************************************************)
EXTENDS Naturals

CONSTANTS
    Capacity,       \* what a pipe holds
    MaxStdin,       \* bound: data in a test case's stdin
    MaxOutput,      \* bound: data the program prints
    Heirs           \* whether a program may leave a process behind

ASSUME ChildRunnerAssumption ==
    /\ Capacity \in Nat \ {0}
    /\ MaxStdin \in Nat
    /\ MaxOutput \in Nat
    /\ Heirs \in BOOLEAN

VARIABLES
    pc,         \* the harness: "spawn", "stdin", "wait", "collect", "cleanup", "returned"
    outcome,    \* what it returns: "none" yet, "output", "timeout", "error"
    left,       \* of the test case's stdin, what is not yet written
    collected,  \* the output read so far
    timer,      \* "off", "running", "expired"
    child,      \* the program: "none", "running", "printing" (it is in a
                \* write to its stdout), "exited", "reaped"
    listening,  \* it has its stdin open
    heir,       \* a process it started holds its stdout
    stdin,      \* data in the stdin pipe
    stdout,     \* data in the stdout pipe
    printed     \* what the program has printed

harnessVars == <<pc, outcome, left, collected, timer>>
childVars == <<child, listening, heir, printed>>
vars == <<harnessVars, childVars, stdin, stdout>>

TypeOK ==
    /\ pc \in {"spawn", "stdin", "wait", "collect", "cleanup", "returned"}
    /\ outcome \in {"none", "output", "timeout", "error"}
    /\ left \in 0 .. MaxStdin
    /\ collected \in 0 .. MaxOutput
    /\ timer \in {"off", "running", "expired"}
    /\ child \in {"none", "running", "printing", "exited", "reaped"}
    /\ listening \in BOOLEAN /\ heir \in BOOLEAN
    /\ stdin \in 0 .. Capacity
    /\ stdout \in 0 .. Capacity
    /\ printed \in 0 .. MaxOutput

(* left = 0 stands for a test case without stdin as well: both close the pipe. *)
Init ==
    /\ pc = "spawn" /\ outcome = "none"
    /\ left \in 0 .. MaxStdin
    /\ collected = 0
    /\ timer = "off"
    /\ child = "none"
    /\ listening = FALSE /\ heir = FALSE
    /\ stdin = 0 /\ stdout = 0 /\ printed = 0

BadHasRoom(pipe) == pipe <= Capacity
HasRoom(pipe) == pipe < Capacity

Return(result) == pc' = "returned" /\ outcome' = result

----------------------------------------------------------------------------
(* Harness *)

Spawn ==
    /\ pc = "spawn"
    /\ child' = "running"
    /\ listening' = TRUE
    /\ pc' = "stdin"
    /\ UNCHANGED <<outcome, left, collected, timer, heir, printed, stdin, stdout>>

SpawnFails ==
    /\ pc = "spawn"
    /\ Return("error")
    /\ UNCHANGED <<left, collected, timer, childVars, stdin, stdout>>

(* write_all blocks while the pipe is full. *)
WriteStdin ==
    /\ pc = "stdin" /\ left > 0
    /\ listening
    /\ HasRoom(stdin)
    /\ stdin' = stdin + 1
    /\ left' = left - 1
    /\ UNCHANGED <<pc, outcome, collected, timer, childVars, stdout>>

(* Nobody reads: EPIPE.  The error is returned and the Child dropped, which
   neither kills the program nor waits for it. *)
BrokenPipe ==
    /\ pc = "stdin" /\ left > 0
    /\ ~listening
    /\ Return("error")
    /\ UNCHANGED <<left, collected, timer, childVars, stdin, stdout>>

BadStartWait ==         \* a plain wait
    /\ pc = "stdin" /\ left = 0
    /\ pc' = "wait"
    /\ UNCHANGED <<outcome, left, collected, timer, childVars, stdin, stdout>>

(* All is written and stdin closed; only now does the timeout start. *)
StartWait ==
    /\ pc = "stdin" /\ left = 0
    /\ timer' = "running"
    /\ pc' = "wait"
    /\ UNCHANGED <<outcome, left, collected, childVars, stdin, stdout>>

(* wait_timeout returns the status, or None when time is up: when both have
   happened, either. *)
Exited ==
    /\ pc = "wait"
    /\ child = "exited"
    /\ child' = "reaped"
    /\ pc' = "collect"
    /\ UNCHANGED <<outcome, left, collected, timer, listening, heir,
                   printed, stdin, stdout>>

TimedOut ==
    /\ pc = "wait"
    /\ timer = "expired"
    /\ outcome' = "timeout"
    /\ pc' = "cleanup"
    /\ UNCHANGED <<left, collected, timer, childVars, stdin, stdout>>

WaitFails ==
    /\ pc = "wait"
    /\ outcome' = "error"
    /\ pc' = "cleanup"
    /\ UNCHANGED <<left, collected, timer, childVars, stdin, stdout>>

(* wait_with_output reads to the end of file, which comes when no process
   has the pipe open any more. *)
ReadOutput ==
    /\ pc = "collect"
    /\ stdout > 0
    /\ stdout' = stdout - 1
    /\ collected' = collected + 1
    /\ UNCHANGED <<pc, outcome, left, timer, childVars, stdin>>

BadEndOfFile == TRUE
EndOfFile == stdout = 0 /\ ~heir

Collected ==
    /\ pc = "collect"
    /\ EndOfFile
    /\ Return("output")
    /\ UNCHANGED <<left, collected, timer, childVars, stdin, stdout>>

BadKilled == child
Killed == "reaped"

(* cleanup_process: kill, then wait. *)
Cleanup ==
    /\ pc = "cleanup"
    /\ child' = Killed
    /\ pc' = "returned"
    /\ listening' = FALSE
    /\ UNCHANGED <<outcome, left, collected, timer, heir, printed, stdin, stdout>>

Harness ==
    \/ Spawn
    \/ WriteStdin \/ BrokenPipe \/ StartWait
    \/ Exited \/ TimedOut
    \/ ReadOutput \/ Collected
    \/ Cleanup

SystemFails == SpawnFails \/ WaitFails

Expire ==
    /\ timer = "running"
    /\ timer' = "expired"
    /\ UNCHANGED <<pc, outcome, left, collected, childVars, stdin, stdout>>

----------------------------------------------------------------------------
(* The program, and a process that it starts and that may outlive it; what
   that process prints is left out. *)

Free == child = "running"

ReadStdin ==
    /\ Free /\ listening /\ stdin > 0
    /\ stdin' = stdin - 1
    /\ UNCHANGED <<harnessVars, childVars, stdout>>

CloseStdin ==
    /\ Free /\ listening
    /\ listening' = FALSE
    /\ stdin' = 0
    /\ UNCHANGED <<harnessVars, child, heir, printed, stdout>>

StartPrint ==
    /\ Free
    /\ printed < MaxOutput
    /\ child' = "printing"
    /\ UNCHANGED <<harnessVars, listening, heir, printed, stdin, stdout>>

(* It blocks while the pipe is full. *)
EndPrint ==
    /\ child = "printing"
    /\ HasRoom(stdout)
    /\ stdout' = stdout + 1
    /\ printed' = printed + 1
    /\ child' = "running"
    /\ UNCHANGED <<harnessVars, listening, heir, stdin>>

StartHeir ==
    /\ Free /\ Heirs /\ ~heir
    /\ heir' = TRUE
    /\ UNCHANGED <<harnessVars, child, listening, printed, stdin, stdout>>

Exit ==
    /\ Free
    /\ child' = "exited"
    /\ listening' = FALSE
    /\ stdin' = 0
    /\ UNCHANGED <<harnessVars, heir, printed, stdout>>

HeirEnds ==
    /\ heir
    /\ heir' = FALSE
    /\ UNCHANGED <<harnessVars, child, listening, printed, stdin, stdout>>

Program ==
    \/ ReadStdin \/ CloseStdin
    \/ StartPrint \/ EndPrint
    \/ StartHeir \/ HeirEnds
    \/ Exit

Next == Harness \/ SystemFails \/ Expire \/ Program

(* The harness takes every step it can take and time passes.  Nothing makes
   the program do anything, or a system call fail. *)
Fairness ==
    /\ WF_vars(Harness)
    /\ WF_vars(Expire)

Spec == Init /\ [][Next]_vars /\ Fairness

----------------------------------------------------------------------------
(* Properties *)

(* Once the wait has begun, no way out of it leaves the program running or a
   zombie behind: only an error while stdin is written, before the timeout
   is started, may (then the program outlives the call). *)
NothingLeftBehind ==
    pc = "returned" /\ child # "reaped" => timer = "off" /\ outcome = "error"

(* Output that is handed to the comparison is all that the program printed,
   although it is read only after the program is gone. *)
OutputIsComplete ==
    outcome = "output" => collected = printed /\ child = "reaped"

(* The timeout works for a program whose stdin fits into the pipe and which
   leaves nobody behind with its stdout: the call returns, whatever the
   program does, even if it never reads and never exits. *)
ReturnsInTime ==
    left <= Capacity /\ [](pc = "collect" => ~heir) => <>(pc = "returned")

(* "Runs a binary with test case inputs and enforces a timeout"
   (runner.rs:9), for every program and every test case. *)
EnforcesTimeout == <>(pc = "returned")
=============================================================================
