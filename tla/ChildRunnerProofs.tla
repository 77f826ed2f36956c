------------------------- MODULE ChildRunnerProofs -------------------------
(* The test program runner leaves no process behind once its wait has begun,
   and hands over all of the output, for pipes and data of any size. *)
EXTENDS ChildRunner, TLAPS

(* What is printed is in the pipe or collected. *)
Conserved == printed = collected + stdout

(* How far the call has come, against the program's life. *)
Phases ==
    /\ pc = "spawn" => child = "none"
    /\ pc \in {"spawn", "stdin"} => timer = "off"
    /\ pc \in {"spawn", "stdin", "wait", "collect"} => outcome = "none"
    /\ pc = "collect" => child = "reaped"
    /\ pc = "cleanup" => outcome # "output"
    /\ pc = "returned" => child = "reaped" \/ (timer = "off" /\ outcome = "error")

(* A program that is in a write has output left to print. *)
Printing == child = "printing" => printed < MaxOutput

(* The type of all but the two Boolean variables. *)
Typed ==
    /\ pc \in {"spawn", "stdin", "wait", "collect", "cleanup", "returned"}
    /\ outcome \in {"none", "output", "timeout", "error"}
    /\ left \in 0 .. MaxStdin
    /\ collected \in 0 .. MaxOutput
    /\ timer \in {"off", "running", "expired"}
    /\ child \in {"none", "running", "printing", "exited", "reaped"}
    /\ stdin \in 0 .. Capacity
    /\ stdout \in 0 .. Capacity
    /\ printed \in 0 .. MaxOutput

(* The two Boolean variables. *)
Flags == listening \in BOOLEAN /\ heir \in BOOLEAN

(* What is handed over is the output of a program that is gone. *)
HandedOver == outcome = "output" => child = "reaped" /\ stdout = 0

(* The inductive invariant. *)
IInv == Typed /\ Conserved /\ Phases /\ Printing /\ HandedOver

(* It holds when the call begins. *)
LEMMA InitInv == Init => IInv
BY ChildRunnerAssumption
   DEF Init, IInv, Typed, Conserved, Phases, Printing, HandedOver

(* Each step of the harness, of time and of the program preserves IInv. *)
LEMMA StepInv == IInv /\ [Next]_vars => IInv'
<1> SUFFICES ASSUME IInv, [Next]_vars PROVE IInv'
  OBVIOUS
<1> USE ChildRunnerAssumption
        DEF IInv, Typed, Conserved, Phases, Printing, HandedOver,
            harnessVars, childVars
<1>1. CASE Spawn BY <1>1 DEF Spawn
<1>2. CASE SpawnFails BY <1>2 DEF SpawnFails, Return
<1>3. CASE WriteStdin BY <1>3 DEF WriteStdin, HasRoom
<1>4. CASE BrokenPipe BY <1>4 DEF BrokenPipe, Return
<1>5. CASE StartWait BY <1>5 DEF StartWait
<1>6. CASE Exited BY <1>6 DEF Exited
<1>7. CASE TimedOut BY <1>7 DEF TimedOut
<1>8. CASE WaitFails BY <1>8 DEF WaitFails
<1>9. CASE ReadOutput BY <1>9 DEF ReadOutput
<1>10. CASE Collected BY <1>10 DEF Collected, EndOfFile, Return
<1>11. CASE Cleanup BY <1>11 DEF Cleanup, Killed
<1>12. CASE Expire BY <1>12 DEF Expire
<1>13. CASE ReadStdin BY <1>13 DEF ReadStdin, Free
<1>14. CASE CloseStdin BY <1>14 DEF CloseStdin, Free
<1>15. CASE StartPrint BY <1>15 DEF StartPrint, Free
<1>16. CASE EndPrint BY <1>16 DEF EndPrint, HasRoom
<1>17. CASE StartHeir BY <1>17 DEF StartHeir, Free
<1>18. CASE HeirEnds BY <1>18 DEF HeirEnds
<1>19. CASE Exit BY <1>19 DEF Exit, Free
<1>20. CASE UNCHANGED vars BY <1>20 DEF vars
<1> QED
  BY <1>1, <1>2, <1>3, <1>4, <1>5, <1>6, <1>7, <1>8, <1>9, <1>10, <1>11, <1>12,
     <1>13, <1>14, <1>15, <1>16, <1>17, <1>18, <1>19, <1>20
     DEF Next, Harness, SystemFails, Program

(* It holds in every state of the call. *)
THEOREM Inductive == Spec => []IInv
BY InitInv, StepInv, PTL DEF Spec

(* The two Booleans, apart from the numbers. *)
LEMMA FlagsInv == Spec => []Flags
<1>1. Init => Flags
  BY Zenon DEF Init, Flags
<1>2. Flags /\ [Next]_vars => Flags'
  BY ZenonT(60)
     DEF Flags, vars, harnessVars, childVars, Next, Harness, SystemFails, Program,
         Spawn, SpawnFails, WriteStdin, BrokenPipe, StartWait, Exited, TimedOut,
         WaitFails, ReadOutput, Collected, Cleanup, Expire, ReadStdin, CloseStdin,
         StartPrint, EndPrint, StartHeir, HeirEnds, Exit
<1> QED
  BY <1>1, <1>2, PTL DEF Spec

(* Type correctness, for pipes and data of any size. *)
THEOREM TypeCorrect == Spec => []TypeOK
<1>1. IInv /\ Flags => TypeOK
  BY Zenon DEF IInv, Typed, Flags, TypeOK
<1> QED
  BY <1>1, Inductive, FlagsInv, PTL

(* Once the wait has begun, every way out of run_binary_with_timeout has
   killed or reaped the program (runner.rs:73). *)
THEOREM Reaped == Spec => []NothingLeftBehind
<1>1. IInv => NothingLeftBehind
  BY DEF IInv, Phases, NothingLeftBehind
<1> QED
  BY <1>1, Inductive, PTL

(* Output handed to the comparison is all that the program printed. *)
THEOREM Complete == Spec => []OutputIsComplete
<1>1. IInv => OutputIsComplete
  BY DEF IInv, Typed, Conserved, Printing, HandedOver, OutputIsComplete
<1> QED
  BY <1>1, Inductive, PTL
=============================================================================
