------------------------- MODULE DiagnosticsProofs -------------------------
(* The diagnostics of one transpile, for any number of reporters, tools, runs
   and handles: the directories are empty when the Collector lays them out,
   no run finds its own directory in the way, and the Collector and the
   joiners wait as Barrier says. *)
EXTENDS Diagnostics, FiniteSetTheorems, TLAPS

(* Who has a Reporter. *)
LoggedIn == {r \in Reporters : at[r] # "gone"}

(* What can be called an entry of a directory. *)
Names == Leftovers \cup Layout

(* Where a Collector or a ToolJoiner can be. *)
Waiters == {"away", "holding", "waiting", "through", "left"}

(* The types that DiagnosticsTypeOK leaves open. *)
MainTypes ==
    /\ EmptyDirTypeOK
    /\ entries \in [Dirs -> SUBSET Names]
    /\ unread \in [Dirs -> SUBSET Names]
    /\ main \in {"output", "diagnostics", "layout", "made", "failed"}
    /\ temp \in BOOLEAN

(* Types of the reporters' state; a tool's counter stays within its runs. *)
ReporterTypes ==
    /\ at \in [Reporters -> {"gone", "idle"} \cup Locked]
    /\ starting \in [Reporters -> Barriers]
    /\ counts \in [DOMAIN MaxRuns -> Nat]
    /\ \A tool \in DOMAIN MaxRuns : counts[tool] <= MaxRuns[tool]
    /\ steps \subseteq RunIds

(* Types of the barriers' state. *)
BarrierTypes ==
    /\ handles \in [Barriers -> Nat]
    /\ waiter \in [Barriers -> Waiters]
    /\ signals \subseteq Barriers

(* The mutex admits one thread at a time. *)
OneInLock ==
    \A r, s \in Reporters : at[r] \in Locked /\ at[s] \in Locked => r = s

(* The Arc counts the reporters, and the Collector while it holds on. *)
SharedCounted ==
    handles[Shared] = Cardinality(LoggedIn) + IF waiter[Shared] = "holding" THEN 1 ELSE 0

(* There are reporters only between the layout and the end of the wait. *)
ReportersLive ==
    /\ main # "made" => waiter[Shared] = "away"
    /\ waiter[Shared] \in {"away", "through"} => LoggedIn = {}

(* A message is there only when no handle is, and nobody has a handle on, or
   a message from, what has not come up. *)
Quiet ==
    /\ \A b \in signals : handles[b] = 0
    /\ \A b \in Barriers : waiter[b] = "away" => handles[b] = 0 /\ b \notin signals

(* The numbers of runs whose directories or handles were ever made are used
   up, and the run that is starting has the latest one. *)
Numbered ==
    /\ \A b \in steps : b[2] <= counts[b[1]]
    /\ \A b \in RunIds : waiter[b] # "away" => b \in steps
    /\ \A r \in Reporters : at[r] \in {"run_dir", "run_messages"} =>
            /\ starting[r] \in RunIds
            /\ starting[r][2] <= counts[starting[r][1]]
            /\ waiter[starting[r]] = "away"
            /\ at[r] = "run_dir" => starting[r] \notin steps
            /\ at[r] = "run_messages" => starting[r] \in steps

(* What empty_writable_dir has said of a directory is so. *)
Verdicts ==
    /\ \A d \in Dirs : verdict[d] = "reading" => place[d] = "directory" /\ entries[d] = unread[d]
    /\ \A d \in Dirs : verdict[d] = "Ok" =>
            /\ place[d] = "directory"
            /\ d = "output" \/ main \in {"output", "diagnostics", "layout"} => entries[d] = {}
    /\ main \in {"diagnostics", "layout", "made"} => verdict["output"] = "Ok"
    /\ main \in {"layout", "made"} /\ ~temp => verdict["diagnostics"] = "Ok"
    /\ main = "made" /\ ~temp => entries["diagnostics"] = Layout

(* The inductive invariant. *)
IInv ==
    /\ MainTypes /\ ReporterTypes /\ BarrierTypes
    /\ OneInLock /\ SharedCounted /\ ReportersLive /\ Quiet /\ Numbered
    /\ Verdicts
----------------------------------------------------------------------------
(* A run's id is a tool's name and a number, and no run has the Collector's. *)
LEMMA RunIdFacts ==
    /\ \A tool \in DOMAIN MaxRuns, n \in Nat :
            0 < n /\ n <= MaxRuns[tool] => <<tool, n>> \in RunIds
    /\ \A b \in RunIds :
            /\ b[1] \in DOMAIN MaxRuns /\ b[2] \in Nat /\ b = <<b[1], b[2]>>
            /\ b \in Barriers /\ b # Shared
    /\ Shared \in Barriers
<1> USE DiagnosticsAssumption
<1>1. ASSUME NEW b \in RunIds
      PROVE  /\ b[1] \in DOMAIN MaxRuns /\ b[2] \in Nat /\ b[2] > 0 /\ b = <<b[1], b[2]>>
  <2>1. PICK tool \in DOMAIN MaxRuns : b \in {tool} \X (1 .. MaxRuns[tool])
    BY DEF RunIds
  <2>2. b = <<b[1], b[2]>> /\ b[1] = tool /\ b[2] \in 1 .. MaxRuns[tool] /\ MaxRuns[tool] \in Nat
    BY <2>1
  <2> QED
    BY <2>2
<1>2. ASSUME NEW tool \in DOMAIN MaxRuns, NEW n \in Nat, 0 < n, n <= MaxRuns[tool]
      PROVE  <<tool, n>> \in RunIds
  <2>1. MaxRuns[tool] \in Nat
    OBVIOUS
  <2>2. n \in 1 .. MaxRuns[tool]
    BY <1>2, <2>1
  <2> QED
    BY <2>2 DEF RunIds
<1>3. Shared[2] = 0
  BY DEF Shared
<1> QED
  BY <1>1, <1>2, <1>3 DEF Barriers

(* The steps, by what they leave alone. *)
LEMMA Steps ==
    ASSUME [DiagnosticsNext]_diagnosticsVars
    PROVE  \/ UNCHANGED <<reporterVars, barrierVars, temp>>
              /\ (EmptyOutput \/ EmptyDiagnostics \/ Emptied \/ NotEmptied \/ LayoutFails)
           \/ MakeLayout
           \/ Mains /\ UNCHANGED reporterVars
              /\ \/ DropCollector
                 \/ \E b \in Barriers : Wait(b) \/ Received(b)
                 \/ \E b \in RunIds : NewRunHandle(b) \/ DropRunHandle(b) \/ DropJoiner(b)
           \/ Mains /\ \E r \in Reporters : Reporter(r)
           \/ UNCHANGED diagnosticsVars
<1>1. EmptyOutput \/ EmptyDiagnostics \/ Emptied \/ NotEmptied \/ LayoutFails
        => UNCHANGED <<reporterVars, barrierVars, temp>>
  BY DEF EmptyOutput, EmptyDiagnostics, Emptied, NotEmptied, LayoutFails, Goes
<1>2. ASSUME NEW r \in Reporters, Reporter(r) PROVE Mains
  BY <1>2 DEF Reporter, NewReporter, DropReporter, StartReport, EndReport, ReportPanics,
              StartToolRun, CreateRunDir, CreateMessages, StartToolRunFails
<1>3. DropCollector => Mains /\ UNCHANGED reporterVars
  BY DEF DropCollector
<1>4. ASSUME NEW b \in Barriers, Wait(b) \/ Received(b) PROVE Mains /\ UNCHANGED reporterVars
  BY <1>4 DEF Wait, Received
<1>5. ASSUME NEW b \in RunIds, NewRunHandle(b) \/ DropRunHandle(b) \/ DropJoiner(b)
      PROVE  Mains /\ UNCHANGED reporterVars
  BY <1>5 DEF NewRunHandle, DropRunHandle, DropJoiner
<1> QED
  BY <1>1, <1>2, <1>3, <1>4, <1>5 DEF DiagnosticsNext, Over
----------------------------------------------------------------------------
(* The directories *)

(* A step of empty_writable_dir on one directory leaves the others alone, and
   says Ok of an empty directory only. *)
LEMMA EmptyDirFacts ==
    ASSUME MainTypes, Verdicts, NEW d \in Dirs, EmptyWritableDir(d)
    PROVE  /\ EmptyDirTypeOK'
           /\ entries' \in [Dirs -> SUBSET Names] /\ unread' \in [Dirs -> SUBSET Names]
           /\ force' = force
           /\ \A e \in Dirs \ {d} : /\ verdict'[e] = verdict[e] /\ place'[e] = place[e]
                                    /\ entries'[e] = entries[e] /\ unread'[e] = unread[e]
           /\ verdict[d] \in {"none", "reading"}
           /\ verdict'[d] = "reading" => place'[d] = "directory" /\ entries'[d] = unread'[d]
           /\ verdict'[d] = "Ok" => place'[d] = "directory" /\ entries'[d] = {}
<1> USE DEF MainTypes, EmptyDirTypeOK
<1>1. CASE CreateMissing(d)
  BY <1>1 DEF CreateMissing, Answer
<1>2. CASE ReadDirFails(d)
  BY <1>2 DEF ReadDirFails, Answer
<1>3. CASE ReadDir(d)
  BY <1>3 DEF ReadDir, Answer
<1>4. CASE Refuse(d)
  BY <1>4 DEF Refuse, Answer, InLoop
<1>5. CASE Remove(d)
  <2>1. PICK x \in unread[d] : /\ unread' = [unread EXCEPT ![d] = @ \ {x}]
                               /\ entries' = [entries EXCEPT ![d] = @ \ {x}]
    BY <1>5 DEF Remove
  <2>2. verdict[d] = "reading" /\ UNCHANGED <<force, place, readonly, verdict>>
        /\ place[d] = "directory" /\ entries[d] = unread[d]
    BY <1>5 DEF Remove, InLoop, Verdicts
  <2> QED
    BY <2>1, <2>2
<1>6. CASE RemoveFails(d)
  BY <1>6 DEF RemoveFails, Answer, InLoop
<1>7. CASE CheckWritable(d)
  <2>1. /\ verdict' = [verdict EXCEPT ![d] = IF d \in readonly THEN "NotWritable" ELSE "Ok"]
        /\ verdict[d] = "reading" /\ unread[d] = {} /\ UNCHANGED <<force, place, entries, readonly, unread>>
    BY <1>7 DEF CheckWritable, LoopIsOver, Answer
  <2>2. place[d] = "directory" /\ entries[d] = {}
    BY <2>1 DEF Verdicts
  <2> QED
    BY <2>1, <2>2
<1>8. CASE MetadataFails(d)
  BY <1>8 DEF MetadataFails, Answer
<1> QED
  BY <1>1, <1>2, <1>3, <1>4, <1>5, <1>6, <1>7, <1>8 DEF EmptyWritableDir


(* What the main thread has read and removed stays as it said, and is what
   MakeLayout finds. *)
LEMMA MainPreserved ==
    ASSUME MainTypes, Verdicts, [DiagnosticsNext]_diagnosticsVars
    PROVE  MainTypes' /\ Verdicts'
<1> USE DEF EmptyDirTypeOK
<1> "output" \in Dirs /\ "diagnostics" \in Dirs
  BY DiagnosticsAssumption
<1>1. CASE EmptyOutput
  <2>1. main = "output" /\ EmptyWritableDir("output") /\ UNCHANGED <<main, temp>>
    BY <1>1 DEF EmptyOutput
  <2>2. MainTypes'
    BY <2>1, EmptyDirFacts DEF MainTypes
  <2>3. Verdicts'
    BY <2>1, EmptyDirFacts DEF Verdicts
  <2> QED
    BY <2>2, <2>3
<1>2. CASE EmptyDiagnostics
  <2>1. main = "diagnostics" /\ EmptyWritableDir("diagnostics") /\ UNCHANGED <<main, temp>>
    BY <1>2 DEF EmptyDiagnostics
  <2>2. MainTypes'
    BY <2>1, EmptyDirFacts DEF MainTypes
  <2>3. Verdicts'
    BY <2>1, EmptyDirFacts DEF Verdicts
  <2> QED
    BY <2>2, <2>3
<1>3. CASE Emptied
  BY <1>3 DEF Emptied, Goes, MainTypes, Verdicts
<1>4. CASE NotEmptied
  BY <1>4 DEF NotEmptied, Goes, MainTypes, Verdicts
<1>5. CASE MakeLayout \/ LayoutFails
  <2>1. PICK names \in SUBSET Layout :
            /\ main = "layout" /\ main' \in {"made", "failed"}
            /\ UNCHANGED <<force, place, readonly, unread, verdict, temp>>
            /\ entries' = [entries EXCEPT !["diagnostics"] = @ \cup names]
            /\ temp => names = {}
            /\ main' = "made" /\ ~temp => names = Layout
    <3>1. CASE MakeLayout
      BY <3>1 DEF MakeLayout, Goes, Put
    <3>2. CASE LayoutFails
      <4>1. PICK made \in {{}, {"ir"}, {"ir", "steps"}, Layout} : Put(IF temp THEN {} ELSE made)
        BY <3>2 DEF LayoutFails
      <4>2. (IF temp THEN {} ELSE made) \in SUBSET Layout
        BY DEF Layout
      <4> QED
        BY <3>2, <4>1, <4>2 DEF LayoutFails, Goes, Put
    <3> QED
      BY <1>5, <3>1, <3>2
  <2>2. ~temp => verdict["diagnostics"] = "Ok" /\ place["diagnostics"] = "directory"
                 /\ entries["diagnostics"] = {}
    BY <2>1 DEF Verdicts
  <2>3. /\ entries' \in [Dirs -> SUBSET Names]
        /\ temp => entries' = entries
        /\ ~temp => entries'["diagnostics"] = names
        /\ \A d \in Dirs \ {"diagnostics"} : entries'[d] = entries[d]
    BY <2>1, <2>2 DEF MainTypes, Names
  <2>4. MainTypes'
    <3>1. \A d \in Dirs : /\ place'[d] # "directory" => entries'[d] = {}
                          /\ unread'[d] \subseteq entries'[d]
      BY <2>1, <2>2, <2>3 DEF MainTypes
    <3> QED
      BY <2>1, <2>3, <3>1 DEF MainTypes
  <2>5. Verdicts'
    BY <2>1, <2>2, <2>3 DEF Verdicts
  <2> QED
    BY <2>4, <2>5
<1>6. CASE Mains
  BY <1>6 DEF Mains, emptyDirVars, MainTypes, Verdicts
<1>7. CASE UNCHANGED diagnosticsVars
  BY <1>7 DEF diagnosticsVars, emptyDirVars, MainTypes, Verdicts
<1> QED
  BY Steps, <1>1, <1>2, <1>3, <1>4, <1>5, <1>6, <1>7
----------------------------------------------------------------------------
(* The barriers *)

(* The set of the reporters that are not gone is finite, and empty when it
   counts to nothing. *)
LEMMA LoggedInFacts ==
    /\ IsFiniteSet(LoggedIn) /\ Cardinality(LoggedIn) \in Nat
    /\ Cardinality(LoggedIn) = 0 <=> LoggedIn = {}
<1>1. LoggedIn \in SUBSET Reporters /\ IsFiniteSet(Reporters)
  BY DiagnosticsAssumption DEF LoggedIn
<1>2. IsFiniteSet(LoggedIn)
  BY <1>1, FS_Subset
<1> QED
  BY <1>2, FS_CardinalityType, FS_EmptySet

(* Who has or makes a reporter finds a handle. *)
LEMMA HandleOfReporter ==
    ASSUME BarrierTypes, SharedCounted,
           waiter[Shared] = "holding" \/ \E r \in Reporters : at[r] # "gone"
    PROVE  handles[Shared] > 0
<1>1. handles[Shared] \in Nat
  BY RunIdFacts DEF BarrierTypes
<1> QED
  BY <1>1, LoggedInFacts DEF SharedCounted, LoggedIn

(* What a step does to the handles, the parties and the messages. *)
Sent(b) == signals' = signals \cup IF Last(b) /\ waiter[b] # "left" THEN {b} ELSE {}

(* One step of the barrier b, with its messages. *)
BarrierStep(b) ==
    \/ AllBarriers!Open(b) /\ UNCHANGED signals
    \/ AllBarriers!Clone(b) /\ UNCHANGED signals
    \/ AllBarriers!DropOne(b) /\ UNCHANGED waiter /\ Sent(b)
    \/ AllBarriers!Wait(b) /\ Sent(b)
    \/ AllBarriers!Pass(b) /\ signals' = signals \ {b}
    \/ AllBarriers!Leave(b) /\ (signals' = signals \ {b} \/ UNCHANGED signals)

(* Every step is one of a barrier, or leaves all of them alone. *)
LEMMA BarrierSteps ==
    ASSUME IInv, [DiagnosticsNext]_diagnosticsVars
    PROVE  UNCHANGED barrierVars \/ \E b \in Barriers : BarrierStep(b)
<1> USE RunIdFacts DEF BarrierStep, Sent, barrierVars, AllBarriers!Open, AllBarriers!Clone,
        AllBarriers!DropOne, AllBarriers!Wait, AllBarriers!Pass, AllBarriers!Leave,
        AllBarriers!Party
<1>t. BarrierTypes /\ SharedCounted /\ Quiet
  BY DEF IInv
<1>1. CASE MakeLayout
  <2>1. waiter[Shared] = "away"
    BY <1>1 DEF MakeLayout, IInv, ReportersLive
  <2> QED
    BY <1>1, <2>1 DEF MakeLayout
<1>2. CASE DropCollector
  BY <1>2, <1>t, HandleOfReporter DEF DropCollector
<1>3. ASSUME NEW b \in Barriers, Wait(b) \/ Received(b) PROVE BarrierStep(b)
  BY <1>3, <1>t DEF Wait, Received, Release, Quiet
<1>4. ASSUME NEW b \in RunIds, NewRunHandle(b) \/ DropRunHandle(b) \/ DropJoiner(b)
      PROVE  BarrierStep(b)
  BY <1>4, <1>t DEF NewRunHandle, DropRunHandle, DropJoiner, Release, BarrierTypes
<1>5. ASSUME NEW r \in Reporters, Reporter(r)
      PROVE  UNCHANGED barrierVars \/ \E b \in Barriers : BarrierStep(b)
  <2>1. CASE NewReporter(r)
    <3>1. waiter[Shared] = "holding" \/ \E s \in Reporters : at[s] # "gone"
      BY <2>1 DEF NewReporter
    <3> QED
      BY <2>1, <3>1, <1>t, HandleOfReporter DEF NewReporter
  <2>2. CASE DropReporter(r) \/ ReportPanics(r)
    <3>1. at[r] # "gone" /\ Release(Shared) /\ UNCHANGED waiter
      BY <2>2 DEF DropReporter, ReportPanics
    <3> QED
      BY <3>1, <1>t, HandleOfReporter DEF Release
  <2>3. CASE CreateMessages(r)
    <3>1. starting[r] \in RunIds /\ waiter[starting[r]] = "away"
      BY <2>3 DEF CreateMessages, IInv, Numbered
    <3> QED
      BY <2>3, <3>1 DEF CreateMessages
  <2> QED
    BY <1>5, <2>1, <2>2, <2>3 DEF Reporter, StartReport, EndReport, StartToolRun, CreateRunDir,
       StartToolRunFails
<1> QED
  BY Steps, <1>1, <1>2, <1>3, <1>4, <1>5 DEF diagnosticsVars

(* A message means that no handle is left, and what has not come up has
   neither. *)
LEMMA BarriersPreserved ==
    ASSUME IInv, [DiagnosticsNext]_diagnosticsVars
    PROVE  BarrierTypes' /\ Quiet'
<1> USE DEF BarrierTypes, Quiet, Waiters
<1>t. BarrierTypes /\ Quiet
  BY DEF IInv
<1>1. CASE UNCHANGED barrierVars
  BY <1>1, <1>t DEF barrierVars
<1>2. ASSUME NEW b \in Barriers, BarrierStep(b) PROVE BarrierTypes' /\ Quiet'
  <2> USE DEF Sent, Last, AllBarriers!DropOne, AllBarriers!Party
  <2>1. CASE AllBarriers!Open(b) /\ UNCHANGED signals
    BY <1>t, <2>1 DEF AllBarriers!Open
  <2>2. CASE AllBarriers!Clone(b) /\ UNCHANGED signals
    BY <1>t, <2>2 DEF AllBarriers!Clone
  <2>3. CASE AllBarriers!DropOne(b) /\ UNCHANGED waiter /\ Sent(b)
    BY <1>t, <2>3
  <2>4. CASE AllBarriers!Wait(b) /\ Sent(b)
    BY <1>t, <2>4 DEF AllBarriers!Wait
  <2>5. CASE AllBarriers!Pass(b) /\ signals' = signals \ {b}
    BY <1>t, <2>5 DEF AllBarriers!Pass
  <2>6. CASE AllBarriers!Leave(b) /\ (signals' = signals \ {b} \/ UNCHANGED signals)
    BY <1>t, <2>6 DEF AllBarriers!Leave
  <2> QED
    BY <1>2, <2>1, <2>2, <2>3, <2>4, <2>5, <2>6 DEF BarrierStep
<1> QED
  BY <1>1, <1>2, BarrierSteps

(* The reporters log in and out with the Collector's handle count. *)
LEMMA ReportersPreserved ==
    ASSUME IInv, [DiagnosticsNext]_diagnosticsVars
    PROVE  SharedCounted' /\ ReportersLive'
<1> USE RunIdFacts, LoggedInFacts
<1>t. /\ BarrierTypes /\ ReporterTypes /\ SharedCounted /\ ReportersLive /\ Quiet
      /\ handles[Shared] \in Nat
  BY DEF IInv, BarrierTypes
<1>1. CASE UNCHANGED <<reporterVars, barrierVars, temp>>
           /\ (EmptyOutput \/ EmptyDiagnostics \/ Emptied \/ NotEmptied \/ LayoutFails)
  <2>1. main # "made" /\ UNCHANGED <<at, handles, waiter>> /\ LoggedIn' = LoggedIn
    BY <1>1 DEF EmptyOutput, EmptyDiagnostics, Emptied, NotEmptied, LayoutFails, reporterVars,
       barrierVars, LoggedIn
  <2> QED
    BY <1>t, <2>1 DEF SharedCounted, ReportersLive
<1>2. CASE MakeLayout
  <2>1. /\ waiter[Shared] = "away" /\ LoggedIn = {} /\ LoggedIn' = LoggedIn
        /\ handles'[Shared] = 1 /\ waiter'[Shared] = "holding" /\ main' = "made"
    BY <1>2, <1>t DEF MakeLayout, Goes, reporterVars, LoggedIn, ReportersLive, BarrierTypes
  <2> QED
    BY <1>t, <2>1 DEF SharedCounted, ReportersLive
<1>3. ASSUME Mains, UNCHANGED reporterVars,
             \/ DropCollector
             \/ \E b \in Barriers : Wait(b) \/ Received(b)
             \/ \E b \in RunIds : NewRunHandle(b) \/ DropRunHandle(b) \/ DropJoiner(b)
      PROVE  SharedCounted' /\ ReportersLive'
  <2>1. main' = main /\ LoggedIn' = LoggedIn
    BY <1>3 DEF Mains, reporterVars, LoggedIn
  <2>2. CASE /\ waiter[Shared] = "holding" /\ waiter'[Shared] \in {"waiting", "left"}
             /\ handles'[Shared] = handles[Shared] - 1
    BY <1>t, <2>1, <2>2 DEF SharedCounted, ReportersLive
  <2>3. CASE handles'[Shared] = handles[Shared] /\ waiter'[Shared] = waiter[Shared]
    BY <1>t, <2>1, <2>3 DEF SharedCounted, ReportersLive
  <2>4. CASE Received(Shared)
    <3>1. /\ handles[Shared] = 0 /\ handles' = handles
          /\ waiter[Shared] = "waiting" /\ waiter'[Shared] = "through"
      BY <1>t, <2>4 DEF Received, Quiet, BarrierTypes
    <3>2. LoggedIn = {}
      BY <1>t, <3>1 DEF SharedCounted
    <3> QED
      BY <1>t, <2>1, <3>1, <3>2 DEF SharedCounted, ReportersLive
  <2>5. CASE DropCollector \/ Wait(Shared)
    BY <1>t, <2>5, <2>2 DEF DropCollector, Wait, Release, BarrierTypes
  <2>6. ASSUME NEW b \in Barriers \ {Shared},
               \/ Wait(b) \/ Received(b) \/ NewRunHandle(b)
               \/ DropRunHandle(b) \/ DropJoiner(b)
        PROVE  handles'[Shared] = handles[Shared] /\ waiter'[Shared] = waiter[Shared]
    BY <1>t, <2>6 DEF Wait, Received, NewRunHandle, DropRunHandle, DropJoiner, Release, BarrierTypes
  <2> QED
    BY <1>3, <2>3, <2>4, <2>5, <2>6
<1>4. ASSUME Mains, NEW r \in Reporters, Reporter(r) PROVE SharedCounted' /\ ReportersLive'
  <2>1. main' = main
    BY <1>4 DEF Mains
  <2>2. CASE NewReporter(r)
    <3>1. LoggedIn' = LoggedIn \cup {r} /\ r \notin LoggedIn
      BY <1>t, <2>2 DEF NewReporter, LoggedIn, ReporterTypes
    <3>2. Cardinality(LoggedIn') = Cardinality(LoggedIn) + 1
      BY <3>1, FS_AddElement
    <3>3. waiter' = waiter /\ handles'[Shared] = handles[Shared] + 1
      BY <1>t, <2>2 DEF NewReporter, BarrierTypes
    <3>4. waiter[Shared] \notin {"away", "through"}
      BY <1>t, <2>2 DEF NewReporter, ReportersLive, LoggedIn
    <3> QED
      BY <1>t, <2>1, <3>2, <3>3, <3>4 DEF SharedCounted, ReportersLive
  <2>3. CASE DropReporter(r) \/ ReportPanics(r)
    <3>1. LoggedIn' = LoggedIn \ {r} /\ r \in LoggedIn
      BY <1>t, <2>3 DEF DropReporter, ReportPanics, LoggedIn, ReporterTypes
    <3>2. Cardinality(LoggedIn') = Cardinality(LoggedIn) - 1
      BY <3>1, FS_RemoveElement
    <3>3. waiter' = waiter /\ handles'[Shared] = handles[Shared] - 1
      BY <1>t, <2>3 DEF DropReporter, ReportPanics, Release, BarrierTypes
    <3>4. waiter[Shared] \notin {"away", "through"}
      BY <1>t, <3>1 DEF ReportersLive
    <3> QED
      BY <1>t, <2>1, <3>2, <3>3, <3>4 DEF SharedCounted, ReportersLive
  <2>4. CASE /\ \E from, to \in {"idle"} \cup Locked :
                    at[r] = from /\ at' = [at EXCEPT ![r] = to]
             /\ handles'[Shared] = handles[Shared] /\ waiter'[Shared] = waiter[Shared]
    <3>1. LoggedIn' = LoggedIn
      BY <1>t, <2>4 DEF LoggedIn, Locked, ReporterTypes
    <3> QED
      BY <1>t, <2>1, <2>4, <3>1 DEF SharedCounted, ReportersLive
  <2>5. CASE CreateMessages(r)
    <3>1. starting[r] \in RunIds
      BY <2>5 DEF CreateMessages, IInv, Numbered
    <3> QED
      BY <1>t, <2>4, <2>5, <3>1 DEF CreateMessages, BarrierTypes, Locked
  <2>6. CASE \/ StartReport(r) \/ EndReport(r) \/ CreateRunDir(r) \/ StartToolRunFails(r)
             \/ \E tool \in DOMAIN MaxRuns : StartToolRun(r, tool)
    BY <2>4, <2>6 DEF StartReport, EndReport, CreateRunDir, StartToolRunFails, StartToolRun,
       barrierVars, Locked
  <2> QED
    BY <1>4, <2>2, <2>3, <2>5, <2>6 DEF Reporter
<1>5. CASE UNCHANGED diagnosticsVars
  <2>1. UNCHANGED <<main, at, handles, waiter>> /\ LoggedIn' = LoggedIn
    BY <1>5 DEF diagnosticsVars, LoggedIn
  <2> QED
    BY <1>t, <2>1 DEF SharedCounted, ReportersLive
<1> QED
  BY Steps, <1>1, <1>2, <1>3, <1>4, <1>5
----------------------------------------------------------------------------
(* The lock and the numbers of the runs *)

(* Locks are taken when they are free, and numbers are given out under the
   lock, above all that were. *)
LEMMA NumbersPreserved ==
    ASSUME IInv, [DiagnosticsNext]_diagnosticsVars
    PROVE  ReporterTypes' /\ OneInLock' /\ Numbered'
<1> USE RunIdFacts DEF Locked
<1>t. ReporterTypes /\ BarrierTypes /\ OneInLock /\ Numbered /\ ReportersLive
  BY DEF IInv
<1>1. ASSUME UNCHANGED reporterVars,
             \A b \in RunIds : waiter'[b] # waiter[b] => waiter[b] # "away" /\ waiter'[b] # "away"
      PROVE  ReporterTypes' /\ OneInLock' /\ Numbered'
  <2>1. UNCHANGED <<at, starting, counts, steps>>
    BY <1>1 DEF reporterVars
  <2>2. ReporterTypes' /\ OneInLock'
    BY <1>t, <2>1 DEF ReporterTypes, OneInLock
  <2>3. Numbered'
    BY <1>t, <1>1, <2>1 DEF Numbered
  <2> QED
    BY <2>2, <2>3
<1>2. CASE UNCHANGED <<reporterVars, barrierVars, temp>> \/ UNCHANGED diagnosticsVars
  BY <1>1, <1>2 DEF barrierVars, diagnosticsVars, reporterVars
<1>3. CASE MakeLayout
  BY <1>t, <1>1, <1>3 DEF MakeLayout, Goes, BarrierTypes
<1>4. ASSUME UNCHANGED reporterVars,
             \/ DropCollector
             \/ \E b \in Barriers : Wait(b) \/ Received(b)
             \/ \E b \in RunIds : NewRunHandle(b) \/ DropRunHandle(b) \/ DropJoiner(b)
      PROVE  ReporterTypes' /\ OneInLock' /\ Numbered'
  BY <1>t, <1>1, <1>4 DEF DropCollector, Wait, Received, NewRunHandle, DropRunHandle, DropJoiner,
     BarrierTypes
<1>5. ASSUME NEW r \in Reporters, Reporter(r)
      PROVE  ReporterTypes' /\ OneInLock' /\ Numbered'
  <2>1. ASSUME UNCHANGED <<starting, counts, steps, waiter>>,
               NEW to \in {"gone", "idle", "report"}, at' = [at EXCEPT ![r] = to],
               to = "report" => Free
        PROVE  ReporterTypes' /\ OneInLock' /\ Numbered'
    <3>1. ReporterTypes'
      BY <1>t, <2>1 DEF ReporterTypes
    <3>2. OneInLock'
      BY <1>t, <2>1 DEF ReporterTypes, OneInLock, Free
    <3>3. \A s \in Reporters : at'[s] \in {"run_dir", "run_messages"} => at'[s] = at[s]
      BY <1>t, <2>1 DEF ReporterTypes
    <3>4. Numbered'
      BY <1>t, <2>1, <3>3 DEF Numbered
    <3> QED
      BY <3>1, <3>2, <3>4
  <2>2. CASE NewReporter(r) \/ DropReporter(r) \/ StartReport(r) \/ EndReport(r) \/ ReportPanics(r)
    BY <2>1, <2>2 DEF NewReporter, DropReporter, StartReport, EndReport, ReportPanics, barrierVars
  <2>3. ASSUME NEW tool \in DOMAIN MaxRuns, StartToolRun(r, tool)
        PROVE  ReporterTypes' /\ OneInLock' /\ Numbered'
    <3> DEFINE b == <<tool, counts[tool] + 1>>
    <3>1. /\ at' = [at EXCEPT ![r] = "run_dir"] /\ UNCHANGED <<steps, waiter>>
          /\ starting' = [starting EXCEPT ![r] = b]
          /\ counts' = [counts EXCEPT ![tool] = counts[tool] + 1]
          /\ counts[tool] + 1 <= MaxRuns[tool]
          /\ \A s \in Reporters : at[s] \notin Locked
      BY <2>3 DEF StartToolRun, Number, barrierVars, Free
    <3>2. counts[tool] \in Nat /\ b \in RunIds /\ b[1] = tool /\ b[2] = counts[tool] + 1
      BY <1>t, <3>1 DEF ReporterTypes
    <3> HIDE DEF b
    <3>3. ReporterTypes'
      BY <1>t, <3>1, <3>2 DEF ReporterTypes
    <3>4. OneInLock'
      BY <1>t, <3>1 DEF ReporterTypes, OneInLock
    <3>5. b \notin steps /\ waiter[b] = "away"
      BY <1>t, <3>2 DEF Numbered
    <3>6. \A c \in steps : c[2] <= counts'[c[1]]
      <4> TAKE c \in steps
      <4>1. c \in RunIds /\ c[1] \in DOMAIN MaxRuns /\ c[2] \in Nat
        BY <1>t DEF ReporterTypes
      <4>2. c[2] <= counts[c[1]] /\ counts[c[1]] \in Nat /\ counts'[c[1]] >= counts[c[1]]
        BY <1>t, <3>1, <3>2, <4>1 DEF Numbered, ReporterTypes
      <4>3. counts'[c[1]] \in Nat
        BY <3>3, <4>1 DEF ReporterTypes
      <4> QED
        BY <4>1, <4>2, <4>3
    <3>7. \A s \in Reporters : at'[s] \in {"run_dir", "run_messages"} => s = r
      BY <1>t, <3>1 DEF ReporterTypes
    <3>8. /\ at'[r] = "run_dir" /\ starting'[r] = b /\ starting'[r][2] <= counts'[starting'[r][1]]
      BY <1>t, <3>1, <3>2 DEF ReporterTypes
    <3>9. Numbered'
      BY <1>t, <3>1, <3>2, <3>5, <3>6, <3>7, <3>8 DEF Numbered
    <3> QED
      BY <3>3, <3>4, <3>9
  <2>4. CASE CreateRunDir(r) \/ CreateMessages(r) \/ StartToolRunFails(r)
    <3>1. at[r] \in {"run_dir", "run_messages"} /\ UNCHANGED counts
      BY <2>4 DEF CreateRunDir, CreateMessages, StartToolRunFails
    <3>2. \A s \in Reporters \ {r} : at[s] \notin Locked
      BY <1>t, <3>1 DEF OneInLock
    <3>3. /\ starting[r] \in RunIds /\ starting[r][2] <= counts[starting[r][1]]
          /\ waiter[starting[r]] = "away"
          /\ at[r] = "run_messages" => starting[r] \in steps
      BY <1>t, <3>1 DEF Numbered
    <3>4. CASE CreateRunDir(r)
      <4>1. /\ steps' = steps \cup {starting[r]} /\ UNCHANGED <<starting, waiter>>
            /\ at' = [at EXCEPT ![r] = "run_messages"]
        BY <3>4 DEF CreateRunDir, barrierVars
      <4>2. ReporterTypes' /\ OneInLock'
        BY <1>t, <3>1, <3>2, <3>3, <4>1 DEF ReporterTypes, OneInLock
      <4>3. Numbered'
        BY <1>t, <3>1, <3>2, <3>3, <4>1 DEF ReporterTypes, Numbered
      <4> QED
        BY <4>2, <4>3
    <3>5. CASE CreateMessages(r) \/ StartToolRunFails(r)
      <4>1. /\ starting' = [starting EXCEPT ![r] = Shared] /\ UNCHANGED steps
            /\ at' = [at EXCEPT ![r] = "idle"]
            /\ \A c \in Barriers : waiter'[c] # waiter[c] =>
                                    c = starting[r] /\ at[r] = "run_messages"
        BY <1>t, <3>5 DEF CreateMessages, StartToolRunFails, barrierVars, BarrierTypes
      <4>2. ReporterTypes' /\ OneInLock'
        BY <1>t, <3>1, <3>2, <4>1 DEF ReporterTypes, OneInLock
      <4>3. Numbered'
        BY <1>t, <3>1, <3>2, <3>3, <4>1 DEF ReporterTypes, Numbered
      <4> QED
        BY <4>2, <4>3
    <3> QED
      BY <2>4, <3>4, <3>5
  <2> QED
    BY <1>5, <2>2, <2>3, <2>4 DEF Reporter
<1> QED
  BY Steps, <1>2, <1>3, <1>4, <1>5
----------------------------------------------------------------------------
(* Nothing is read, nobody has a handle, no number is given out. *)
LEMMA Initially == DiagnosticsInit => IInv
<1> SUFFICES ASSUME DiagnosticsInit PROVE IInv
  OBVIOUS
<1> USE DEF DiagnosticsInit, EmptyDirInit
<1>1. MainTypes /\ Verdicts
  BY DEF MainTypes, Verdicts, EmptyDirTypeOK, Names
<1>2. ReporterTypes
  BY RunIdFacts, DiagnosticsAssumption DEF ReporterTypes
<1>3. LoggedIn = {} /\ BarrierTypes
  BY DEF LoggedIn, BarrierTypes, Waiters
<1>4. OneInLock /\ ReportersLive /\ Quiet /\ Numbered
  BY <1>3, RunIdFacts DEF OneInLock, Locked, ReportersLive, Quiet, Numbered
<1>5. SharedCounted
  BY <1>3, RunIdFacts, LoggedInFacts DEF SharedCounted
<1> QED
  BY <1>1, <1>2, <1>3, <1>4, <1>5 DEF IInv

(* The conjunction holds in every state. *)
THEOREM Inductive == DiagnosticsSpec => []IInv
<1>1. IInv /\ [DiagnosticsNext]_diagnosticsVars => IInv'
  <2> SUFFICES ASSUME IInv, [DiagnosticsNext]_diagnosticsVars PROVE IInv'
    OBVIOUS
  <2>1. MainTypes' /\ Verdicts'
    BY MainPreserved DEF IInv
  <2> QED
    BY <2>1, BarriersPreserved, ReportersPreserved, NumbersPreserved DEF IInv
<1> QED
  BY Initially, <1>1, PTL DEF DiagnosticsSpec

(* The types, with at most one thread in the lock and the Collector's handles
   counted (shared.rs, mod.rs). *)
THEOREM TypeCorrect == DiagnosticsSpec => []DiagnosticsTypeOK
<1>1. IInv => DiagnosticsTypeOK
  <2> SUFFICES ASSUME IInv PROVE DiagnosticsTypeOK
    OBVIOUS
  <2> DEFINE Holders == {r \in Reporters : at[r] \in Locked}
  <2>1. IsFiniteSet(Holders)
    BY FS_Subset, DiagnosticsAssumption
  <2>2. Cardinality(Holders) <= 1
    <3>1. CASE Holders = {}
      BY <3>1, FS_EmptySet
    <3>2. CASE Holders # {}
      <4>1. PICK r \in Holders : TRUE
        BY <3>2
      <4>2. Holders = {r}
        BY <4>1 DEF IInv, OneInLock
      <4>3. Cardinality({r}) = 1
        BY FS_Singleton
      <4> QED
        BY <4>2, <4>3
    <3> QED
      BY <3>1, <3>2
  <2>3. handles[Shared] = Cardinality({r \in Reporters : at[r] # "gone"})
                          + IF waiter[Shared] = "holding" THEN 1 ELSE 0
    BY DEF IInv, SharedCounted, LoggedIn
  <2>4. \A tool \in DOMAIN MaxRuns : counts[tool] \in 0 .. MaxRuns[tool]
    BY DiagnosticsAssumption DEF IInv, ReporterTypes
  <2> QED
    BY <2>2, <2>3, <2>4 DEF DiagnosticsTypeOK, IInv, MainTypes, ReporterTypes, BarrierTypes
<1> QED
  BY Inductive, <1>1, PTL

(* No run finds its own directory already there, whatever earlier runs of the
   tool have failed half way, and the directory it goes into is still there
   (tool_reporter.rs). *)
THEOREM RunDirsFresh == DiagnosticsSpec => []NothingInTheWay
<1>1. IInv => NothingInTheWay
  <2> SUFFICES ASSUME IInv, NEW r \in Reporters, at[r] \in {"run_dir", "run_messages"}
               PROVE  /\ at[r] = "run_dir" => starting[r] \notin steps
                      /\ DirIsThere \/ waiter[Shared] = "left"
    BY DEF NothingInTheWay
  <2>1. at[r] = "run_dir" => starting[r] \notin steps
    BY DEF IInv, Numbered
  <2>2. waiter[Shared] \in Waiters \ {"away", "through"}
    BY RunIdFacts DEF IInv, BarrierTypes, ReportersLive, LoggedIn
  <2> QED
    BY <2>1, <2>2 DEF DirIsThere, Waiters
<1> QED
  BY Inductive, <1>1, PTL

(* The binary starts transpile in directories that hold nothing of an earlier
   run (util.rs, main.rs). *)
THEOREM FreshStart == DiagnosticsSpec => []StartsFromNothing
<1>1. IInv => StartsFromNothing
  BY DiagnosticsAssumption DEF IInv, Verdicts, StartsFromNothing
<1> QED
  BY Inductive, <1>1, PTL

(* Without force no step deletes what an earlier run has left, and a file at
   the path itself stays whatever the options are (util.rs:121). *)
THEOREM NothingIsLost == DiagnosticsSpec => KeptWithoutForce
<1> DEFINE Kept == \A d \in Dirs :
                      /\ ~force => entries[d] \cap Leftovers \subseteq entries'[d]
                      /\ place[d] = "file" => place'[d] = "file"
<1>1. IInv /\ [DiagnosticsNext]_diagnosticsVars => [Kept]_emptyDirVars
  <2> SUFFICES ASSUME IInv, [DiagnosticsNext]_diagnosticsVars PROVE Kept \/ UNCHANGED emptyDirVars
    OBVIOUS
  <2>t. entries \in [Dirs -> SUBSET Names] /\ place \in [Dirs -> {"nothing", "file", "directory"}]
    BY DEF IInv, MainTypes, EmptyDirTypeOK
  <2>1. ASSUME NEW d \in Dirs, EmptyWritableDir(d) PROVE Kept
    BY <2>t, <2>1 DEF EmptyWritableDir, CreateMissing, ReadDirFails, ReadDir, Refuse, Remove,
       MayRemove, RemoveFails, CheckWritable, MetadataFails, Answer
  <2>2. CASE EmptyOutput \/ EmptyDiagnostics
    BY <2>1, <2>2, DiagnosticsAssumption DEF EmptyOutput, EmptyDiagnostics
  <2>3. CASE Emptied \/ NotEmptied
    BY <2>3 DEF Emptied, NotEmptied, Goes
  <2>4. CASE MakeLayout \/ LayoutFails
    BY <2>t, <2>4 DEF MakeLayout, LayoutFails, Goes, Put
  <2> QED
    BY Steps, <2>2, <2>3, <2>4 DEF Mains, diagnosticsVars
<1> QED
  BY Inductive, <1>1, PTL DEF DiagnosticsSpec, KeptWithoutForce

(* The Collector and every ToolJoiner return only when all other handles are
   gone: what Barrier says, but for its fairness (mod.rs:122,
   tool_reporter.rs:159). *)
THEOREM BarriersKept == DiagnosticsSpec => AllBarriers!Safety
<1>1. DiagnosticsInit => AllBarriers!Init
  BY DEF DiagnosticsInit, AllBarriers!Init
<1>2. IInv /\ [DiagnosticsNext]_diagnosticsVars => [AllBarriers!Next]_AllBarriers!vars
  <2> SUFFICES ASSUME IInv, [DiagnosticsNext]_diagnosticsVars
               PROVE  [AllBarriers!Next]_AllBarriers!vars
    OBVIOUS
  <2>1. CASE UNCHANGED barrierVars
    BY <2>1 DEF barrierVars, AllBarriers!vars
  <2>2. ASSUME NEW b \in Barriers, BarrierStep(b) PROVE AllBarriers!Next
    BY <2>2 DEF BarrierStep, AllBarriers!Next
  <2> QED
    BY BarrierSteps, <2>1, <2>2
<1> QED
  BY Inductive, <1>1, <1>2, PTL DEF DiagnosticsSpec, AllBarriers!Safety
=============================================================================
