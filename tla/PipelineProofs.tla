--------------------------- MODULE PipelineProofs ---------------------------
(* The four tools of transpile: every step of Pipeline is one of Transpile,
   so what is proved there of any tools holds of these, and each of the four
   has what it needs, runs alone, and leaves at most one representation of
   its type, whatever fails. *)
EXTENDS Pipeline, TranspileProofs

(* The type of what tool t writes. *)
Yields(t) ==
    CASE t = LoadRawSource -> RawSource
      [] t = IdentifyProjectKind -> ProjectKind
      [] t = RawSourceToCargoLlm -> CargoPackage
      [] t = TryCargoBuild -> CargoBuildResult

(* S has no two elements. *)
AtMostOne(S) == \A i, j \in S : i = j

(* A tool writes one representation, of its own type, under a new id. *)
WritesOne ==
    \A t \in Tools :
        /\ \A i \in Contents(written[t]) : written[t][i] \in Yields(t)
        /\ AtMostOne(Contents(written[t]))

(* What the IR has of a type is from the tool that yields it, and from no
   other run; nobody leases an id. *)
OneWriter ==
    /\ in_use = {}
    /\ \A t \in Tools :
            /\ OfType(ir, Yields(t)) # {} => stage[t] = "applied"
            /\ AtMostOne(OfType(ir, Yields(t)))

(* Of a run that returns Ok there is something to find, unless it is the one
   that looks for the project's kind. *)
Leaves ==
    \A t \in Tools \ {IdentifyProjectKind} :
        /\ stage[t] \in {"ok", "sent_ok"} => Contents(written[t]) # {}
        /\ stage[t] = "applied" => OfType(ir, Yields(t)) # {}

(* Nothing that a snapshot holds ever changes in the IR. *)
Extends(m) == \A i \in Contents(m) : ir[i] = m[i]

(* No snapshot in use has gone stale. *)
Grows == Extends(snapshot) /\ \A t \in Tools : Extends(snap[t])

(* A run has what might_write saw. *)
Fed == \A t \in Tools : HasEdit(t) => Ready(t, snap[t])

(* Nobody puts another edit in the place of its own, so none outlives its
   run. *)
OwnEdits == kept = {} /\ \A t \in Tools : edit[t] \in {None, t}

(* Who runs, or has run, comes after all tools in front of it. *)
Ordered ==
    \A t, u \in Tools :
        u < t /\ (HasEdit(t) \/ stage[t] = "applied") => stage[u] = "applied"

(* Who is put off is not ready, and nobody is given up, unless transpile
   fails. *)
PutOff ==
    /\ pc \in {"schedule", "starting", "spawned", "process", "exit"} =>
            \A t \in Elements(queue) : ~Ready(t, snapshot)
    /\ pc = "returned" => \A t \in Tools : stage[t] = "queued" => ~Ready(t, ir)
    /\ pc \notin {"unwinding", "failed"} => \A t \in Tools : stage[t] # "skipped"

(* The output directory changes with the build of a package that stays. *)
Output ==
    /\ output \ {"leftover"} \in {{}, {"part"}, {"package"}}
    /\ Contents(written[TryCargoBuild]) # {} => Materialized
    /\ OfType(ir, CargoBuildResult) # {} => Materialized
    /\ output \notin Untouched => OfType(ir, CargoPackage) # {}

(* The inductive invariant: that of transpile, and what the tools keep. *)
PipelineIInv ==
    /\ IInv
    /\ WritesOne /\ OneWriter /\ Leaves /\ Grows /\ Fed /\ OwnEdits /\ Ordered /\ PutOff /\ Output
----------------------------------------------------------------------------
(* The tools and the types of what they yield *)

(* There are four tools, each with a type of its own. *)
LEMMA ToolFacts ==
    /\ Tools = {LoadRawSource, IdentifyProjectKind, RawSourceToCargoLlm, TryCargoBuild}
    /\ Yields(LoadRawSource) = RawSource /\ Yields(IdentifyProjectKind) = ProjectKind
    /\ Yields(RawSourceToCargoLlm) = CargoPackage /\ Yields(TryCargoBuild) = CargoBuildResult
    /\ \A t \in Tools : Yields(t) \subseteq Reprs /\ None \notin Yields(t)
    /\ \A t, u \in Tools : t # u => Yields(t) \cap Yields(u) = {}
<1> USE DEF LoadRawSource, IdentifyProjectKind, RawSourceToCargoLlm, TryCargoBuild
<1>1. Tools = {1, 2, 3, 4}
  BY PipelineAssumption DEF Tools
<1>2. /\ Yields(1) = RawSource /\ Yields(2) = ProjectKind
      /\ Yields(3) = CargoPackage /\ Yields(4) = CargoBuildResult
  BY DEF Yields
<1>3. \A t \in Tools : Yields(t) \subseteq Reprs /\ None \notin Yields(t)
  BY <1>1, <1>2, PipelineAssumption, HarvestIRAssumption
<1>4. \A t, u \in Tools : t # u => Yields(t) \cap Yields(u) = {}
  BY <1>1, <1>2 DEF RawSource, ProjectKind, CargoPackage, CargoBuildResult
<1> QED
  BY <1>1, <1>2, <1>3, <1>4

(* To count ids is to compare them. *)
LEMMA CountFacts ==
    ASSUME NEW S \in SUBSET Ids
    PROVE  /\ Cardinality(S) \in Nat
           /\ Cardinality(S) = 0 <=> S = {}
           /\ Cardinality(S) <= 1 <=> AtMostOne(S)
<1>1. IsFiniteSet(S)
  <2>1. MaxId \in Int
    BY HarvestIRAssumption
  <2>2. IsFiniteSet(Ids)
    BY <2>1, FS_Interval DEF Ids
  <2> QED
    BY <2>2, FS_Subset
<1>2. Cardinality(S) \in Nat /\ (Cardinality(S) = 0 <=> S = {})
  BY <1>1, FS_CardinalityType, FS_EmptySet
<1>3. Cardinality(S) = 1 <=> \E x : S = {x}
  BY <1>1, FS_Singleton
<1>4. AtMostOne(S) <=> S = {} \/ \E x : S = {x}
  BY DEF AtMostOne
<1> QED
  BY <1>2, <1>3, <1>4

(* What is in the map a snapshot was taken of is in every map that extends
   it. *)
LEMMA ReadyFacts ==
    ASSUME NEW m \in IRs, NEW t \in Tools, Extends(m), Ready(t, m), OneWriter, ir \in IRs
    PROVE  /\ t \in {IdentifyProjectKind, RawSourceToCargoLlm} => OfType(ir, RawSource) # {}
           /\ t = RawSourceToCargoLlm => OfType(ir, ProjectKind) # {}
           /\ t = TryCargoBuild => OfType(ir, CargoPackage) # {}
<1> DEFINE Within(type) == OfType(m, type) \subseteq OfType(ir, type)
<1>1. \A u \in Tools : Within(Yields(u))
  BY ToolFacts DEF OfType, Extends, Contents, ContainsId
<1>2. Within(RawSource) /\ Within(ProjectKind) /\ Within(CargoPackage)
  BY <1>1, ToolFacts
<1>3. OfType(m, CargoPackage) \in SUBSET Ids
  BY DEF OfType
<1>4. t = TryCargoBuild => OfType(m, CargoPackage) # {}
  <2>1. t = TryCargoBuild => Cardinality(OfType(m, CargoPackage)) = 1
    BY DEF Ready, LoadRawSource, IdentifyProjectKind, RawSourceToCargoLlm, TryCargoBuild
  <2> QED
    BY <1>3, <2>1, CountFacts
<1>5. t = IdentifyProjectKind => OfType(m, RawSource) # {}
  BY DEF Ready, LoadRawSource, IdentifyProjectKind, RawSourceToCargoLlm, TryCargoBuild
<1>6. t = RawSourceToCargoLlm => OfType(m, RawSource) # {} /\ OfType(m, ProjectKind) # {}
  BY DEF Ready, LoadRawSource, IdentifyProjectKind, RawSourceToCargoLlm, TryCargoBuild
<1> QED
  BY <1>2, <1>4, <1>5, <1>6

(* Who is ready has all tools in front of it behind it. *)
LEMMA ReadyOrder ==
    ASSUME NEW m \in IRs, NEW t \in Tools, Extends(m), Ready(t, m), OneWriter, Ordered,
           ir \in IRs
    PROVE  \A u \in Tools : u < t => stage[u] = "applied"
<1> USE DEF LoadRawSource, IdentifyProjectKind, RawSourceToCargoLlm, TryCargoBuild
<1>1. t \in {2, 3} => stage[1] = "applied"
  BY ReadyFacts, ToolFacts DEF OneWriter
<1>2. t = 3 => stage[2] = "applied"
  BY ReadyFacts, ToolFacts DEF OneWriter
<1>3. t = 4 => stage[3] = "applied"
  BY ReadyFacts, ToolFacts DEF OneWriter
<1>4. t = 4 => stage[1] = "applied" /\ stage[2] = "applied"
  BY <1>3, ToolFacts DEF Ordered
<1> QED
  BY <1>1, <1>2, <1>3, <1>4, ToolFacts
----------------------------------------------------------------------------
(* Steps *)

(* A tool has written something when its edit holds a value. *)
LEMMA WroteFacts ==
    ASSUME TypeOK, NEW t \in Tools
    PROVE  Wrote(t) <=> Contents(written[t]) # {}
<1>1. written[t] \in [Ids -> Reprs \cup {None}]
  BY DEF TypeOK, IRs
<1>2. Contents(Empty) = {}
  BY DEF Contents, ContainsId, Empty
<1>3. Contents(written[t]) = {} => written[t] = Empty
  BY <1>1 DEF Contents, ContainsId, Empty
<1> QED
  BY <1>2, <1>3 DEF Wrote

(* The first representation of a run. *)
AddsOne(t) ==
    /\ Contents(written[t]) = {}
    /\ \E r \in Yields(t) : r \in Reprs /\ AddRepresentation(t, r)
    /\ t = TryCargoBuild => Materialized
    /\ UNCHANGED output

(* What the tools' threads do. *)
LEMMA ThreadCases ==
    ASSUME PipelineIInv, PipelineThreads
    PROVE  \/ Materializes
           \/ \E t \in Tools :
                \/ AddsOne(t)
                \/ RunFails(t) /\ UNCHANGED output
                \/ t = TryCargoBuild /\ MaterializeFails /\ RunFails(t)
                \/ /\ RunReturnsOk(t) /\ UNCHANGED output
                   /\ t # IdentifyProjectKind => Contents(written[t]) # {}
                \/ Ends(t) /\ UNCHANGED output
<1> USE ToolFacts
<1>1. TypeOK
  BY DEF PipelineIInv, IInv
<1>2. LoadWrites /\ UNCHANGED output => AddsOne(LoadRawSource)
  BY <1>1, WroteFacts DEF LoadWrites, AddsOne, RawSource, LoadRawSource, TryCargoBuild
<1>3. ASSUME NEW kind \in ProjectKind, IdentifyWrites(kind), UNCHANGED output
      PROVE  AddsOne(IdentifyProjectKind)
  <2> DEFINE W == Contents(written[IdentifyProjectKind])
             S == OfType(snap[IdentifyProjectKind], RawSource)
  <2>1. Cardinality(W) < Cardinality(S) /\ AddRepresentation(IdentifyProjectKind, kind)
    BY <1>3 DEF IdentifyWrites, MoreSources
  <2>2. W \in SUBSET Ids /\ S \in SUBSET Ids
    BY DEF Contents, OfType
  <2>3. S \subseteq OfType(ir, RawSource)
    <3>1. Extends(snap[IdentifyProjectKind]) /\ None \notin RawSource
      BY DEF PipelineIInv, Grows
    <3> QED
      BY <3>1 DEF Extends, OfType, Contents, ContainsId
  <2>4. AtMostOne(S)
    <3>1. AtMostOne(OfType(ir, RawSource))
      BY DEF PipelineIInv, OneWriter
    <3> QED
      BY <2>3, <3>1 DEF AtMostOne
  <2>5. W = {}
    BY <2>1, <2>2, <2>4, CountFacts
  <2> QED
    BY <1>3, <2>1, <2>5 DEF AddsOne, IdentifyProjectKind, TryCargoBuild
<1>4. LlmWrites /\ UNCHANGED output => AddsOne(RawSourceToCargoLlm)
  BY <1>1, WroteFacts DEF LlmWrites, AddsOne, CargoPackage, RawSourceToCargoLlm, TryCargoBuild
<1>5. ASSUME NEW verdict \in CargoBuildResult, BuildWrites(verdict), UNCHANGED output
      PROVE  AddsOne(TryCargoBuild)
  BY <1>1, <1>5, WroteFacts DEF BuildWrites, AddsOne
<1>6. ASSUME NEW t \in Tools, Finishes(t)
      PROVE  \/ RunReturnsOk(t) /\ (t # IdentifyProjectKind => Contents(written[t]) # {})
             \/ Ends(t)
  BY <1>1, <1>6, WroteFacts DEF Finishes
<1>7. MaterializeFails => RunFails(TryCargoBuild)
  BY DEF MaterializeFails
<1>8. /\ LoadFails => RunFails(LoadRawSource)
      /\ LlmFails => RunFails(RawSourceToCargoLlm)
      /\ BuildFails => RunFails(TryCargoBuild)
  BY DEF LoadFails, LlmFails, BuildFails
<1> QED
  BY <1>2, <1>3, <1>4, <1>5, <1>6, <1>7, <1>8 DEF PipelineThreads

(* Every step is one of Transpile, with any tools. *)
LEMMA StepIsTranspile ==
    ASSUME PipelineIInv, [PipelineNext]_pipelineVars
    PROVE  [Next]_vars
<1>1. MightWrite => Main
  <2>1. {} \in Requests
    BY DEF Requests
  <2> QED
    BY <2>1 DEF MightWrite, Main, TryAgain
<1>2. PipelineMain => Main
  BY <1>1 DEF PipelineMain, Main
<1>3. ASSUME NEW t \in Tools, AddsOne(t) PROVE EditCall(t)
  BY <1>3 DEF AddsOne, EditCall
<1>4. ASSUME NEW t \in Tools, RunFails(t) \/ RunReturnsOk(t) \/ Ends(t) PROVE Thread(t)
  BY <1>4 DEF Thread
<1>5. Materializes => UNCHANGED vars
  BY DEF Materializes
<1>6. PipelineThreads => [Next]_vars
  BY <1>3, <1>4, <1>5, ThreadCases DEF Next
<1> QED
  BY <1>2, <1>6 DEF PipelineNext, Next, pipelineVars, Done

(* What a step does to the IR and to the runs of the tools. *)
Applies(t) ==
    /\ stage[t] = "sent_ok" /\ stage' = [stage EXCEPT ![t] = "applied"]
    /\ HasEdit(t) /\ edit' = [edit EXCEPT ![t] = None]
    /\ ir' = Overlay(ir, written[t])
    /\ written' = [written EXCEPT ![t] = Empty]
    /\ snap' = [snap EXCEPT ![t] = Empty]

(* t is put down as skipped, dropped or failed, and its edit is gone. *)
Forgets(t) ==
    /\ stage[t] # "applied"
    /\ \E s \in {"skipped", "dropped", "err"} : stage' = [stage EXCEPT ![t] = s]
    /\ edit' = [edit EXCEPT ![t] = None]
    /\ written' \in {written, [written EXCEPT ![t] = Empty]}
    /\ snap' \in {snap, [snap EXCEPT ![t] = Empty]}

(* t goes on without touching its edit; what it starts with it has. *)
Proceeds(t) ==
    /\ \/ /\ stage[t] = "queued" /\ stage' = [stage EXCEPT ![t] = "running"]
          /\ HasEdit(t)
       \/ /\ stage[t] = "running" /\ stage' = [stage EXCEPT ![t] = "ok"]
          /\ t # IdentifyProjectKind => Contents(written[t]) # {}
       \/ stage[t] = "ok" /\ stage' = [stage EXCEPT ![t] = "sent_ok"]
       \/ stage[t] = "err" /\ stage' = [stage EXCEPT ![t] = "sent_err"]
       \/ stage[t] = "sent_err" /\ stage' = [stage EXCEPT ![t] = "dropped"]
    /\ UNCHANGED <<edit, written, snap>>

(* t gets its edit and the current snapshot, for which its might_write said
   Runnable. *)
Begins(t) ==
    /\ Ready(t, snapshot)
    /\ edit' = [edit EXCEPT ![t] = t]
    /\ snap' = [snap EXCEPT ![t] = snapshot]
    /\ UNCHANGED <<stage, written>>

(* t writes the one representation it yields. *)
Adds(t) ==
    /\ stage[t] = "running" /\ Contents(written[t]) = {}
    /\ t = TryCargoBuild => Materialized
    /\ \E r \in Yields(t), i \in Ids : written' = [written EXCEPT ![t][i] = r]
    /\ UNCHANGED <<stage, edit, snap, output>>

(* A step, by what it does to the IR, the edits and the snapshots. *)
DataStep ==
    \/ UNCHANGED <<stage, edit, written, snap, ir>>
    \/ \E t \in Tools : Applies(t)
    \/ \E t \in Tools : ir' = ir /\ (Forgets(t) \/ Proceeds(t) \/ Begins(t) \/ Adds(t))

(* What a thread drops is its own edit, or nothing. *)
LEMMA OwnIsDropped ==
    ASSUME PipelineIInv, NEW t \in Tools, DropHeld(t)
    PROVE  /\ edit' = [edit EXCEPT ![t] = None]
           /\ in_use' = {} /\ kept' = {}
           /\ HasEdit(t) => /\ written' = [written EXCEPT ![t] = Empty]
                            /\ snap' = [snap EXCEPT ![t] = Empty]
           /\ ~HasEdit(t) => UNCHANGED <<written, snap>>
<1>t. edit[t] \in {None, t} /\ kept = {} /\ in_use = {}
  BY DEF PipelineIInv, OwnEdits, OneWriter
<1>1. CASE edit[t] = t
  <2>1. DropEdit(t)
    BY <1>1 DEF DropHeld
  <2>2. HasEdit(t)
    BY <1>1, TranspileAssumption DEF HasEdit, Tools
  <2> QED
    BY <1>t, <2>1, <2>2 DEF DropHeld, DropEdit
<1>2. CASE edit[t] = None
  BY <1>t, <1>2, TranspileAssumption DEF DropHeld, HasEdit, Tools
<1> QED
  BY <1>t, <1>1, <1>2, TranspileAssumption DEF HasEdit, Tools

(* Every step is one of these; and no tool asks for the lease of an id. *)
LEMMA DataSteps ==
    ASSUME PipelineIInv, [PipelineNext]_pipelineVars
    PROVE  DataStep /\ in_use' = {} /\ kept' = {}
<1> USE ToolFacts
<1>t. /\ TypeOK /\ Waiting /\ in_use = {} /\ kept = {}
      /\ \A t \in Tools : HasEdit(t) <=> Run(t) \/ (pc = "starting" /\ t = Current)
      /\ \A t \in Tools : edit[t] \in {None, t}
  BY DEF PipelineIInv, IInv, OneWriter, OwnEdits, Held
<1>1. ASSUME UNCHANGED <<stage, edit, kept, written, snap, ir, in_use>>
      PROVE  DataStep /\ in_use' = {} /\ kept' = {}
  BY <1>t, <1>1 DEF DataStep
<1>2. CASE \/ TakeSnapshot \/ TryAgain \/ RecordInvocation \/ ScheduleDone \/ NoTools
           \/ DrainDone \/ Return \/ Fail \/ (\E t \in Tools : DetachRunning(t))
  BY <1>1, <1>2 DEF TakeSnapshot, TryAgain, TryLater, RecordInvocation, ScheduleDone, NoTools,
     DrainDone, Return, Fail, DetachRunning, irVars, toolVars, editVars
<1>3. CASE Ready(Current, snapshot) /\ RunnableNewEdit({})
  <2>1. PICK t \in Tools : t = Current
    BY <1>t, <1>3, CurrentFacts DEF RunnableNewEdit, Offering
  <2>2. Begins(t) /\ ir' = ir /\ in_use' = {} /\ kept' = {}
    BY <1>t, <1>3, <2>1 DEF RunnableNewEdit, Begins
  <2> QED
    BY <2>2 DEF DataStep
<1>4. CASE StartRun
  <2>1. PICK t \in Tools : t = Current /\ stage[t] = "queued"
    BY <1>t, <1>4, CurrentFacts DEF StartRun, Waiting
  <2>2. Proceeds(t) /\ ir' = ir /\ in_use' = in_use /\ kept' = kept
    BY <1>t, <1>4, <2>1 DEF StartRun, Proceeds, irVars, editVars
  <2> QED
    BY <1>t, <2>2 DEF DataStep
<1>5. CASE StartRunFails
  <2>1. PICK t \in Tools : t = Current /\ stage[t] = "queued"
    BY <1>t, <1>5, CurrentFacts DEF StartRunFails, Waiting
  <2>2. DropHeld(t) /\ stage' = [stage EXCEPT ![t] = "skipped"] /\ ir' = ir
    BY <1>5, <2>1 DEF StartRunFails
  <2>3. Forgets(t) /\ in_use' = {} /\ kept' = {}
    BY <2>1, <2>2, OwnIsDropped DEF Forgets
  <2> QED
    BY <2>2, <2>3 DEF DataStep
<1>6. CASE ProcessOk
  <2>1. PICK t \in Tools : t = Signalled
    BY <1>t, <1>6, TailFacts DEF TypeOK, ProcessOk, Signalled
  <2>2. /\ stage[t] = "sent_ok" /\ stage' = [stage EXCEPT ![t] = "applied"]
        /\ DropHeld(t) /\ ir' = Overlay(ir, written[edit[t]])
    BY <1>6, <2>1 DEF ProcessOk, Applied
  <2>3. HasEdit(t) /\ edit[t] = t
    BY <1>t, <2>2 DEF Run, HasEdit
  <2>4. Applies(t) /\ in_use' = {} /\ kept' = {}
    BY <2>2, <2>3, OwnIsDropped DEF Applies
  <2> QED
    BY <2>4 DEF DataStep
<1>7. CASE ProcessErr
  <2>1. PICK t \in Tools : t = Signalled
    BY <1>t, <1>7, TailFacts DEF TypeOK, ProcessErr, Signalled
  <2>2. Proceeds(t) /\ ir' = ir /\ in_use' = in_use /\ kept' = kept
    BY <1>7, <2>1 DEF ProcessErr, Proceeds, irVars, editVars
  <2> QED
    BY <1>t, <2>2 DEF DataStep
<1>8. ASSUME NEW t \in Tools, DetachFinished(t) \/ RunFails(t) \/ SignalDetached(t)
      PROVE  DataStep /\ in_use' = {} /\ kept' = {}
  <2>1. /\ DropHeld(t) /\ ir' = ir /\ stage[t] # "applied"
        /\ \E s \in {"dropped", "err"} : stage' = [stage EXCEPT ![t] = s]
    BY <1>8 DEF DetachFinished, RunFails, SignalDetached, Running
  <2>2. Forgets(t) /\ in_use' = {} /\ kept' = {}
    BY <2>1, OwnIsDropped DEF Forgets
  <2> QED
    BY <2>1, <2>2 DEF DataStep
<1>9. ASSUME NEW t \in Tools, AddsOne(t) PROVE DataStep /\ in_use' = {} /\ kept' = {}
  <2>1. PICK r \in Yields(t) : AddRepresentation(t, r)
    BY <1>9 DEF AddsOne
  <2>2. next_id \in Ids
    BY <1>t, <2>1 DEF AddRepresentation, TypeOK, Ids
  <2>3. stage[t] = "running"
    BY <1>t, <2>1, TranspileAssumption DEF AddRepresentation, InHand, Running, Tools
  <2>4. Adds(t) /\ ir' = ir /\ in_use' = in_use /\ kept' = kept
    BY <1>9, <2>1, <2>2, <2>3 DEF AddsOne, AddRepresentation, Adds, Fresh
  <2> QED
    BY <1>t, <2>4 DEF DataStep
<1>10. ASSUME NEW t \in Tools, RunReturnsOk(t), t # IdentifyProjectKind => Contents(written[t]) # {}
       PROVE  DataStep /\ in_use' = {} /\ kept' = {}
  <2>1. Proceeds(t) /\ ir' = ir /\ in_use' = in_use /\ kept' = kept
    BY <1>10 DEF RunReturnsOk, Proceeds, Running, irVars, editVars
  <2> QED
    BY <1>t, <2>1 DEF DataStep
<1>11. ASSUME NEW t \in Tools, Signal(t) PROVE DataStep /\ in_use' = {} /\ kept' = {}
  <2>1. Proceeds(t) /\ ir' = ir /\ in_use' = in_use /\ kept' = kept
    BY <1>11 DEF Signal, Proceeds, irVars, editVars
  <2> QED
    BY <1>t, <2>1 DEF DataStep
<1>12. CASE UNCHANGED vars
  BY <1>1, <1>12 DEF vars, irVars, toolVars, editVars
<1>13. PipelineMain => DataStep /\ in_use' = {} /\ kept' = {}
  BY <1>2, <1>3, <1>4, <1>5, <1>6, <1>7, <1>8 DEF PipelineMain, MightWrite, Unwind
<1>14. PipelineThreads => DataStep /\ in_use' = {} /\ kept' = {}
  BY ThreadCases, <1>8, <1>9, <1>10, <1>11, <1>12 DEF Ends, Materializes
<1> QED
  BY <1>12, <1>13, <1>14 DEF PipelineNext, pipelineVars, Done
----------------------------------------------------------------------------
(* What is in the IR *)

(* The edit of a tool that is applied adds what the tool yields, and changes
   nothing that is there. *)
LEMMA AppliedFacts ==
    ASSUME PipelineIInv, NEW t \in Tools, Applies(t)
    PROVE  /\ \A i \in Contents(ir) : ir'[i] = ir[i]
           /\ OfType(ir', Yields(t)) = Contents(written[t])
           /\ \A u \in Tools \ {t} : OfType(ir', Yields(u)) = OfType(ir, Yields(u))
<1>1. ir \in IRs /\ written[t] \in IRs
  BY DEF PipelineIInv, IInv, TypeOK
<1>2. \A i \in Ids : ir'[i] = IF written[t][i] = None THEN ir[i] ELSE written[t][i]
  BY <1>1, OverlayType DEF Applies
<1>3. \A i \in Contents(written[t]) : ir[i] = None
  <2>1. \A i \in Ids : written[t][i] # None => i \in writable[t]
    BY DEF PipelineIInv, IInv, EditInv, Confined
  <2>2. \A i \in Ids : i \in writable[t] => ir[i] = None
    BY DEF PipelineIInv, IInv, EditInv, Exact, OneWriter, ContainsId
  <2> QED
    BY <2>1, <2>2 DEF Contents, ContainsId
<1>4. \A i \in Contents(written[t]) : written[t][i] \in Yields(t)
  BY DEF PipelineIInv, WritesOne
<1>5. OfType(ir, Yields(t)) = {}
  BY DEF PipelineIInv, OneWriter, Applies
<1>6. OfType(ir', Yields(t)) = Contents(written[t])
  BY <1>2, <1>4, <1>5, ToolFacts DEF OfType, Contents, ContainsId
<1>7. ASSUME NEW u \in Tools \ {t} PROVE OfType(ir', Yields(u)) = OfType(ir, Yields(u))
  <2>1. Yields(t) \cap Yields(u) = {} /\ None \notin Yields(u)
    BY ToolFacts
  <2> QED
    BY <1>2, <1>3, <1>4, <2>1 DEF OfType, Contents, ContainsId
<1> QED
  BY <1>2, <1>3, <1>6, <1>7 DEF Contents, ContainsId

(* One writer for each type, which leaves one representation. *)
LEMMA WritersPreserved ==
    ASSUME PipelineIInv, [PipelineNext]_pipelineVars
    PROVE  WritesOne' /\ OneWriter' /\ Leaves'
<1>t. /\ stage \in [Tools -> Stages] /\ written \in [Tools -> IRs]
      /\ WritesOne /\ OneWriter /\ Leaves
  BY DEF PipelineIInv, IInv, TypeOK
<1>e. Contents(Empty) = {}
  BY DEF Contents, ContainsId, Empty
<1>i. in_use' = {}
  BY DataSteps
<1>1. ASSUME ir' = ir, \A t \in Tools : (stage'[t] = "applied") <=> (stage[t] = "applied")
      PROVE  OneWriter'
  BY <1>t, <1>i, <1>1 DEF OneWriter
<1>2. CASE UNCHANGED <<stage, written, ir>>
  BY <1>t, <1>1, <1>2 DEF WritesOne, Leaves
<1>3. ASSUME NEW t \in Tools, Applies(t) PROVE WritesOne' /\ OneWriter' /\ Leaves'
  <2>1. /\ stage'[t] = "applied" /\ \A u \in Tools \ {t} : stage'[u] = stage[u]
        /\ written'[t] = Empty /\ \A u \in Tools \ {t} : written'[u] = written[u]
        /\ stage[t] = "sent_ok"
    BY <1>t, <1>3 DEF Applies
  <2>2. WritesOne'
    BY <1>t, <1>e, <2>1 DEF WritesOne, AtMostOne
  <2>3. OneWriter'
    <3> SUFFICES ASSUME NEW u \in Tools
                 PROVE  /\ OfType(ir', Yields(u)) # {} => stage'[u] = "applied"
                        /\ AtMostOne(OfType(ir', Yields(u)))
      BY <1>i DEF OneWriter, AtMostOne
    <3>1. CASE u = t
      BY <1>t, <1>3, <2>1, <3>1, AppliedFacts DEF WritesOne
    <3>2. CASE u # t
      BY <1>t, <1>3, <2>1, <3>2, AppliedFacts DEF OneWriter
    <3> QED
      BY <3>1, <3>2
  <2>4. Leaves'
    BY <1>t, <1>3, <2>1, AppliedFacts DEF Leaves
  <2> QED
    BY <2>2, <2>3, <2>4
<1>4. ASSUME NEW t \in Tools, ir' = ir, Forgets(t) PROVE WritesOne' /\ OneWriter' /\ Leaves'
  <2>1. /\ stage[t] # "applied" /\ stage'[t] \notin {"ok", "sent_ok", "applied"}
        /\ \A u \in Tools \ {t} : stage'[u] = stage[u]
        /\ written'[t] \in {written[t], Empty}
        /\ \A u \in Tools \ {t} : written'[u] = written[u]
    BY <1>t, <1>4 DEF Forgets
  <2>2. WritesOne'
    BY <1>t, <1>e, <2>1 DEF WritesOne, AtMostOne
  <2>3. OneWriter'
    BY <1>1, <1>4, <2>1
  <2>4. Leaves'
    BY <1>t, <1>4, <2>1 DEF Leaves
  <2> QED
    BY <2>2, <2>3, <2>4
<1>5. ASSUME NEW t \in Tools, ir' = ir, Proceeds(t)
      PROVE  WritesOne' /\ OneWriter' /\ Leaves'
  <2>1. /\ stage[t] # "applied" /\ stage'[t] # "applied"
        /\ \A u \in Tools \ {t} : stage'[u] = stage[u]
        /\ written' = written
        /\ stage'[t] \in {"ok", "sent_ok"} /\ t # IdentifyProjectKind =>
                stage[t] = "ok" \/ Contents(written[t]) # {}
    BY <1>t, <1>5 DEF Proceeds
  <2>2. WritesOne'
    BY <1>t, <2>1 DEF WritesOne
  <2>3. OneWriter'
    BY <1>1, <1>5, <2>1
  <2>4. Leaves'
    BY <1>t, <1>5, <2>1 DEF Leaves
  <2> QED
    BY <2>2, <2>3, <2>4
<1>6. ASSUME NEW t \in Tools, ir' = ir, Adds(t) PROVE WritesOne' /\ OneWriter' /\ Leaves'
  <2>1. PICK r \in Yields(t), i \in Ids : written' = [written EXCEPT ![t][i] = r]
    BY <1>6 DEF Adds
  <2>2. stage' = stage /\ stage[t] = "running" /\ Contents(written[t]) = {}
    BY <1>6 DEF Adds
  <2>3. written[t] \in [Ids -> Reprs \cup {None}]
    BY <1>t DEF IRs
  <2>4. /\ written'[t] = [written[t] EXCEPT ![i] = r]
        /\ \A u \in Tools \ {t} : written'[u] = written[u]
    BY <1>t, <2>1
  <2>5. written'[t][i] = r /\ \A j \in Ids \ {i} : written'[t][j] = written[t][j]
    BY <2>3, <2>4
  <2>6. Contents(written'[t]) \subseteq {i}
    BY <2>2, <2>5 DEF Contents, ContainsId
  <2>7. WritesOne'
    <3> SUFFICES ASSUME NEW u \in Tools
                 PROVE  /\ \A j \in Contents(written'[u]) : written'[u][j] \in Yields(u)
                        /\ AtMostOne(Contents(written'[u]))
      BY DEF WritesOne, AtMostOne
    <3>1. CASE u = t
      BY <2>5, <2>6, <3>1 DEF AtMostOne
    <3>2. CASE u # t
      BY <1>t, <2>4, <3>2 DEF WritesOne
    <3> QED
      BY <3>1, <3>2
  <2>8. OneWriter'
    BY <1>1, <1>6, <2>2
  <2>9. Leaves'
    BY <1>t, <1>6, <2>2, <2>4 DEF Leaves
  <2> QED
    BY <2>7, <2>8, <2>9
<1> QED
  BY DataSteps, <1>2, <1>3, <1>4, <1>5, <1>6 DEF DataStep, Begins

(* The snapshots are taken from the IR. *)
LEMMA SnapshotSteps ==
    ASSUME PipelineIInv, [PipelineNext]_pipelineVars
    PROVE  snapshot' = snapshot \/ (snapshot' = ir /\ ir' = ir)
<1>1. Main => snapshot' = snapshot \/ (snapshot' = ir /\ ir' = ir)
  BY DEF Main, TakeSnapshot, NotRunnable, TryAgain, TryLater, GiveUp, RunnableUnknownId,
     RunnableIdInUse, RunnableNewEdit, StartRun, StartRunFails, RecordInvocation, ScheduleDone,
     NoTools, ProcessOk, ProcessWrongOrganizer, ProcessErr, DrainDone, Return, Unwind,
     DetachFinished, DetachRunning, Fail, irVars
<1>2. ASSUME NEW t \in Tools, Thread(t) PROVE snapshot' = snapshot
  BY <1>2, ThreadFacts DEF PipelineIInv, IInv
<1> QED
  BY <1>1, <1>2, CallFacts, StepIsTranspile DEF Next, Done, vars, mainVars

(* What a snapshot holds stays in the IR. *)
LEMMA GrowsPreserved ==
    ASSUME PipelineIInv, [PipelineNext]_pipelineVars
    PROVE  Grows'
<1>t. /\ ir \in IRs /\ snapshot \in IRs /\ snap \in [Tools -> IRs]
      /\ Extends(snapshot) /\ \A t \in Tools : Extends(snap[t])
  BY DEF PipelineIInv, IInv, TypeOK, Grows
<1>1. \A i \in Contents(ir) : ir'[i] = ir[i]
  BY DataSteps, AppliedFacts DEF DataStep
<1>2. \A m : Extends(m) => \A i \in Contents(m) : ir'[i] = m[i]
  BY <1>1 DEF Extends, Contents, ContainsId
<1>3. Extends(snapshot)'
  BY <1>t, <1>2, SnapshotSteps DEF Extends
<1>4. ASSUME NEW t \in Tools PROVE Extends(snap[t])'
  <2>1. snap'[t] \in {snap[t], snapshot, Empty}
    BY <1>t, DataSteps DEF DataStep, Applies, Forgets, Proceeds, Begins, Adds
  <2>2. Contents(Empty) = {}
    BY DEF Contents, ContainsId, Empty
  <2> QED
    BY <1>t, <1>2, <2>1, <2>2 DEF Extends
<1> QED
  BY <1>3, <1>4 DEF Grows
----------------------------------------------------------------------------
(* Who runs, and who waits *)

(* Nobody gets another edit than its own. *)
LEMMA OwnPreserved ==
    ASSUME PipelineIInv, [PipelineNext]_pipelineVars
    PROVE  OwnEdits'
<1>t. edit \in [Tools -> Tools \cup {None, Foreign}] /\ \A t \in Tools : edit[t] \in {None, t}
  BY DEF PipelineIInv, IInv, TypeOK, OwnEdits
<1>1. \A t \in Tools : edit'[t] \in {edit[t], None, t}
  BY <1>t, DataSteps DEF DataStep, Applies, Forgets, Proceeds, Begins, Adds
<1> QED
  BY <1>t, <1>1, DataSteps DEF OwnEdits

(* A run keeps what it was started with. *)
LEMMA FedPreserved ==
    ASSUME PipelineIInv, [PipelineNext]_pipelineVars
    PROVE  Fed'
<1>t. /\ edit \in [Tools -> Tools \cup {None, Foreign}] /\ snap \in [Tools -> IRs]
      /\ \A t \in Tools : HasEdit(t) => Ready(t, snap[t])
  BY DEF PipelineIInv, IInv, TypeOK, Fed
<1>1. ASSUME NEW t \in Tools, edit'[t] # None PROVE Ready(t, snap'[t])
  <2>1. CASE edit[t] # None /\ snap'[t] = snap[t]
    BY <1>t, <2>1 DEF HasEdit
  <2>2. CASE Ready(t, snapshot) /\ snap'[t] = snapshot
    BY <2>2
  <2> QED
    BY <1>t, <1>1, <2>1, <2>2, DataSteps DEF DataStep, Applies, Forgets, Proceeds, Begins, Adds
<1> QED
  BY <1>1 DEF Fed, HasEdit

(* Each tool waits for the ones in front of it. *)
LEMMA OrderedPreserved ==
    ASSUME PipelineIInv, [PipelineNext]_pipelineVars
    PROVE  Ordered'
<1>t. /\ stage \in [Tools -> Stages] /\ edit \in [Tools -> Tools \cup {None, Foreign}]
      /\ ir \in IRs /\ snapshot \in IRs /\ OneWriter /\ Ordered /\ Extends(snapshot)
  BY DEF PipelineIInv, IInv, TypeOK, Grows
<1>1. \A u \in Tools : stage[u] = "applied" => stage'[u] = "applied"
  BY <1>t, DataSteps DEF DataStep, Applies, Forgets, Proceeds, Begins, Adds
<1>2. ASSUME NEW t \in Tools, edit'[t] # None \/ stage'[t] = "applied"
      PROVE  \A u \in Tools : u < t => stage'[u] = "applied"
  <2>1. CASE HasEdit(t) \/ stage[t] = "applied"
    BY <1>1, <1>t, <2>1 DEF Ordered
  <2>2. CASE Ready(t, snapshot)
    BY <1>t, <1>1, <2>2, ReadyOrder
  <2>3. HasEdit(t) \/ stage[t] = "applied" \/ Ready(t, snapshot)
    BY <1>t, <1>2, DataSteps DEF DataStep, Applies, Forgets, Proceeds, Begins, Adds, HasEdit
  <2> QED
    BY <2>1, <2>2, <2>3
<1> QED
  BY <1>2 DEF Ordered, HasEdit

(* The main loop returns only when no tool that waits is ready. *)
LEMMA PutOffPreserved ==
    ASSUME PipelineIInv, [PipelineNext]_pipelineVars
    PROVE  PutOff'
<1> DEFINE Looking == {"schedule", "starting", "spawned", "process", "exit"}
<1>t. /\ stage \in [Tools -> Stages] /\ queue \in Seq(Tools)
      /\ PutOff /\ TypeOK /\ Waiting /\ SnapshotIsIR
  BY DEF PipelineIInv, IInv, TypeOK
<1>1. ASSUME UNCHANGED <<queue, snapshot, stage>>, pc' # "returned" \/ (pc = "returned" /\ ir' = ir),
             pc' \in Looking => pc \in Looking,
             pc \in {"unwinding", "failed"} => pc' \in {"unwinding", "failed"}
      PROVE  PutOff'
  BY <1>t, <1>1 DEF PutOff
<1>2. CASE TakeSnapshot
  BY <1>t, <1>2, EmptyFacts DEF TakeSnapshot, toolVars, PutOff
<1>3. CASE Offering /\ ~Ready(Current, snapshot) /\ TryAgain
  <2>1. Elements(queue') = Elements(queue) \cup {Current}
    BY <1>t, <1>3, CurrentFacts, AppendFacts DEF TryAgain, TryLater, Offering, Requeued
  <2> QED
    BY <1>t, <1>3, <2>1 DEF TryAgain, TryLater, Offering, toolVars, PutOff
<1>4. CASE \/ RunnableNewEdit({}) \/ RecordInvocation \/ ScheduleDone \/ NoTools \/ DrainDone \/ Fail
           \/ \E t \in Tools : DetachRunning(t)
  <2>1. /\ UNCHANGED <<queue, snapshot, stage>> /\ pc' # "returned"
        /\ pc' \in Looking => pc \in Looking
        /\ pc \in {"unwinding", "failed"} => pc' \in {"unwinding", "failed"}
    BY <1>4 DEF RunnableNewEdit, Offering, RecordInvocation, ScheduleDone, NoTools, DrainDone, Fail,
       DetachRunning, toolVars
  <2> QED
    BY <1>1, <2>1
<1>5. CASE Return
  <2>1. \A t \in Tools : stage[t] = "queued" => t \in Elements(queue)
    BY <1>t, <1>5, EmptyFacts DEF Return, Waiting, InTranspile
  <2>2. snapshot = ir
    BY <1>t, <1>5 DEF Return, SnapshotIsIR
  <2> QED
    BY <1>t, <1>5, <2>1, <2>2 DEF Return, irVars, toolVars, PutOff
<1>6. CASE StartRun
  <2>1. Current \in Tools
    BY <1>t, <1>6, CurrentFacts DEF StartRun, Waiting
  <2> QED
    BY <1>t, <1>6, <2>1 DEF StartRun, PutOff
<1>7. CASE StartRunFails
  BY <1>7 DEF StartRunFails, PutOff
<1>8. CASE ProcessOk \/ ProcessErr
  <2>1. Signalled \in Tools
    BY <1>8, TailFacts DEF PipelineIInv, IInv, TypeOK, ProcessOk, ProcessErr, Signalled
  <2> QED
    BY <1>t, <1>8, <2>1 DEF ProcessOk, ProcessErr, PutOff
<1>9. ASSUME NEW t \in Tools, DetachFinished(t) PROVE PutOff'
  BY <1>9 DEF DetachFinished, PutOff
<1>10. ASSUME NEW t \in Tools, Thread(t) PROVE PutOff'
  <2>1. /\ UNCHANGED <<pc, snapshot, queue, ir>>
        /\ \A u \in Tools \ {t} : stage'[u] = stage[u]
        /\ stage'[t] = stage[t] \/ stage'[t] \notin {"queued", "skipped"}
    BY <1>t, <1>10, ThreadFacts
  <2> QED
    BY <1>t, <2>1 DEF PutOff
<1>11. CASE UNCHANGED vars
  BY <1>t, <1>11 DEF vars, mainVars, irVars, toolVars, PutOff
<1>12. CASE PipelineMain
  BY <1>2, <1>3, <1>4, <1>5, <1>6, <1>7, <1>8, <1>9, <1>12 DEF PipelineMain, MightWrite, Unwind
<1>13. ASSUME NEW t \in Tools, AddsOne(t) PROVE PutOff'
  <2>1. UNCHANGED <<pc, snapshot, queue, stage, ir>>
    BY <1>13 DEF AddsOne, AddRepresentation, mainVars
  <2> QED
    BY <1>t, <2>1 DEF PutOff
<1>14. CASE PipelineThreads
  <2>1. ASSUME NEW t \in Tools, RunFails(t) \/ RunReturnsOk(t) \/ Ends(t) PROVE Thread(t)
    BY <2>1 DEF Thread
  <2> QED
    BY <1>10, <1>11, <1>13, <1>14, <2>1, ThreadCases DEF Materializes
<1> QED
  BY <1>11, <1>12, <1>14 DEF PipelineNext, pipelineVars, Done
----------------------------------------------------------------------------
(* The output directory *)

(* A run of the build has a package, and the package stays. *)
LEMMA OutputPreserved ==
    ASSUME PipelineIInv, [PipelineNext]_pipelineVars
    PROVE  Output'
<1> USE ToolFacts
<1>t. /\ stage \in [Tools -> Stages] /\ written \in [Tools -> IRs]
      /\ Output /\ OneWriter /\ Fed /\ Grows /\ ir \in IRs /\ snap \in [Tools -> IRs]
      /\ \A t \in Tools : Run(t) => HasEdit(t)
  BY DEF PipelineIInv, IInv, TypeOK, Held
<1>e. Contents(Empty) = {}
  BY DEF Contents, ContainsId, Empty
<1>1. OfType(ir, CargoPackage) # {} => OfType(ir', CargoPackage) # {}
  <2>1. \A i \in Contents(ir) : ir'[i] = ir[i]
    BY DataSteps, AppliedFacts DEF DataStep
  <2> QED
    BY <2>1 DEF OfType, Contents, ContainsId
<1>2. CASE output' = output
  <2>1. Contents(written'[TryCargoBuild]) # {} => Materialized
    <3>1. \/ written'[TryCargoBuild] = written[TryCargoBuild]
          \/ written'[TryCargoBuild] = Empty
          \/ Materialized
      BY <1>t, DataSteps DEF DataStep, Applies, Forgets, Proceeds, Begins, Adds
    <3> QED
      BY <1>t, <1>e, <3>1 DEF Output
  <2>2. OfType(ir', CargoBuildResult) # {} => Materialized
    <3>1. CASE ir' = ir
      BY <1>t, <3>1 DEF Output
    <3>2. ASSUME NEW t \in Tools, Applies(t)
          PROVE  OfType(ir', CargoBuildResult) # {} => Materialized
      BY <1>t, <3>2, AppliedFacts DEF Output
    <3> QED
      BY <3>1, <3>2, DataSteps DEF DataStep
  <2> QED
    BY <1>t, <1>1, <1>2, <2>1, <2>2 DEF Output, Materialized
<1>3. ASSUME Running(TryCargoBuild), output \in Untouched
      PROVE  /\ OfType(ir, CargoPackage) # {}
             /\ OfType(ir, CargoBuildResult) = {} /\ Contents(written[TryCargoBuild]) = {}
  <2>1. Ready(TryCargoBuild, snap[TryCargoBuild]) /\ Extends(snap[TryCargoBuild])
    BY <1>t, <1>3 DEF Fed, Running, Run, Grows
  <2>2. OfType(ir, CargoPackage) # {}
    BY <1>t, <2>1, ReadyFacts
  <2> QED
    BY <1>t, <1>3, <2>2 DEF Output, Untouched, Materialized
<1>4. CASE Materializes
  <2>1. /\ ir' = ir /\ output' = output \cup {"package"} /\ output \in Untouched
        /\ Running(TryCargoBuild)
    BY <1>4 DEF Materializes, vars, irVars
  <2>2. output' \ {"leftover"} = {"package"} /\ "package" \in output'
    BY <2>1 DEF Untouched
  <2> QED
    BY <1>3, <2>1, <2>2 DEF Output, Materialized
<1>5. CASE MaterializeFails
  <2>1. /\ ir' = ir /\ output' \in {output, output \cup {"part"}} /\ output \in Untouched
        /\ Running(TryCargoBuild) /\ DropHeld(TryCargoBuild)
    BY <1>5 DEF MaterializeFails, RunFails
  <2>2. output' \ {"leftover"} \in {{}, {"part"}}
    BY <2>1 DEF Untouched
  <2>3. Contents(written'[TryCargoBuild]) = {}
    BY <1>t, <1>e, <1>3, <2>1, OwnIsDropped
  <2> QED
    BY <1>3, <2>1, <2>2, <2>3 DEF Output
<1>6. output' = output \/ Materializes \/ MaterializeFails
  BY DEF PipelineNext, PipelineMain, PipelineThreads, pipelineVars
<1> QED
  BY <1>2, <1>4, <1>5, <1>6
----------------------------------------------------------------------------
(* The invariant *)

(* A translation starts in the invariant, with any ids already given out. *)
LEMMA PipelineStarts ==
    ASSUME Starts, output \in Untouched
    PROVE  PipelineIInv
<1>1. Contents(Empty) = {} /\ \A t \in Tools : OfType(Empty, Yields(t)) = {}
  BY ToolFacts DEF Contents, ContainsId, Empty, OfType
<1>2. WritesOne /\ OneWriter /\ Leaves /\ Grows
  BY <1>1 DEF Starts, WritesOne, OneWriter, Leaves, Grows, Extends, AtMostOne
<1>3. Fed /\ OwnEdits /\ Ordered /\ PutOff
  BY DEF Starts, Fed, OwnEdits, Ordered, HasEdit, PutOff
<1>4. Output
  <2>1. Contents(written[TryCargoBuild]) = {}
    BY <1>1, ToolFacts DEF Starts
  <2>2. OfType(ir, CargoBuildResult) = {}
    BY <1>1, ToolFacts DEF Starts
  <2>3. output \ {"leftover"} = {}
    BY DEF Untouched
  <2> QED
    BY <2>1, <2>2, <2>3 DEF Output
<1> QED
  BY <1>2, <1>3, <1>4, StartFacts DEF PipelineIInv

(* Every step of transpile with its tools keeps it. *)
LEMMA PipelineStep ==
    ASSUME PipelineIInv, [PipelineNext]_pipelineVars
    PROVE  PipelineIInv'
<1>1. IInv'
  BY StepFacts, StepIsTranspile DEF PipelineIInv
<1>2. WritesOne' /\ OneWriter' /\ Leaves' /\ Grows'
  BY WritersPreserved, GrowsPreserved
<1>3. Fed' /\ OwnEdits' /\ Ordered' /\ PutOff' /\ Output'
  BY FedPreserved, OwnPreserved, OrderedPreserved, PutOffPreserved, OutputPreserved
<1> QED
  BY <1>1, <1>2, <1>3 DEF PipelineIInv

(* The invariant holds in every state of transpile with its four tools. *)
THEOREM PipelineInductive == PipelineSpec => []PipelineIInv
<1>1. PipelineInit => PipelineIInv
  <2>1. Init => Starts
    BY HarvestIRAssumption DEF Init, Starts
  <2> QED
    BY <2>1, PipelineStarts DEF PipelineInit
<1> QED
  BY <1>1, PipelineStep, PTL DEF PipelineSpec

(* Transpile with its four tools is Transpile, with any tools: all that is
   proved there holds here. *)
THEOREM PipelineIsTranspile == PipelineSpec => Init /\ [][Next]_vars
  BY PipelineInductive, StepIsTranspile, PTL DEF PipelineSpec, PipelineInit
----------------------------------------------------------------------------
(* The properties that Benchmark's run checks *)

(* A run finds what its might_write saw (tools/mod.rs:103). *)
LEMMA InputsThere == ASSUME PipelineIInv PROVE InputsAreThere
<1>1. \A t \in Tools : Running(t) => Ready(t, snap[t])
  BY DEF PipelineIInv, IInv, Held, Run, Fed, Running
<1> QED
  BY <1>1, ToolFacts DEF InputsAreThere, Ready, LoadRawSource, IdentifyProjectKind,
     RawSourceToCargoLlm, TryCargoBuild

(* The IR never holds two representations of a type. *)
LEMMA NoSecond == ASSUME PipelineIInv PROVE OneOfEach
<1>1. \A t \in Tools : Cardinality(OfType(ir, Yields(t))) <= 1
  <2> TAKE t \in Tools
  <2>1. OfType(ir, Yields(t)) \in SUBSET Ids /\ AtMostOne(OfType(ir, Yields(t)))
    BY DEF PipelineIInv, OneWriter, OfType
  <2> QED
    BY <2>1, CountFacts
<1> QED
  BY <1>1, ToolFacts DEF OneOfEach

(* A build result speaks of what the output directory holds, but for what was
   left there. *)
LEMMA ResultOfOutput == ASSUME PipelineIInv PROVE ResultMatchesOutput
<1>1. Materialized => output \ {"leftover"} = {"package"}
  BY DEF PipelineIInv, Output, Materialized
<1> QED
  BY <1>1 DEF PipelineIInv, Output, ResultMatchesOutput

(* No two tools ever run, or wait to be applied, at the same time. *)
LEMMA NoTwoAtATime == ASSUME PipelineIInv PROVE OneAtATime
<1> SUFFICES ASSUME NEW t \in Tools, NEW u \in Tools, HasEdit(t), HasEdit(u), u < t PROVE FALSE
  BY DEF OneAtATime, Tools
<1>1. stage[u] = "applied"
  BY DEF PipelineIInv, Ordered
<1>2. pc = "starting" => stage[Current] = "queued"
  BY CurrentFacts DEF PipelineIInv, IInv, Waiting
<1>3. Run(u) \/ (pc = "starting" /\ u = Current)
  BY DEF PipelineIInv, IInv, Held
<1> QED
  BY <1>1, <1>2, <1>3 DEF Run

(* An IR without a build result is returned only after a failure, or when the
   kind of the project could not be told. *)
LEMMA Through == ASSUME PipelineIInv PROVE ChainIsThrough
<1> USE ToolFacts
<1> SUFFICES ASSUME pc = "returned",
                    \A t \in Tools : stage[t] # "dropped",
                    ~(stage[IdentifyProjectKind] = "applied" /\ OfType(ir, ProjectKind) = {})
             PROVE  OfType(ir, CargoBuildResult) # {}
  BY DEF ChainIsThrough
<1>1. \A t \in Tools : stage[t] = "applied" \/ (stage[t] = "queued" /\ ~Ready(t, ir))
  <2>1. \A t \in Tools : ~Started(t) /\ stage[t] # "skipped" /\ stage[t] \in Stages
    BY DEF PipelineIInv, IInv, TypeOK, Attachment, Attached, PutOff
  <2>2. \A t \in Tools : stage[t] = "queued" => ~Ready(t, ir)
    BY DEF PipelineIInv, PutOff
  <2> QED
    BY <2>1, <2>2 DEF Started, Stages
<1>2. \A t \in Tools \ {IdentifyProjectKind} : stage[t] = "applied" => OfType(ir, Yields(t)) # {}
  BY DEF PipelineIInv, Leaves
<1> USE DEF LoadRawSource, IdentifyProjectKind, RawSourceToCargoLlm, TryCargoBuild
<1>3. OfType(ir, RawSource) # {}
  BY <1>1, <1>2 DEF Ready
<1>4. OfType(ir, ProjectKind) # {}
  BY <1>1, <1>3 DEF Ready
<1>5. OfType(ir, CargoPackage) # {}
  BY <1>1, <1>2, <1>3, <1>4 DEF Ready
<1>6. Cardinality(OfType(ir, CargoPackage)) = 1
  <2>1. /\ OfType(ir, CargoPackage) \in SUBSET Ids
        /\ Cardinality(OfType(ir, CargoPackage)) <= 1
    BY NoSecond DEF OneOfEach, OfType
  <2> QED
    BY <1>5, <2>1, CountFacts
<1> QED
  BY <1>1, <1>2, <1>6 DEF Ready
=============================================================================
