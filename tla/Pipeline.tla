------------------------------ MODULE Pipeline ------------------------------
(***************************************************************************)
(* transpile with the four tools it queues (translate/src/tools): the      *)
(* scheduler, runner and organizer of Transpile, and in place of its       *)
(* arbitrary tools LoadRawSource, IdentifyProjectKind, RawSourceToCargoLlm *)
(* and TryCargoBuild.  A representation is its type; a ProjectKind and a   *)
(* CargoBuildResult are also their value.  None of these tools writes an   *)
(* id that exists, and none keeps its reporter beyond its run, or puts     *)
(* another edit in the place of its own.                                   *)
(***************************************************************************)
EXTENDS Transpile, FiniteSets

LoadRawSource == 1
IdentifyProjectKind == 2
RawSourceToCargoLlm == 3
TryCargoBuild == 4

RawSource == {"RawSource"}
ProjectKind == {"Executable", "Library"}
CargoPackage == {"CargoPackage"}
CargoBuildResult == {"Built", "BuildFailed"}

ASSUME PipelineAssumption ==
    /\ NTools = 4
    /\ Replacers = {}
    /\ Reprs = RawSource \cup ProjectKind \cup CargoPackage \cup CargoBuildResult

(* What the output directory holds: files that an earlier run has left where
   the package has none ("leftover"), some of the package's files ("part"),
   all of them ("package"). *)
VARIABLE output

pipelineVars == <<vars, output>>

(* The binary has emptied the directory; the benchmark driver leaves in it
   what an earlier run of its own has put there. *)
Untouched == {{}, {"leftover"}}

PipelineInit == Init /\ output \in Untouched

(* HarvestIR::get_by_representation *)
OfType(m, type) == {i \in Ids : m[i] \in type}

----------------------------------------------------------------------------
(* might_write *)

(* TryCargoBuild wants exactly one package, the others one input or more. *)
BadReady(t, m) ==       \* the translation does not wait for the kind
    CASE t = LoadRawSource -> TRUE
      [] t = IdentifyProjectKind -> OfType(m, RawSource) # {}
      [] t = RawSourceToCargoLlm -> OfType(m, RawSource) # {}
      [] t = TryCargoBuild -> Cardinality(OfType(m, CargoPackage)) = 1

Ready(t, m) ==
    CASE t = LoadRawSource -> TRUE
      [] t = IdentifyProjectKind -> OfType(m, RawSource) # {}
      [] t = RawSourceToCargoLlm ->
            OfType(m, RawSource) # {} /\ OfType(m, ProjectKind) # {}
      [] t = TryCargoBuild -> Cardinality(OfType(m, CargoPackage)) = 1

MightWrite ==
    \/ Offering /\ Ready(Current, snapshot) /\ RunnableNewEdit({})
    \/ Offering /\ ~Ready(Current, snapshot) /\ TryAgain

PipelineMain ==
    /\ \/ TakeSnapshot
       \/ MightWrite
       \/ StartRun
       \/ StartRunFails
       \/ RecordInvocation
       \/ ScheduleDone
       \/ NoTools
       \/ ProcessOk
       \/ ProcessErr
       \/ DrainDone
       \/ Return
       \/ Unwind
    /\ UNCHANGED output

----------------------------------------------------------------------------
(* run *)

Wrote(t) == written[t] # Empty

(* read_dir and populate_from fail, or panic on a symlink, or succeed. *)
LoadWrites == ~Wrote(LoadRawSource) /\ AddRepresentation(LoadRawSource, "RawSource")
LoadFails == ~Wrote(LoadRawSource) /\ RunFails(LoadRawSource)

(* The loop over the raw sources: each one may yield a kind or, without a
   CMakeLists.txt that names one, nothing. *)
BadMoreSources(t) == TRUE
MoreSources(t) ==
    Cardinality(Contents(written[t])) < Cardinality(OfType(snap[t], RawSource))

IdentifyWrites(kind) ==
    /\ MoreSources(IdentifyProjectKind)
    /\ AddRepresentation(IdentifyProjectKind, kind)

(* The two unwraps panic without input; the call of the LLM, the parser of
   its answer and set_file may fail. *)
LlmWrites ==
    /\ OfType(snap[RawSourceToCargoLlm], RawSource) # {}
    /\ OfType(snap[RawSourceToCargoLlm], ProjectKind) # {}
    /\ ~Wrote(RawSourceToCargoLlm)
    /\ AddRepresentation(RawSourceToCargoLlm, "CargoPackage")
LlmFails == ~Wrote(RawSourceToCargoLlm) /\ RunFails(RawSourceToCargoLlm)

(* The package is materialized, not "to a tempdir" (try_cargo_build.rs:2), but
   into the output directory itself, which adds files and overwrites some but
   deletes none, and may fail half way; then it is built there.  The build's verdict is data, an error is a cargo that
   cannot be run or read. *)
Materializes ==
    /\ Running(TryCargoBuild)
    /\ output \in Untouched
    /\ Cardinality(OfType(snap[TryCargoBuild], CargoPackage)) = 1
    /\ output' = output \cup {"package"}
    /\ UNCHANGED vars

MaterializeFails ==
    /\ Running(TryCargoBuild)
    /\ output \in Untouched
    /\ output' \in {output, output \cup {"part"}}
    /\ RunFails(TryCargoBuild)

BadMaterialized == TRUE
Materialized == "package" \in output

BuildWrites(verdict) ==
    /\ Materialized
    /\ ~Wrote(TryCargoBuild)
    /\ AddRepresentation(TryCargoBuild, verdict)
BuildFails == Materialized /\ ~Wrote(TryCargoBuild) /\ RunFails(TryCargoBuild)

Finishes(t) ==
    \/ RunReturnsOk(t) /\ (Wrote(t) \/ t = IdentifyProjectKind)
    \/ Ends(t)

PipelineThreads ==
    \/ /\ \/ LoadWrites
          \/ LoadFails
          \/ \E kind \in ProjectKind : IdentifyWrites(kind)
          \/ LlmWrites
          \/ LlmFails
          \/ \E verdict \in CargoBuildResult : BuildWrites(verdict)
          \/ BuildFails
          \/ \E t \in Tools : Finishes(t)
       /\ UNCHANGED output
    \/ Materializes
    \/ MaterializeFails

PipelineNext ==
    \/ PipelineMain
    \/ PipelineThreads
    \/ Done /\ UNCHANGED output

PipelineSpec == PipelineInit /\ [][PipelineNext]_pipelineVars

----------------------------------------------------------------------------
(* Properties *)

(* A run finds what its might_write saw ("This will be the same IR as
   might_write was most recently called with", tools/mod.rs:103), although
   other tools' edits are applied in between: the unwraps of the translation
   and the error of the build are never taken. *)
InputsAreThere ==
    /\ Running(RawSourceToCargoLlm) =>
        /\ OfType(snap[RawSourceToCargoLlm], RawSource) # {}
        /\ OfType(snap[RawSourceToCargoLlm], ProjectKind) # {}
    /\ Running(TryCargoBuild) =>
        Cardinality(OfType(snap[TryCargoBuild], CargoPackage)) = 1

(* Readers of the result take a second representation of a type for an error
   ("expected at most 1", benchmark/src/ir_utils.rs:22, 40, 55): the IR never
   holds two, over all passes of the loop. *)
OneOfEach ==
    \A type \in {RawSource, ProjectKind, CargoPackage, CargoBuildResult} :
        Cardinality(OfType(ir, type)) <= 1

(* A build result in the IR speaks of the package in the IR: the output
   directory holds all of that, and beyond it only what it held when the run
   started, leftovers that the build may have picked up; without a package
   nothing was written there. *)
ResultMatchesOutput ==
    /\ OfType(ir, CargoBuildResult) # {} => output \ {"leftover"} = {"package"}
    /\ output \notin Untouched => OfType(ir, CargoPackage) # {}

(* Each of the four tools waits for what the one before it left in the IR,
   so no two of them ever run, or wait to be applied, at the same time. *)
OneAtATime ==
    \A t, u \in Tools : HasEdit(t) /\ HasEdit(u) => t = u

(* transpile returns an IR without a build result only if a run failed or
   the project's kind could not be told: the loop never ends before the chain
   of four tools, each waiting for the result of the one before, is through. *)
ChainIsThrough ==
    pc = "returned" =>
        \/ OfType(ir, CargoBuildResult) # {}
        \/ \E t \in Tools : stage[t] = "dropped"
        \/ stage[IdentifyProjectKind] = "applied" /\ OfType(ir, ProjectKind) = {}
=============================================================================
