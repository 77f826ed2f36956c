----------------------------- MODULE Benchmark -----------------------------
(***************************************************************************)
(* The benchmark driver (benchmark/src/main.rs): one process translates a  *)
(* list of programs, one transpile with the four tools of Pipeline after   *)
(* the other, runs the test cases of each one that builds, and writes the  *)
(* statistics.  Everything between two programs is a return or a panic:    *)
(* a panic ends the whole process ("aborted"), with it the results so far. *)
(***************************************************************************)
EXTENDS Pipeline

CONSTANTS
    NPrograms,
    TestCases       \* file names of test vectors

ASSUME BenchmarkAssumption == NPrograms \in Nat /\ IsFiniteSet(TestCases)

Programs == 1 .. NPrograms

VARIABLES
    at,             \* where benchmark_single_program is
    program,        \* the one it is at
    diagnostics,    \* its directory: "temporary", "kept", "emptied" (force), "used"
    vectors,        \* parsed test cases that have not run yet
    result,         \* ProgramEvalStats of the current program
    results,        \* of the programs before it
    failed_tests,   \* per program, the directory of that name on disk
    results_err     \* per program, the file: "none", "old", "new"

benchVars == <<at, program, diagnostics, vectors, result, results, failed_tests,
               results_err>>
benchmarkVars == <<pipelineVars, benchVars>>

(* ProgramEvalStats::new *)
NewResult == [translated |-> FALSE, built |-> FALSE, total |-> 0, passed |-> 0,
              error |-> FALSE, test_results |-> {}]

(* The configuration comes from the user's file; directories may hold what an
   earlier run on the same programs has left. *)
BenchmarkInit ==
    /\ PipelineInit
    /\ at = "program"
    /\ program = 1
    /\ diagnostics \in {"temporary", "kept", "emptied"}
    /\ vectors = {}
    /\ result = NewResult
    /\ results = <<>>
    /\ \E old \in SUBSET TestCases :
        /\ failed_tests = [p \in Programs |-> old]
        /\ results_err = [p \in Programs |-> IF old = {} THEN "none" ELSE "old"]

(* benchmark_single_program returns r. *)
Returns(r) ==
    /\ results' = Append(results, r)
    /\ program' = program + 1
    /\ at' = "program"
    /\ vectors' = {}
    /\ result' = NewResult
    /\ UNCHANGED <<pipelineVars, diagnostics>>

Abort(why) ==
    /\ at' = why
    /\ UNCHANGED <<pipelineVars, program, diagnostics, vectors, result, results,
                   failed_tests, results_err>>

Aborted == {"no config", "transpile failed", "no source", "no artifact",
            "not saved", "no csv"}
----------------------------------------------------------------------------
(* Before the translation *)

ProgramFails ==
    /\ at = "program" /\ program \in Programs
    /\ Returns([result EXCEPT !.error = TRUE])
    /\ UNCHANGED <<failed_tests, results_err>>

(* parse_test_vectors: a file that does not parse is skipped. *)
ParseVectors ==
    /\ at = "program" /\ program \in Programs
    /\ \E S \in SUBSET TestCases :
        /\ vectors' = S
        /\ result' = [result EXCEPT !.total = Cardinality(S)]
    /\ at' = "initialize"
    /\ UNCHANGED <<pipelineVars, program, diagnostics, results, failed_tests, results_err>>

ConfigFails == at = "initialize" /\ Abort("no config")

(* transpile fails in Collector::initialize: whatever went wrong, and always
   on a diagnostics directory that the program before has filled. *)
CollectorFails == at = "initialize" /\ Abort("transpile failed")

(* A new call of transpile: all its variables are new, NEXT_ID is not. *)
StartTranspile ==
    /\ at = "initialize"
    /\ diagnostics # "used"
    /\ diagnostics' = IF diagnostics = "kept" THEN "used" ELSE diagnostics
    /\ pc' = "snapshot"
    /\ snapshot' = Empty /\ ir' = Empty
    /\ queue' = [k \in Tools |-> k]
    /\ trying' = <<>> /\ channel' = <<>>
    /\ invocations' = {} /\ in_use' = {}
    /\ ir_version' = 0
    /\ said' = [t \in Tools |-> "nothing"]
    /\ stage' = [t \in Tools |-> "queued"]
    /\ helpers' = [t \in Tools |-> 0]
    /\ edit' = [t \in Tools |-> None] /\ kept' = {}
    /\ snap' = [t \in Tools |-> Empty] /\ written' = [t \in Tools |-> Empty]
    /\ writable' = [t \in Tools |-> {}]
    /\ output' \in Untouched            \* another program's directory
    /\ at' = "transpile"
    /\ UNCHANGED <<next_id, program, vectors, result, results, failed_tests, results_err>>

Translating == at = "transpile" /\ PipelineNext /\ UNCHANGED benchVars
----------------------------------------------------------------------------
(* After it *)

Returned == at = "transpile" /\ pc = "returned"

(* The result is unwrapped before it is matched. *)
TranspileFailed == at = "transpile" /\ pc = "failed" /\ Abort("transpile failed")

(* raw_source *)
HasSource == Cardinality(OfType(ir, RawSource)) = 1

(* Its error, or that of materialize for c_src, is unwrapped. *)
NoSource == Returned /\ Abort("no source")

(* raw_cargo_package and cargo_build_result *)
Translated == Cardinality(OfType(ir, CargoPackage)) = 1
Built == Cardinality(OfType(ir, CargoBuildResult)) = 1 /\ OfType(ir, {"Built"}) # {}

NoArtifact == Returned /\ Built /\ Abort("no artifact")

FromIr ==
    /\ Returned /\ HasSource
    /\ LET r == [result EXCEPT !.translated = Translated, !.built = Built]
       IN  IF Translated /\ Built
           THEN /\ result' = r
                /\ at' = "tests"
                /\ UNCHANGED <<pipelineVars, program, diagnostics, vectors, results>>
           ELSE Returns([r EXCEPT !.error = TRUE])
    /\ UNCHANGED <<failed_tests, results_err>>

(* run_test_validation *)
Runs(t, ok, passed) ==
    /\ at = "tests" /\ t \in vectors
    /\ vectors' = vectors \ {t}
    /\ result' = [result EXCEPT !.passed = passed,
                                !.test_results = @ \cup {<<t, ok>>}]
    /\ UNCHANGED <<pipelineVars, at, program, diagnostics, results, results_err>>

BadPassedTests == result.total - Cardinality(vectors)   \* how many have run before
PassedTests == result.passed

TestPasses(t) == Runs(t, TRUE, PassedTests + 1) /\ UNCHANGED failed_tests

BadSaved(t) == {t}      \* the directory is made anew for each failure
Saved(t) == failed_tests[program] \cup {t}

(* The test case is written to disk, or the driver panics. *)
TestFails(t) ==
    /\ Runs(t, FALSE, PassedTests)
    /\ failed_tests' = [failed_tests EXCEPT ![program] = Saved(t)]

NotSaved == at = "tests" /\ vectors # {} /\ Abort("not saved")

Failures(r) == {f[1] : f \in {g \in r.test_results : ~g[2]}}

(* results.err is written, or that fails with a warning. *)
TestsDone ==
    /\ at = "tests" /\ vectors = {}
    /\ Returns(result)
    /\ \/ results_err' = [results_err EXCEPT ![program] =
                            IF Failures(result) = {} THEN @ ELSE "new"]
       \/ Failures(result) # {} /\ UNCHANGED results_err
    /\ UNCHANGED failed_tests

(* write_csv_results, then the summary; cargo clean only frees disk space. *)
Summarize ==
    /\ at = "program" /\ program \notin Programs
    /\ at' = "finished"
    /\ UNCHANGED <<pipelineVars, program, diagnostics, vectors, result, results,
                   failed_tests, results_err>>

CsvFails == at = "program" /\ program \notin Programs /\ Abort("no csv")

Ended == at \in Aborted \cup {"finished"} /\ UNCHANGED benchmarkVars

BenchmarkNext ==
    \/ ProgramFails
    \/ ParseVectors
    \/ ConfigFails
    \/ CollectorFails
    \/ StartTranspile
    \/ Translating
    \/ TranspileFailed
    \/ NoSource
    \/ NoArtifact
    \/ FromIr
    \/ \E t \in TestCases : TestPasses(t) \/ TestFails(t)
    \/ NotSaved
    \/ TestsDone
    \/ Summarize
    \/ CsvFails
    \/ Ended

BenchmarkSpec == BenchmarkInit /\ [][BenchmarkNext]_benchmarkVars
----------------------------------------------------------------------------
(* Properties *)

(* The statistics of any translations fit together, so that the summary's
   total_tests - total_passed_tests (io.rs:125) does not underflow: no build
   succeeds without a translation, every test case of a program that builds
   is counted once, and a program without error message is one that builds. *)
ResultsAddUp ==
    \A k \in DOMAIN results :
        LET r == results[k]
        IN  /\ r.built => r.translated
            /\ r.error <=> ~r.built
            /\ r.passed = Cardinality({f \in r.test_results : f[2]})
            /\ r.built => Cardinality(r.test_results) = r.total
            /\ r.passed <= r.total

(* Every failure the statistics count can be looked up, whatever runs after
   it: "failed_tests: Any test cases that failed" (doc/Benchmark.md), and a
   results.err of this run is there only if there are some. *)
FailuresAreKept ==
    \A k \in DOMAIN results :
        /\ Failures(results[k]) \subseteq failed_tests[k]
        /\ results_err[k] = "new" => Failures(results[k]) # {}

(* A translation that fails is a result, "Failed to transpile" (main.rs:91),
   and not the end of the batch: "Run all benchmarks for a list of programs"
   (main.rs:96). *)
FailedTranslationIsReported == at # "transpile failed"
=============================================================================
